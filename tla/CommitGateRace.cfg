SPECIFICATION Spec
CONSTANTS
  alice = alice  bob = bob
  release = release  ca = ca  r1 = r1  r2 = r2  r3 = r3
  NoPin = NoPin
  Outside = Outside
  KeysDir = KeysDir
  NoFile = NoFile
  ReleaseTrack = release
  Key <- Keys
  Track <- Tracks
  Id <- Ids
  Path <- Paths
  Request <- TwoRequests
  MaxInFlight = 2
  InitialFiles <- WithRoot
  Jobs <- Successions
  Careful = TRUE
  Skew = 0
  MaxTime = 0
CHECK_DEADLOCK FALSE
PROPERTIES GatedOnCurrentState
