SPECIFICATION Spec
CONSTANTS
  alice = alice  bob = bob
  release = release  ca = ca  r1 = r1  r2 = r2  r3 = r3
  NoPin = NoPin
  Outside = Outside
  KeysDir = KeysDir
  NoFile = NoFile
  ReleaseTrack = release
  Key <- Keys
  Track <- Tracks
  Id <- Ids
  Path <- Paths
  Request <- Requests
  MaxInFlight = 2
  InitialFiles <- WithRoot
  Jobs <- AllJobs
  Careful = TRUE
  Skew = 0
  MaxTime = 2
CHECK_DEADLOCK FALSE
SYMMETRY Swaps
INVARIANTS AcknowledgedIsEffective OneWinnerPerPath
PROPERTIES ReportStays GatedUnlessOvertaken
