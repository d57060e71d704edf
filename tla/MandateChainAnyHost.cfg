SPECIFICATION Spec
CONSTANTS
  alice = alice  bob = bob  carol = carol
  release = release  ca = ca
  old = old  new = new  bare = bare
  NoPin = NoPin
  Key <- Keys
  Track <- Tracks
  Id <- Ids
  Consumer <- Builds
  PinOf <- Pins
  Envelopes <- AnyHost
  MaxLog = 4
  MaxTime = 5
CHECK_DEADLOCK FALSE
INVARIANTS TypeOK ChainSound NothingPoisons PinsAgree
PROPERTIES NothingRetracted AuthorityFallsBackOnlyOnExpiry
