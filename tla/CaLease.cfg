SPECIFICATION FairSpec
CONSTANTS
  alice = alice  bob = bob  hot = hot  spare = spare
  ca = ca  slow = slow  fast = fast
  NoPin = NoPin
  Key <- Keys
  Track <- Tracks
  Id <- Ids
  Consumer <- Consumers
  Offset <- Offsets
  Skew = 1
  Pin <- ThePin
  Mandates <- AllMandates
  Leases <- AllLeases
  MaxMandates = 2
  MaxLeases = 3
  MaxTime = 9
CHECK_DEADLOCK FALSE
INVARIANTS TrustIsBounded SkewTolerated
PROPERTIES WithholdingKills DeadKeysStayDead CurrentStepsBackOnlyOnLapse
