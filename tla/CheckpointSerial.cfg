SPECIFICATION Spec
CONSTANTS
  alice = alice  bob = bob  release = release  ca = ca
  r1 = r1  r2 = r2  r3 = r3
  NoPin = NoPin
  Nothing = Nothing
  Key <- Keys
  Track <- Tracks
  Id <- Ids
  ProjectPin <- ThePin
  Run <- ThreeRuns
  MaxRunning = 1
  Submissions <- Everything
  RateCap = 1
  Window = 2
  Prunable = TRUE
  MaxTime = 2
CHECK_DEADLOCK FALSE
SYMMETRY Swaps
INVARIANTS DatesInOrder NoFalseTamperAlarm
PROPERTIES RecordsOnlyChanges FlaggedOverCap
