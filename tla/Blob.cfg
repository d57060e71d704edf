SPECIFICATION Spec
CONSTANTS
  a1 = a1  c1 = c1  c2 = c2  c3 = c3  c4 = c4  c5 = c5  p1 = p1  p2 = p2  p3 = p3
  NoEntry = NoEntry
  NoBlob = NoBlob
  NoJob = NoJob
  Path <- TwoPaths
  Adapter <- OneAdapter
  Call <- FiveCalls
  MaxInFlight = 2
  Failures = TRUE
  Resets = "between calls"
CHECK_DEADLOCK FALSE
SYMMETRY Alike
INVARIANTS CacheIsCurrent LogIsOrdered
PROPERTIES ImplementsStorage
