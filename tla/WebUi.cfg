SPECIFICATION WebSpec
CONSTANTS
  alice = alice  bob = bob  release = release
  one = one   oneDev = oneDev  two = two  junk = junk
  main = main  dev = dev  other = other
  NoPin = NoPin  Home = Home  Readme = Readme  None = None
  Key <- Keys  Track <- Tracks  Id <- Ids
  Url <- Urls  Malformed <- Junk  Canon <- CanonOf  Reads <- ReadsOf
  Branch <- Branches  InitialTrees <- Trees  Upcoming <- ToCome
  Bundles <- Pair  Adapters <- AllAdapters
  MaxRoutes = 3
CHECK_DEADLOCK FALSE
INVARIANTS ShownProjectIsTheRoutes ShownChainIsAPrefix CommittedWholly
PROPERTIES PageSettles
