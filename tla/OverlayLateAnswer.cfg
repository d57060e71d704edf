SPECIFICATION Spec
CONSTANTS
  alice = alice  bob = bob  release = release  c1 = c1  c2 = c2
  repoA = repoA  repoB = repoB  pageA = pageA  pageB = pageB  elsewhere = elsewhere
  NoPin = NoPin  NoRepo = NoRepo  NoData = NoData
  Nobody = Nobody
  Key <- Keys
  Track <- Tracks
  Id <- Ids
  Page <- Pages
  Repo <- TwoRepos
  RepoOf <- TwoDetected
  MandatesOf <- Quiet
  Call <- TwoCalls
  TTL = 1
  ExpirySoon = 2
  Failures = FALSE
  Slow = 1
  MaxMail = 1
  MaxTime = 0
CHECK_DEADLOCK FALSE
INVARIANTS PanelMatchesPage
