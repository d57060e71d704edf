SPECIFICATION Spec
CONSTANTS
  alice = alice  bob = bob  release = release  c1 = c1  c2 = c2
  repoA = repoA  repoB = repoB  pageA = pageA  pageB = pageB  elsewhere = elsewhere
  NoPin = NoPin  NoRepo = NoRepo  NoData = NoData
  Nobody = Nobody
  Key <- Keys
  Track <- Tracks
  Id <- Ids
  Page <- Pages
  Repo <- OneRepo
  RepoOf <- OneDetected
  MandatesOf <- Busy
  Call <- OneCall
  TTL = 1
  ExpirySoon = 2
  Failures = TRUE
  Slow = 1
  MaxMail = 1
  MaxTime = 3
CHECK_DEADLOCK FALSE
SYMMETRY Twins
INVARIANTS PanelMatchesPage BadgeMatchesPanel
PROPERTIES FreshWithinTTL RefreshShowsAll HolderNeverChangesSilently
