SPECIFICATION ReleaseSpec
CONSTANTS
  alice = alice  bob = bob  release = release  old = old  new = new
  c1 = c1  c2 = c2  c3 = c3
  NoPin = NoPin
  NoRelease = NoRelease
  Key <- Keys
  Track <- Tracks
  Id <- Ids
  Commit <- Commits
  Build <- Builds
  PinOf <- Pins
  MirrorMandates <- AllMandates
  MirrorReleases <- AllReleases
  MaxMirrorMandates = 3
  MaxMirrorReleases = 3
CHECK_DEADLOCK FALSE
INVARIANTS OneLineOfReleases InvalidReleasesAreInert
PROPERTIES SettledHistory ReleasesOnlyExtend
