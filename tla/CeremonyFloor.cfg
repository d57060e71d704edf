SPECIFICATION Spec
CONSTANTS
  alice = alice  bob = bob  release = release  left = left  right = right  mail = mail
  NoPin = NoPin  NoReader = NoReader  Empty = Empty  Unplugged = Unplugged
  Piv = Piv  Signer = Signer  Unset = Unset  NoCommand = NoCommand  NoDraft = NoDraft
  Key <- Keys  Token <- Keys  Track <- Tracks  Id <- Ids  ForeignId <- OthersIds
  Reader <- Readers  Subject <- Subjects
  InitialSlots <- Slots  InitialFiles <- WithRoot  Foreign <- Others
  Commands <- FloorCommands
  MaxAttempts = 2  MaxMoves = 1  MaxPin = 1  MaxRuns = 1  MaxNow = 1
CHECK_DEADLOCK FALSE
INVARIANTS NeverTapForARejectedMandate
