------------------------ MODULE MCCheckpointRegistry ------------------------
(* A project with two mandates, seen at two commits and in a rewritten log.  *)
EXTENDS CheckpointRegistry

CONSTANTS alice, bob, release, ca, r1, r2, r3

M0 ==
  [id |-> 0, track |-> release, holder |-> alice, issued |-> 0, expires |-> 9,
   successors |-> <<alice, bob>>, threshold |-> 1, minSuccessors |-> 1,
   maxDuration |-> 9, signedBy |-> alice, signers |-> {alice}, defect |-> "none"]
M1 == [M0 EXCEPT !.id = 1, !.holder = bob, !.issued = 1, !.signedBy = bob, !.signers = {bob}]
M1b == [M1 EXCEPT !.id = 2, !.issued = 2]

Sub0 ==
  [track |-> release, hash |-> PinHash(M0), bound |-> TRUE, signers |-> {alice, bob},
   defect |-> "none", source |-> <<M0>>, claimed |-> 1]
Sub1 == [Sub0 EXCEPT !.hash = PinHash(M1), !.source = <<M1, M0>>, !.claimed = 0]
Back == [Sub1 EXCEPT !.hash = PinHash(M0)]
Rewritten == [Sub1 EXCEPT !.hash = PinHash(M1b), !.source = <<M0, M1b>>]
OtherTrack == [Sub0 EXCEPT !.track = ca]
Bad == {[Sub1 EXCEPT !.bound = FALSE], [Sub1 EXCEPT !.signers = {alice}],
        [Sub1 EXCEPT !.source = <<M1>>], [Sub0 EXCEPT !.hash = PinHash(M1)],
        [Sub1 EXCEPT !.defect = "signature"]}

Everything == {Sub0, Sub1, Back, Rewritten, OtherTrack} \cup Bad

ThePin == PinHash(M0)
Keys == {alice, bob}
Tracks == {release, ca}
Ids == 0 .. 2
ThreeRuns == {r1, r2, r3}
Swaps == Permutations(Run)
=============================================================================
