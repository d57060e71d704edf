---------------------------- MODULE MCReleaseLog ----------------------------
(* alice releases, bob takes over, and a takeover dated earlier may turn up  *)
(* after releases it should have decided.                                    *)
EXTENDS ReleaseLog

CONSTANTS alice, bob, release, old, new, c1, c2, c3

Genesis ==
  [id |-> 0, track |-> release, holder |-> alice, issued |-> 0, expires |-> 9,
   successors |-> <<alice, bob>>, threshold |-> 1, minSuccessors |-> 1,
   maxDuration |-> 9, signedBy |-> alice, signers |-> {alice}, defect |-> "none"]
Takeover  == [Genesis EXCEPT !.id = 1, !.holder = bob, !.issued = 4, !.expires = 8,
                !.signers = {bob}, !.signedBy = bob]
Backdated == [Takeover EXCEPT !.id = 2, !.issued = 2, !.expires = 6]
Invalid   == [Takeover EXCEPT !.id = 3, !.issued = 1, !.defect = "signature"]
Timeless  == [Takeover EXCEPT !.id = 3, !.defect = "dates"]

First ==
  [id |-> 0, commit |-> c1, prevId |-> NoRelease, prevCommit |-> NoRelease, issued |-> 1,
   signedBy |-> alice, signers |-> {alice}, defect |-> "none"]
Second     == [First EXCEPT !.id = 1, !.commit = c2, !.prevId = 0, !.prevCommit = c1,
                 !.issued = 3, !.signers = {alice, bob}]
ThirdByBob == [First EXCEPT !.id = 2, !.commit = c3, !.prevId = 1, !.prevCommit = c2,
                 !.issued = 5, !.signedBy = bob, !.signers = {bob}]
Replayed   == [First EXCEPT !.prevId = 1, !.prevCommit = c2, !.issued = 3]
Sideways   == [Second EXCEPT !.id = 2, !.prevId = 1]
FirstByBob == [First EXCEPT !.commit = c2, !.signedBy = bob, !.signers = {bob}]
Squatter   == [Second EXCEPT !.signedBy = bob, !.signers = {alice}, !.defect = "merkle"]
Undated    == [Second EXCEPT !.defect = "dates"]

AllMandates == {Genesis, Takeover, Backdated, Invalid, Timeless}
AllReleases == {First, Second, ThirdByBob, Replayed, Sideways, FirstByBob, Squatter, Undated}

Pins == old :> PinHash(Genesis) @@ new :> PinHash(Takeover)
Builds == {old, new}
Keys == {alice, bob}
Tracks == {release}
Ids == 0 .. 3
Commits == {c1, c2, c3}
=============================================================================
