------------------------ MODULE MCExtensionOverlay ------------------------
(* A tab moves between two repositories and a page of none; one repository   *)
(* publishes a root, a takeover or a handover, and what follows.             *)
EXTENDS ExtensionOverlay

CONSTANTS alice, bob, release, c1, c2, repoA, repoB, pageA, pageB, elsewhere

Root ==
  [id |-> 0, track |-> release, holder |-> alice, issued |-> 0, expires |-> 3,
   successors |-> <<alice, bob>>, threshold |-> 1, minSuccessors |-> 1,
   maxDuration |-> 9, signedBy |-> alice, signers |-> {alice}, defect |-> "none"]
Takeover == [Root EXCEPT !.id = 1, !.holder = bob, !.issued = 1, !.expires = 6,
               !.signedBy = bob, !.signers = {bob}]
Handover == [Takeover EXCEPT !.id = 2, !.issued = 0, !.signedBy = alice, !.signers = {alice}]
Renewal  == [Takeover EXCEPT !.id = 3, !.issued = 2]

Pages == {pageA, pageB, elsewhere}

(* one repository with two pages, of which everything may be published *)
OneRepo == {repoA}
OneDetected == pageA :> repoA @@ pageB :> repoA @@ elsewhere :> NoRepo
Twins == Permutations({pageA, pageB})
Busy == repoA :> {Root, Takeover, Handover, Renewal}

(* two, to navigate between *)
TwoRepos == {repoA, repoB}
TwoDetected == pageA :> repoA @@ pageB :> repoB @@ elsewhere :> NoRepo
Quiet == repoA :> {} @@ repoB :> {}
Keys == {alice, bob}
Tracks == {release}
Ids == 0 .. 3
OneCall == {c1}
TwoCalls == {c1, c2}
=============================================================================
