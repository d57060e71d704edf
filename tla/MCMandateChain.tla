--------------------------- MODULE MCMandateChain ---------------------------
(* A small universe for MandateChain: three keys, two tracks, one mandate of *)
(* each kind the verifier tells apart.                                       *)
EXTENDS MandateChain

CONSTANTS alice, bob, carol, release, ca, old, new, bare

Genesis ==
  [id |-> 0, track |-> release, holder |-> alice, issued |-> 0, expires |-> 4,
   successors |-> <<alice, bob>>, threshold |-> 1, minSuccessors |-> 1,
   maxDuration |-> 3, signedBy |-> alice, signers |-> {alice}, defect |-> "none"]

(* bob takes over for a short time and from then on asks for two approvals *)
Takeover ==
  [Genesis EXCEPT !.id = 1, !.holder = bob, !.issued = 1, !.expires = 3,
     !.threshold = 2, !.minSuccessors = 2, !.signedBy = bob, !.signers = {bob}]

(* approved by both, accepted after Genesis and after Takeover alike *)
Renewal ==
  [Genesis EXCEPT !.id = 2, !.issued = 2, !.expires = 5, !.signers = {alice, bob}]

(* approved by one: enough for Genesis and Renewal, not for Takeover *)
Late ==
  [Genesis EXCEPT !.id = 3, !.issued = 2, !.expires = 4, !.holder = carol]

Stripped  == [Genesis EXCEPT !.defect = "signature"]         \* the pin, broken
Reused    == [Late EXCEPT !.id = 1, !.signers = {alice, bob}] \* Takeover's id
Foreign   == [Renewal EXCEPT !.id = 4, !.track = ca]
Outsider  == [Renewal EXCEPT !.id = 5, !.signers = {alice, carol}]
Eternal   == [Renewal EXCEPT !.id = 6, !.expires = 9]
Lonely    == [Renewal EXCEPT !.id = 7, !.successors = <<>>]
Backwards == [Renewal EXCEPT !.id = 8, !.expires = 2]
Malformed == [Renewal EXCEPT !.id = 9, !.defect = "shape"]
Undated   == [Renewal EXCEPT !.id = 10, !.defect = "dates"]

AnyHost == {Genesis, Takeover, Renewal, Late, Stripped, Reused, Foreign,
            Outsider, Eternal, Lonely, Backwards, Malformed, Undated}

Pins == old :> PinHash(Genesis) @@ new :> PinHash(Renewal) @@ bare :> NoPin
Builds == {old, new, bare}
Keys == {alice, bob, carol}
Tracks == {release, ca}
Ids == 0 .. 10
=============================================================================
