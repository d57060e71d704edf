------------------------------ MODULE MCCaLease ------------------------------
(* alice hands the ca track over to bob and may get it back; each signs      *)
(* leases for a hot key, one consumer's clock is behind and one ahead.       *)
EXTENDS CaLease

CONSTANTS alice, bob, hot, spare, ca, slow, fast

Cold ==
  [id |-> 0, track |-> ca, holder |-> alice, issued |-> 0, expires |-> 20,
   successors |-> <<alice, bob>>, threshold |-> 1, minSuccessors |-> 1,
   maxDuration |-> 20, signedBy |-> alice, signers |-> {alice}, defect |-> "none"]
Handover == [Cold EXCEPT !.id = 1, !.holder = bob, !.issued = 3, !.expires = 5]
Broken == [Cold EXCEPT !.id = 2, !.holder = bob, !.issued = 2, !.maxDuration = 20,
             !.signers = {hot}, !.signedBy = hot]

First ==
  [track |-> ca, key |-> hot, notBefore |-> 1, notAfter |-> 5, issued |-> 1,
   signedBy |-> alice, signers |-> {alice}, defect |-> "none"]
Planned  == [First EXCEPT !.key = spare, !.notBefore = 4, !.notAfter = 7]
Renewed  == [First EXCEPT !.key = spare, !.notBefore = 2, !.notAfter = 6, !.issued = 2]
ByBob    == [Renewed EXCEPT !.signedBy = bob, !.signers = {alice, bob},
              !.issued = 3, !.notAfter = 7]
Unsigned == [First EXCEPT !.signers = {}, !.notAfter = 7]
Forged   == [First EXCEPT !.defect = "signature", !.notAfter = 7]

AllMandates == {Cold, Handover, Broken}
AllLeases == {First, Planned, Renewed, ByBob, Unsigned, Forged}

ThePin == PinHash(Cold)
Consumers == {slow, fast}
Offsets == slow :> -1 @@ fast :> 1
Keys == {alice, bob, hot, spare}
Tracks == {ca}
Ids == 0 .. 2
=============================================================================
