---------------------------- MODULE MCCommitGate ----------------------------
(* alice holds the release track; she, or bob after a takeover, renews it.   *)
EXTENDS CommitGate

CONSTANTS alice, bob, release, ca, r1, r2, r3

Root ==
  [id |-> 0, track |-> release, holder |-> alice, issued |-> 0, expires |-> 9,
   successors |-> <<alice, bob>>, threshold |-> 1, minSuccessors |-> 1,
   maxDuration |-> 9, signedBy |-> alice, signers |-> {alice}, defect |-> "none"]
Takeover == [Root EXCEPT !.id = 1, !.holder = bob, !.issued = 1, !.successors = <<bob>>,
               !.signedBy = bob, !.signers = {bob}]
Renewal  == [Root EXCEPT !.id = 2, !.issued = 2]
CaRoot   == [Root EXCEPT !.id = 3, !.track = ca, !.issued = 1]
CaEarly  == [CaRoot EXCEPT !.id = 4, !.holder = bob, !.issued = 0,
               !.signedBy = bob, !.signers = {bob}]

Wrap(m) == [kind |-> "Mandate", mandate |-> m]
Lease == [kind |-> "CaEndorsement", track |-> release, signedBy |-> alice,
          signers |-> {alice}, issued |-> 0, notBefore |-> 1, notAfter |-> 2, defect |-> "none"]
Endorsed == [Lease EXCEPT !.kind = "ReleaseEndorsement", !.signedBy = bob, !.signers = {bob},
               !.issued = 1]
BobsKey == [kind |-> "KeyFile", pubkey |-> bob, defect |-> "none"]
Rotation == [BobsKey EXCEPT !.kind = "EmailRotation"]

At(d, n) == [dir |-> d, name |-> n]
Place(p, e) == [path |-> p, envelope |-> e, bytes |-> TRUE]
Paths == {At(release, 1), At(release, 2), At(release, 3), At(ca, 4), At(ca, 5),
          At(Outside, 6), At(KeysDir, 7), At(KeysDir, 8)}

Empty == [p \in Paths |-> NoFile]
WithRoot == [Empty EXCEPT ![At(release, 2)] = Wrap(Root)]

(* all kinds of requests *)
AllJobs ==
  {Place(At(release, 3), Wrap(Takeover)), Place(At(release, 1), Wrap(Renewal)),
   Place(At(ca, 5), Wrap(CaRoot)), Place(At(ca, 4), Wrap(CaEarly)),
   Place(At(ca, 4), Lease), Place(At(ca, 5), Endorsed),
   Place(At(KeysDir, 7), BobsKey), Place(At(KeysDir, 8), Rotation),
   Place(At(Outside, 6), BobsKey),
   Place(At(release, 3), Wrap([Takeover EXCEPT !.defect = "signature"])),
   Place(At(release, 3), Wrap([Takeover EXCEPT !.signers = {}])),
   [Place(At(release, 3), Wrap(Takeover)) EXCEPT !.bytes = FALSE]}

(* what may race *)
Successions == {Place(At(release, 3), Wrap(Takeover)), Place(At(release, 1), Wrap(Renewal))}

Keys == {alice, bob}
Tracks == {release, ca}
Ids == 0 .. 4
Requests == {r1, r2, r3}
TwoRequests == {r1, r2}
Swaps == Permutations(Requests)

(* The instance meets the hypotheses of AcknowledgedStays and ReportsAreKept *)
(* (CommitGateProofs).                                                       *)
ASSUME InstanceAssumption == NamedApart /\ StartsVerified
=============================================================================
