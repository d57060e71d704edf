----------------------------- MODULE MCCeremony -----------------------------
(* alice founded the track and signs with the token in her reader, bob is    *)
(* her second successor and signs with a file or a token of his own.         *)
EXTENDS Ceremony

CONSTANTS alice, bob, release, left, right, mail

Root ==
  [id |-> 2, track |-> release, holder |-> alice, issued |-> 0, expires |-> 2,
   successors |-> <<alice, bob>>, threshold |-> 1, minSuccessors |-> 2,
   maxDuration |-> 2, signedBy |-> alice, signers |-> {alice}, defect |-> "none"]

Renew ==
  [verb |-> "upsert-mandate", source |-> Piv, track |-> release, holder |-> Signer,
   successors |-> Unset, threshold |-> Unset, minSuccessors |-> Unset, window |-> 2,
   maxWindow |-> Unset, project |-> FALSE, dryRun |-> "absent", yes |-> FALSE,
   terminal |-> TRUE, subject |-> Unset]
RenewByFile == [Renew EXCEPT !.source = bob, !.yes = TRUE, !.terminal = FALSE]
Overlong == [RenewByFile EXCEPT !.window = 3]
Narrow == [RenewByFile EXCEPT !.successors = <<alice>>, !.minSuccessors = 1]
NarrowByToken == [Renew EXCEPT !.successors = <<alice>>, !.minSuccessors = 1]
Register == [RenewByFile EXCEPT !.verb = "create-key", !.subject = mail]
Lease == [RenewByFile EXCEPT !.verb = "ca-endorsement", !.subject = mail, !.dryRun = "other"]
Endorse == [RenewByFile EXCEPT !.verb = "endorsement", !.subject = mail]
Submit == [RenewByFile EXCEPT !.verb = "checkpoint-submit"]
SelfTest == [Renew EXCEPT !.verb = "selftest-pin"]
Practice == [RenewByFile EXCEPT !.dryRun = "true"]

AllCommands ==
  {Renew, RenewByFile, Overlong, Narrow, Register, Lease, Endorse, Submit, SelfTest, Practice}
FloorCommands == {NarrowByToken}
Others == {RenewByFile, Register}

Keys == {alice, bob}
Tracks == {release}
Ids == 0 .. 3
OthersIds == {1}
WithRoot == {File(Renew, <<0, 2>>, Root)}
Readers == {left, right}
Slots == [r \in Readers |-> IF r = left THEN alice ELSE Empty]
Subjects == {mail}
=============================================================================
