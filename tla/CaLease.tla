------------------------------ MODULE CaLease ------------------------------
(***************************************************************************)
(* CaEndorsements: short leases that let a hot key act for a ca-class      *)
(* track (packages/protocol/src/caEndorsement.ts).  A lease is judged at   *)
(* the consumer's own clock and against whoever has authority over the     *)
(* track at that clock.  Here a host serves mandates and leases in any     *)
(* order, or withholds them, while time passes for consumers whose clocks  *)
(* are off by a constant.                                                  *)
(***************************************************************************)
EXTENDS Verifier, Integers

CONSTANTS
  Consumer,     \* who verifies
  Offset,       \* how far each consumer's clock is from true time
  Skew,         \* DEFAULT_CLOCK_SKEW_MS
  Pin,          \* the pin of the ca track, the same in every build
  Mandates,     \* what the host may serve of the mandate log
  Leases,       \* what the host may serve of the leases
  MaxMandates,  \* bound on how many mandates are served
  MaxLeases,    \* bound on how many leases are served
  MaxTime       \* bound on true time

Lease ==
  [track : Track, key : Key, notBefore : Nat, notAfter : Nat, issued : Nat,
   signedBy : Key, signers : SUBSET Key,
   defect : {"none", "envelope", "dates", "signature"}]

ASSUME LeaseAssumption ==
  /\ Skew \in Nat /\ MaxTime \in Nat /\ MaxMandates \in Nat /\ MaxLeases \in Nat
  /\ Offset \in [Consumer -> Int]
  /\ Mandates \subseteq Mandate
  /\ Leases \subseteq Lease

VARIABLES
  chain,    \* the verified chain of the track
  served,   \* how many mandates it was computed from
  leases,   \* the leases served, in order
  now       \* true time

vars == <<chain, served, leases, now>>

TypeOK ==
  /\ chain \in VerifiedChain
  /\ served \in Nat
  /\ leases \in Seq(Leases)
  /\ now \in Nat

Clock(c) == now + Offset[c]

-----------------------------------------------------------------------------
(* Defect: authority is asked for the date the lease claims, as for releases. *)
LeaseRules_AuthorityAtIssue(e, ch, t, skew) ==
  << Rule("lease-not-yet", e.notBefore - skew <= t),
     Rule("lease-expired", t < e.notAfter + skew),
     Rule("no-ca-authority-at-now", HasAuthority(ch, e.issued)),
     Rule("signer-not-authorized",
          HasAuthority(ch, e.issued) => e.signedBy = CurrentAuthority(ch, e.issued).holder) >>

(* Defect: the window never closes. *)
LeaseRules_NeverExpiring(e, ch, t, skew) ==
  << Rule("lease-not-yet", e.notBefore - skew <= t),
     Rule("no-ca-authority-at-now", HasAuthority(ch, t)),
     Rule("signer-not-authorized",
          HasAuthority(ch, t) => e.signedBy = CurrentAuthority(ch, t).holder) >>

(* Defect: skew narrows the window at its end. *)
LeaseRules_SkewInward(e, ch, t, skew) ==
  << Rule("lease-not-yet", e.notBefore - skew <= t),
     Rule("lease-expired", t < e.notAfter - skew),
     Rule("no-ca-authority-at-now", HasAuthority(ch, t)),
     Rule("signer-not-authorized",
          HasAuthority(ch, t) => e.signedBy = CurrentAuthority(ch, t).holder) >>

(* verifyOne, in its order.  An empty signature list passes the signature    *)
(* loop and fails only because signedBy is not in it.  The track that the    *)
(* lease names is not looked at.                                             *)
LeaseRules(e, ch, t, skew) ==
  << Rule("wrong-envelope", e.defect # "envelope"),
     Rule("lease-window-malformed", e.defect # "dates" /\ e.notBefore < e.notAfter),
     Rule("lease-not-yet", e.notBefore - skew <= t),
     Rule("lease-expired", t < e.notAfter + skew),
     Rule("signature-invalid", e.defect # "signature"),
     Rule("no-ca-authority-at-now", HasAuthority(ch, t)),
     Rule("signer-not-authorized", e.signedBy \in e.signers),
     Rule("signer-not-authorized",
          HasAuthority(ch, t) => e.signedBy = CurrentAuthority(ch, t).holder) >>

(* The positions of the leases that consumer c finds valid. *)
ValidAt(c) == {i \in DOMAIN leases : Passes(LeaseRules(leases[i], chain, Clock(c), Skew))}

AuthorizedCaKeys(c) == {leases[i].key : i \in ValidAt(c)}

(* Defect: the lease that lasts longest is taken for the current one. *)
CurrentLease_LongestLived(c) ==
  CHOOSE i \in ValidAt(c) :
    \A j \in ValidAt(c) : leases[j].notAfter <= leases[i].notAfter

(* The most recently issued valid lease; the first served wins a tie. *)
CurrentLease(c) ==
  CHOOSE i \in ValidAt(c) : \A j \in ValidAt(c) :
    \/ leases[j].issued < leases[i].issued
    \/ leases[j].issued = leases[i].issued /\ i <= j

-----------------------------------------------------------------------------
Init ==
  /\ chain = EmptyChain(Pin)
  /\ served = 0
  /\ leases = <<>>
  /\ now = Skew

ServeMandate(m) ==
  /\ served < MaxMandates
  /\ chain' = Consume(Pin, chain, m)
  /\ served' = served + 1
  /\ UNCHANGED <<leases, now>>

ServeLease(e) ==
  /\ Len(leases) < MaxLeases
  /\ leases' = Append(leases, e)
  /\ UNCHANGED <<chain, served, now>>

Tick ==
  /\ now < MaxTime
  /\ now' = now + 1
  /\ UNCHANGED <<chain, served, leases>>

Next ==
  \/ Tick
  \/ \E m \in Mandates : ServeMandate(m)
  \/ \E e \in Leases : ServeLease(e)

Spec == Init /\ [][Next]_vars

(* Time passes; nobody is obliged to serve anything. *)
FairSpec == Spec /\ WF_vars(Tick)

-----------------------------------------------------------------------------
(* PROPERTIES *)

(* How far trust can outlive what justified it: when a consumer within the   *)
(* skew trusts a lease, its window is truly open up to twice the skew, and   *)
(* its signer truly held authority at most the skew away from now (D3:       *)
(* authority is judged at NOW, caEndorsement.ts 9-18 and 104-107).           *)
Tolerated(c) == Offset[c] \in -Skew .. Skew
HeldNear(h) ==
  \E t \in now - Skew .. now + Skew :
    HasAuthority(chain, t) /\ CurrentAuthority(chain, t).holder = h
TrustIsBounded ==
  \A c \in Consumer : Tolerated(c) => \A i \in ValidAt(c) :
    /\ leases[i].notBefore - 2 * Skew <= now
    /\ now < leases[i].notAfter + 2 * Skew
    /\ HeldNear(leases[i].signedBy)

(* A consumer whose clock is off by no more than the skew accepts a lease    *)
(* while its window is truly open, if it sees the authority that truly holds. *)
SkewTolerated ==
  \A c \in Consumer : \A i \in DOMAIN leases :
    /\ Tolerated(c)
    /\ HasAuthority(chain, now) /\ HasAuthority(chain, Clock(c))
    /\ CurrentAuthority(chain, now).holder = CurrentAuthority(chain, Clock(c)).holder
    /\ Passes(LeaseRules(leases[i], chain, now, 0))
    => i \in ValidAt(c)

(* A key whose leases have all run out stays dead until a new lease for it   *)
(* is served, whatever happens to mandates and clocks.                       *)
AllLapsed(c, k) ==
  \A i \in DOMAIN leases : leases[i].key = k => leases[i].notAfter + Skew <= Clock(c)
DeadKeysStayDead ==
  [][\A c \in Consumer : \A k \in Key :
       AllLapsed(c, k) /\ leases' = leases => k \notin AuthorizedCaKeys(c)']_vars

(* The current key steps back to a lease issued earlier only because the     *)
(* later one lapsed or lost its authority; it never flips while both hold    *)
(* (currentCaPubkey is the most recently issued, caEndorsement.ts 150-155).  *)
CurrentStepsBackOnlyOnLapse ==
  [][\A c \in Consumer :
       /\ ValidAt(c) # {} /\ ValidAt(c)' # {}
       /\ leases'[CurrentLease(c)'].issued < leases[CurrentLease(c)].issued
       => CurrentLease(c) \notin ValidAt(c)']_vars

(* If no further lease is issued, every hot key is eventually dead for every *)
(* consumer: withholding is revocation (caEndorsement.ts 16-18).             *)
WithholdingKills == <>[](\A c \in Consumer : AuthorizedCaKeys(c) = {})
=============================================================================
