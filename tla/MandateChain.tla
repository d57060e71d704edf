---------------------------- MODULE MandateChain ----------------------------
(***************************************************************************)
(* Consumers that baked different pins follow one published mandate log.   *)
(* The host may publish any envelope next, in any order; every consumer    *)
(* verifies what is served (verifyMandateChainFromPin is a left fold, so   *)
(* reading one more mandate extends the previous verdict) and asks who has *)
(* authority at its own clock.                                             *)
(***************************************************************************)
EXTENDS Verifier

CONSTANTS
  Consumer,     \* builds of the software, each with its pin
  PinOf,        \* the pin baked into each build, or NoPin
  Envelopes,    \* what the host may serve
  MaxLog,       \* bound on the length of the log
  MaxTime       \* bound on the clock

ASSUME ChainAssumption ==
  /\ PinOf \in [Consumer -> Mandate \cup {NoPin}]
  /\ NoPin \notin Mandate
  /\ Envelopes \subseteq Mandate
  /\ MaxLog \in Nat
  /\ MaxTime \in Nat

VARIABLES
  log,      \* the mandates served so far
  chain,    \* what each consumer makes of them
  now       \* the clock

vars == <<log, chain, now>>

TypeOK ==
  /\ log \in Seq(Envelopes)
  /\ chain \in [Consumer -> VerifiedChain]
  /\ now \in Nat

Init ==
  /\ log = <<>>
  /\ chain = [c \in Consumer |-> EmptyChain(PinOf[c])]
  /\ now = 0

Publish(m) ==
  /\ Len(log) < MaxLog
  /\ log' = Append(log, m)
  /\ chain' = [c \in Consumer |-> Consume(PinOf[c], chain[c], m)]
  /\ UNCHANGED now

Tick ==
  /\ now < MaxTime
  /\ now' = now + 1
  /\ UNCHANGED <<log, chain>>

Next == Tick \/ \E m \in Envelopes : Publish(m)

Spec == Init /\ [][Next]_vars

-----------------------------------------------------------------------------
(* PROPERTIES *)

(* The quorum, floor and ceiling that a predecessor signed are met by m. *)
Succeeds(pred, m) ==
  /\ m.signedBy \in m.signers
  /\ m.signers \subseteq ToSet(pred.successors)
  /\ 1 <= pred.threshold /\ pred.threshold <= Cardinality(m.signers)
  /\ Len(m.successors) >= pred.minSuccessors
  /\ m.expires <= m.issued + pred.maxDuration

(* A consumer's chain starts at its pin, each later mandate was approved by  *)
(* the mandate accepted just before it, and across the whole chain ids are   *)
(* distinct, the track is one and issue times never go back                  *)
(* (verifier.ts, L1-L3: anchoring, the walk and the duplicate test together). *)
SoundFrom(pin, a) ==
  /\ a # <<>> => PinHash(a[1]) = pin
  /\ \A k \in DOMAIN a : k > 1 => Succeeds(a[k - 1], a[k])
  /\ \A j, k \in DOMAIN a : j < k =>
       /\ a[j].id # a[k].id
       /\ a[j].track = a[k].track
       /\ a[j].issued <= a[k].issued
ChainSound == \A c \in Consumer : SoundFrom(PinOf[c], chain[c].accepted)

(* A bad envelope cannot poison the rest of the log: whatever a consumer did *)
(* not accept, and that does not claim to be its pin, might as well not have *)
(* been served (spec v1.md 4.2, the `continue` branches of the walk).        *)
NothingPoisons ==
  \A c \in Consumer : \A i \in DOMAIN log :
    \/ log[i] \in ToSet(chain[c].accepted)
    \/ HasHash(log[i]) /\ PinHash(log[i]) = PinOf[c]
    \/ VerifyMandateChainFromPin(PinOf[c], RemoveAt(log, i)).accepted
         = chain[c].accepted

(* Two builds never disagree about the part of history both can see: if the  *)
(* mandate one build pins was accepted by another build, the first holds     *)
(* exactly the rest of the other's chain ("multiple pins coexist forever").  *)
(* It takes ids that nobody used twice, which is how the tools make them:    *)
(* each build tests for duplicates from its own root on only.                *)
SuffixFrom(s, k) == SubSeq(s, k, Len(s))
FreshIds == \A i, j \in DOMAIN log : i # j => log[i].id # log[j].id
PinsAgree ==
  FreshIds => \A c, d \in Consumer :
    \A k \in DOMAIN chain[c].accepted :
      /\ chain[d].accepted # <<>>
      /\ chain[c].accepted[k] = Head(chain[d].accepted)
      => chain[d].accepted = SuffixFrom(chain[c].accepted, k)

(* Serving more never takes back what a consumer accepted, and a consumer    *)
(* that failed closed on its root, or has no pin, never starts accepting.    *)
NothingRetracted ==
  [][\A c \in Consumer :
       /\ IsPrefix(chain[c].accepted, chain'[c].accepted)
       /\ chain[c].rootError \notin {"none", "pin-not-in-log"}
            => chain'[c] = chain[c]]_vars

(* Authority falls back to an older mandate only because the newer one has   *)
(* expired: a longer-lived predecessor resumes, and never while its          *)
(* successor is still live (currentAuthority scans newest to oldest).        *)
AuthorityFallsBackOnlyOnExpiry ==
  [][\A c \in Consumer :
       /\ HasAuthority(chain[c], now)
       /\ HasAuthority(chain[c], now)'
       /\ AuthorityPosition(chain[c], now)' < AuthorityPosition(chain[c], now)
       => CurrentAuthority(chain[c], now).expires <= now']_vars
=============================================================================
