------------------------------ MODULE Verifier ------------------------------
(***************************************************************************)
(* The forward verifier of packages/protocol/src/verifier.ts: a consumer   *)
(* anchors a mandate log at the mandate whose hash it has baked in (the    *)
(* pin) and walks the log forward; each mandate carries the rule that its  *)
(* successor must satisfy.  Everything here is a pure operator.  Times and *)
(* durations are in one unit; keys, tracks and ids are opaque.             *)
(***************************************************************************)
EXTENDS Rules, FiniteSets, SequencesExt

CONSTANTS
  Key,      \* public keys
  Track,    \* timelines
  Id,       \* mandate ids
  NoPin     \* the empty pin of a build that has none baked in

(* What is wrong with an envelope, if anything: it has not the shape of a   *)
(* Mandate, a timestamp does not parse, its canonical bytes cannot be       *)
(* derived (a malformed key, number or approval rule), or a declared        *)
(* signature does not verify over them.                                     *)
Defect == {"none", "shape", "dates", "bytes", "signature"}

Mandate ==
  [id : Id, track : Track, holder : Key, issued : Nat, expires : Nat,
   successors : Seq(Key), minSuccessors : Nat,
   threshold : Nat, maxDuration : Nat,
   signedBy : Key, signers : SUBSET Key, defect : Defect]

(* The pin commits to the canonical bytes: every field but the signatures. *)
HasHash(m) == m.defect \notin {"shape", "bytes"}
PinHash(m) ==
  [m EXCEPT !.signers = {}, !.defect = IF @ = "signature" THEN "none" ELSE @]

V2RootFailReason ==
  {"no-pin", "pin-not-in-log", "root-shape-invalid", "root-expires-before-issuance",
   "root-signature-invalid", "root-not-self-signed"}

V2FailReason ==
  {"duplicate-mandate-id", "envelope-shape-invalid", "wrong-track",
   "expires-before-issuance", "issued-before-predecessor", "signature-invalid",
   "signed-by-not-in-signatures", "signer-not-in-successor-set",
   "approval-threshold-unmet", "under-min-successors", "over-max-duration"}

-----------------------------------------------------------------------------
(* Signatures: at least one, and every one verifies over the bytes. *)
AllSignaturesValid(m) == m.signers # {} /\ m.defect \notin {"bytes", "signature"}

(* A pinned root is trusted through its hash; it owes only well-formedness. *)
RootRules(m) ==
  << Rule("root-shape-invalid", m.defect # "dates"),
     Rule("root-expires-before-issuance", m.issued < m.expires),
     Rule("root-signature-invalid", AllSignaturesValid(m)),
     Rule("root-not-self-signed", m.signedBy \in m.signers) >>

(* Defect: co-signers that the predecessor never named are let through. *)
ForwardRules_OutsidersTolerated(pred, m) ==
  << Rule("signature-invalid", AllSignaturesValid(m)),
     Rule("signed-by-not-in-signatures", m.signedBy \in m.signers),
     Rule("approval-threshold-unmet",
          Cardinality(m.signers \cap ToSet(pred.successors)) >= pred.threshold) >>

(* The one succession rule, in the order the code tests it. *)
ForwardRules(pred, m) ==
  << Rule("wrong-track", m.track = pred.track),
     Rule("envelope-shape-invalid", m.defect # "dates"),
     Rule("expires-before-issuance", m.issued < m.expires),
     Rule("issued-before-predecessor", pred.issued <= m.issued),
     Rule("signature-invalid", AllSignaturesValid(m)),
     Rule("signed-by-not-in-signatures", m.signedBy \in m.signers),
     Rule("signer-not-in-successor-set", m.signers \subseteq ToSet(pred.successors)),
     Rule("approval-threshold-unmet",
          /\ pred.threshold >= 1
          /\ Cardinality(m.signers \cap ToSet(pred.successors)) >= pred.threshold),
     Rule("under-min-successors", Len(m.successors) >= pred.minSuccessors),
     Rule("over-max-duration", m.expires <= m.issued + pred.maxDuration) >>

-----------------------------------------------------------------------------
(* The accepted mandates, oldest first, the rejections, and why nothing could *)
(* be anchored ("none" once something is).                                    *)
VerifiedChain ==
  [accepted : Seq(Mandate),
   rejections : Seq([mandate : Mandate, reason : V2FailReason]),
   rootError : V2RootFailReason \cup {"none"}]

EmptyChain(pin) ==
  [accepted |-> <<>>, rejections |-> <<>>,
   rootError |-> IF pin = NoPin THEN "no-pin" ELSE "pin-not-in-log"]

(* Defect: the id of a rejected mandate counts as seen. *)
AcceptedIds_OfRejectedToo(c) ==
  {c.accepted[k].id : k \in DOMAIN c.accepted}
    \cup {c.rejections[k].mandate.id : k \in DOMAIN c.rejections}

AcceptedIds(c) == {c.accepted[k].id : k \in DOMAIN c.accepted}

(* Defect: the bare mandate is recorded, its reason lost. *)
Reject_WithoutReason(c, m, reason) == [c EXCEPT !.rejections = Append(@, m)]

Reject(c, m, reason) ==
  [c EXCEPT !.rejections = Append(@, [mandate |-> m, reason |-> reason])]

(* The search for the root looks at m: the FIRST match decides, for good or ill. *)
SeekRoot(pin, c, m) ==
  IF ~(HasHash(m) /\ PinHash(m) = pin) THEN c
  ELSE IF Passes(RootRules(m))
       THEN [c EXCEPT !.accepted = <<m>>, !.rootError = "none"]
       ELSE [c EXCEPT !.rootError = FirstFailure(RootRules(m))]

(* Defect: every mandate is judged by the pinned one, not by its predecessor. *)
WalkForward_JudgedByRoot(c, m) ==
  IF m.defect = "shape" \/ m.track # Head(c.accepted).track THEN c
  ELSE IF Passes(ForwardRules(Head(c.accepted), m))
       THEN [c EXCEPT !.accepted = Append(@, m)]
       ELSE Reject(c, m, FirstFailure(ForwardRules(Head(c.accepted), m)))

(* The forward walk looks at m. *)
WalkForward(c, m) ==
  IF m.defect = "shape" \/ m.track # Head(c.accepted).track THEN c
  ELSE IF m.id \in AcceptedIds(c) THEN Reject(c, m, "duplicate-mandate-id")
  ELSE LET rules == ForwardRules(Last(c.accepted), m)
       IN  IF Passes(rules) THEN [c EXCEPT !.accepted = Append(@, m)]
           ELSE Reject(c, m, FirstFailure(rules))

(* Defect: a broken copy of the pin is passed over in favour of a later one. *)
Consume_FirstGoodMatch(pin, c, m) ==
  IF c.accepted # <<>> THEN WalkForward(c, m)
  ELSE IF c.rootError # "no-pin" THEN SeekRoot(pin, c, m)
  ELSE c

(* One more mandate of the log. *)
Consume(pin, c, m) ==
  IF c.accepted # <<>> THEN WalkForward(c, m)
  ELSE IF c.rootError = "pin-not-in-log" THEN SeekRoot(pin, c, m)
  ELSE c

(* The loop over the log: what is known after its first k mandates. *)
VerifyMandateChainFromPin(pin, log) ==
  LET after[k \in 0 .. Len(log)] ==
        IF k = 0 THEN EmptyChain(pin) ELSE Consume(pin, after[k - 1], log[k])
  IN  after[Len(log)]

-----------------------------------------------------------------------------
(* Defect: the window closes early, as if skew were taken off its end. *)
LiveAt_ClosingEarly(m, now) == m.issued <= now /\ now + 1 < m.expires

(* Defect: a mandate counts before its date. *)
LiveAt_BeforeItsDate(m, now) == now < m.expires

LiveAt(m, now) == m.issued <= now /\ now < m.expires

(* Positions of the accepted mandates that are live; authority is the newest. *)
LivePositions(c, now) == {k \in DOMAIN c.accepted : LiveAt(c.accepted[k], now)}
HasAuthority(c, now) == LivePositions(c, now) # {}
AuthorityPosition(c, now) ==
  CHOOSE k \in LivePositions(c, now) : \A j \in LivePositions(c, now) : j <= k
CurrentAuthority(c, now) == c.accepted[AuthorityPosition(c, now)]

(* sort by issuedAt, stable: the order every reader of a stored log uses. *)
SortedByIssue(log) ==
  LET Before(i, j) ==
        \/ log[i].issued < log[j].issued
        \/ log[i].issued = log[j].issued /\ i < j
      place == [i \in DOMAIN log |-> Cardinality({j \in DOMAIN log : Before(j, i)}) + 1]
  IN  [p \in DOMAIN log |-> log[CHOOSE i \in DOMAIN log : place[i] = p]]

(* The names of a folder are <compact issuedAt>-<id>: one comes before       *)
(* another by its date, and on one date by its random id.                    *)
EarlierName(m, n) == m.issued < n.issued \/ (m.issued = n.issued /\ m.id < n.id)

(* The mandates of a folder in the order of their names.                     *)
InNameOrder(ms) ==
  LET place == [m \in ms |-> Cardinality({n \in ms : EarlierName(n, m)}) + 1]
  IN  [p \in 1 .. Cardinality(ms) |-> CHOOSE m \in ms : place[m] = p]
=============================================================================
