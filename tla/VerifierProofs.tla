--------------------------- MODULE VerifierProofs ---------------------------
(***************************************************************************)
(* Lemmas about the operators of Verifier, for every module that follows a *)
(* verified chain.                                                         *)
(***************************************************************************)
EXTENDS Verifier, WellFoundedInduction, SequenceTheorems, FiniteSetTheorems, TLAPS

-----------------------------------------------------------------------------
(* THE RULES *)

(* A non-empty set of naturals has a least element. *)
LEMMA LeastNat ==
  ASSUME NEW T \in SUBSET Nat, T # {}
  PROVE  \E k \in T : \A j \in T : k <= j
<1> DEFINE L == {ss \in Nat \X Nat : ss[1] < ss[2]}
<1>1. L = OpToRel(<, Nat)
  BY Zenon DEF OpToRel
<1>2. PICK k \in T : \A j \in T : ~ (<<j, k>> \in L)
  BY <1>1, NatLessThanWellFounded, WFMin, Zenon
<1>3. ASSUME NEW j \in T PROVE k <= j
  <2>1. ~ (j < k)
    BY <1>2
  <2> QED
    BY <2>1
<1> QED
  BY <1>3

(* The reason a failing list of rules reports is an entry that is not "ok". *)
LEMMA FirstFailureType ==
  ASSUME NEW Reason, NEW rules \in Seq(Reason \cup {"ok"}), ~Passes(rules)
  PROVE  FirstFailure(rules) \in Reason
<1> DEFINE T == {k \in DOMAIN rules : rules[k] # "ok"}
<1>1. PICK k \in T : \A j \in T : k <= j
  <2>1. T # {} /\ T \in SUBSET Nat
    BY DEF Passes
  <2> QED
    BY <2>1, LeastNat
<1>2. \E i \in DOMAIN rules :
        rules[i] # "ok" /\ \A j \in DOMAIN rules : rules[j] # "ok" => i <= j
  BY <1>1
<1>3. FirstFailure(rules) # "ok" /\ FirstFailure(rules) \in Reason \cup {"ok"}
  BY <1>2 DEF FirstFailure
<1> QED
  BY <1>3

(* The reasons the two rule lists report are the declared ones. *)
LEMMA RulesType ==
  ASSUME NEW pred, NEW m
  PROVE  /\ RootRules(m) \in Seq(V2RootFailReason \cup {"ok"})
         /\ ForwardRules(pred, m) \in Seq(V2FailReason \cup {"ok"})
<1>1. RootRules(m) \in Seq(V2RootFailReason \cup {"ok"})
  BY DEF RootRules, Rule, V2RootFailReason
<1>2. ForwardRules(pred, m) \in Seq(V2FailReason \cup {"ok"})
  BY DEF ForwardRules, Rule, V2FailReason
<1> QED
  BY <1>1, <1>2

(* A mandate that passes the succession rule meets the clauses on which the *)
(* soundness of a chain rests.                                              *)
LEMMA ForwardPasses ==
  ASSUME NEW pred, NEW m, Passes(ForwardRules(pred, m))
  PROVE  /\ m.track = pred.track
         /\ pred.issued <= m.issued
         /\ m.signedBy \in m.signers
         /\ m.signers \subseteq ToSet(pred.successors)
         /\ pred.threshold >= 1
         /\ Cardinality(m.signers \cap ToSet(pred.successors)) >= pred.threshold
         /\ Len(m.successors) >= pred.minSuccessors
         /\ m.expires <= m.issued + pred.maxDuration
<1> DEFINE R == ForwardRules(pred, m)
<1>1. R[1] = "ok" /\ R[4] = "ok" /\ R[6] = "ok" /\ R[7] = "ok" /\ R[8] = "ok"
      /\ R[9] = "ok" /\ R[10] = "ok"
  <2>1. DOMAIN R = 1 .. 10
    BY DEF ForwardRules
  <2> QED
    BY <2>1 DEF Passes
<1>2. m.track = pred.track
  BY <1>1 DEF ForwardRules, Rule
<1>3. pred.issued <= m.issued
  BY <1>1 DEF ForwardRules, Rule
<1>4. m.signedBy \in m.signers
  BY <1>1 DEF ForwardRules, Rule
<1>5. m.signers \subseteq ToSet(pred.successors)
  BY <1>1 DEF ForwardRules, Rule
<1>6. /\ pred.threshold >= 1
      /\ Cardinality(m.signers \cap ToSet(pred.successors)) >= pred.threshold
  BY <1>1 DEF ForwardRules, Rule
<1>7. Len(m.successors) >= pred.minSuccessors
  BY <1>1 DEF ForwardRules, Rule
<1>8. m.expires <= m.issued + pred.maxDuration
  BY <1>1 DEF ForwardRules, Rule
<1> QED
  BY <1>2, <1>3, <1>4, <1>5, <1>6, <1>7, <1>8

-----------------------------------------------------------------------------
(* ONE MORE MANDATE *)

(* Consuming a mandate leaves the accepted chain alone, anchors it, or       *)
(* extends it by a mandate with a fresh id that its last one approved.       *)
LEMMA ConsumeCases ==
  ASSUME NEW pin, NEW c \in VerifiedChain, NEW m \in Mandate
  PROVE  LET d == Consume(pin, c, m) IN
         \/ d.accepted = c.accepted
         \/ /\ c.accepted = <<>> /\ c.rootError = "pin-not-in-log"
            /\ d.accepted = <<m>> /\ HasHash(m) /\ PinHash(m) = pin
         \/ /\ c.accepted # <<>>
            /\ d.accepted = Append(c.accepted, m)
            /\ m.id \notin AcceptedIds(c)
            /\ Passes(ForwardRules(Last(c.accepted), m))
<1>1. CASE c.accepted # <<>>
  BY <1>1 DEF Consume, WalkForward, Reject, VerifiedChain
<1>2. CASE c.accepted = <<>> /\ c.rootError = "pin-not-in-log"
  BY <1>2 DEF Consume, SeekRoot, VerifiedChain
<1>3. CASE c.accepted = <<>> /\ c.rootError # "pin-not-in-log"
  BY <1>3 DEF Consume
<1> QED
  BY <1>1, <1>2, <1>3

LEMMA ConsumeGrows ==
  ASSUME NEW pin, NEW c \in VerifiedChain, NEW m \in Mandate
  PROVE  Consume(pin, c, m).accepted \in {c.accepted, Append(c.accepted, m)}
<1>1. <<m>> = Append(<<>>, m)
  OBVIOUS
<1> QED
  BY <1>1, ConsumeCases

(* What a consumer knows keeps its type. *)
LEMMA ConsumeType ==
  ASSUME NEW pin, NEW c \in VerifiedChain, NEW m \in Mandate
  PROVE  Consume(pin, c, m) \in VerifiedChain
<1> DEFINE Rejection == [mandate : Mandate, reason : V2FailReason]
<1>1. ASSUME NEW reason \in V2FailReason PROVE Reject(c, m, reason) \in VerifiedChain
  <2>1. [mandate |-> m, reason |-> reason] \in Rejection
    OBVIOUS
  <2>2. Append(c.rejections, [mandate |-> m, reason |-> reason]) \in Seq(Rejection)
    BY <2>1 DEF VerifiedChain
  <2> QED
    BY <2>2 DEF Reject, VerifiedChain
<1>2. WalkForward(c, m) \in VerifiedChain
  <2> DEFINE rules == ForwardRules(Last(c.accepted), m)
  <2>1. ~Passes(rules) => FirstFailure(rules) \in V2FailReason
    BY RulesType, FirstFailureType
  <2>2. [c EXCEPT !.accepted = Append(@, m)] \in VerifiedChain
    BY DEF VerifiedChain
  <2>3. Reject(c, m, "duplicate-mandate-id") \in VerifiedChain
    BY <1>1 DEF V2FailReason
  <2>4. ~Passes(rules) => Reject(c, m, FirstFailure(rules)) \in VerifiedChain
    BY <1>1, <2>1
  <2> HIDE DEF rules
  <2> QED
    BY <2>2, <2>3, <2>4 DEF WalkForward, rules
<1>3. SeekRoot(pin, c, m) \in VerifiedChain
  <2> DEFINE rules == RootRules(m)
  <2>1. ~Passes(rules) => FirstFailure(rules) \in V2RootFailReason
    BY RulesType, FirstFailureType
  <2>2. [c EXCEPT !.accepted = <<m>>, !.rootError = "none"] \in VerifiedChain
    <3>1. <<m>> \in Seq(Mandate)
      OBVIOUS
    <3> QED
      BY <3>1 DEF VerifiedChain
  <2>3. ~Passes(rules) => [c EXCEPT !.rootError = FirstFailure(rules)] \in VerifiedChain
    BY <2>1 DEF VerifiedChain
  <2> HIDE DEF rules
  <2> QED
    BY <2>2, <2>3 DEF SeekRoot, rules
<1> QED
  BY <1>2, <1>3 DEF Consume

-----------------------------------------------------------------------------
(* THE LOOP *)

(* What holds at the start, and one step on whenever it holds, holds to the end. *)
LEMMA StepByStep ==
  ASSUME NEW n \in Nat, NEW T, 0 \in T, \A k \in 0 .. n : k \in T /\ k < n => k + 1 \in T
  PROVE  0 .. n \subseteq T
<1> DEFINE U == {k \in 0 .. n : k \notin T}
<1>1. SUFFICES ASSUME U # {} PROVE FALSE
  OBVIOUS
<1>2. PICK k \in U : \A j \in U : k <= j
  <2>1. U \in SUBSET Nat
    OBVIOUS
  <2> HIDE DEF U
  <2> QED
    BY <1>1, <2>1, LeastNat
<1>3. k # 0 /\ k - 1 \in 0 .. n /\ k - 1 \notin U
  BY <1>2
<1>4. k - 1 \in T /\ k - 1 < n /\ (k - 1) + 1 = k
  BY <1>3
<1> QED
  BY <1>2, <1>3, <1>4

(* A loop over n steps computes something, and only one thing: if step turns  *)
(* a state and a position into a state, there is one sequence of states.      *)
IsWalk(w, base, step, n) ==
  w = [k \in 0 .. n |-> IF k = 0 THEN base ELSE step[<<w[k - 1], k>>]]

LEMMA WalkExists ==
  ASSUME NEW S, NEW base \in S, NEW n \in Nat, NEW step \in [S \X (1 .. n) -> S]
  PROVE  \E w \in [0 .. n -> S] : IsWalk(w, base, step, n)
<1> DEFINE T == {l \in 0 .. n : \E w \in [0 .. l -> S] : IsWalk(w, base, step, l)}
<1>1. 0 \in T
  <2> DEFINE w == [k \in 0 .. 0 |-> base]
  <2>1. w \in [0 .. 0 -> S] /\ IsWalk(w, base, step, 0)
    BY DEF IsWalk
  <2> QED
    BY <2>1
<1>2. ASSUME NEW l \in 0 .. n, l \in T, l < n PROVE l + 1 \in T
  <2>1. PICK v \in [0 .. l -> S] : IsWalk(v, base, step, l)
    BY <1>2
  <2> DEFINE w == [k \in 0 .. l + 1 |-> IF k <= l THEN v[k] ELSE step[<<v[l], l + 1>>]]
  <2>2. l + 1 \in 1 .. n
    BY <1>2
  <2>3. w \in [0 .. l + 1 -> S]
    <3>1. v[l] \in S /\ step[<<v[l], l + 1>>] \in S
      BY <2>2
    <3> QED
      BY <3>1
  <2>4. ASSUME NEW k \in 0 .. l + 1
        PROVE  w[k] = IF k = 0 THEN base ELSE step[<<w[k - 1], k>>]
    <3>1. CASE k = 0
      BY <2>1, <3>1 DEF IsWalk
    <3>2. CASE k # 0 /\ k <= l
      <4>1. w[k] = v[k] /\ w[k - 1] = v[k - 1]
        BY <3>2
      <4>2. v[k] = step[<<v[k - 1], k>>]
        BY <2>1, <3>2 DEF IsWalk
      <4> QED
        BY <3>2, <4>1, <4>2
    <3>3. CASE k = l + 1
      <4>1. w[k] = step[<<v[l], l + 1>>] /\ w[k - 1] = v[l] /\ k # 0
        BY <3>3
      <4> QED
        BY <3>3, <4>1
    <3> QED
      BY <3>1, <3>2, <3>3
  <2>5. IsWalk(w, base, step, l + 1)
    <3>1. w = [k \in 0 .. l + 1 |-> w[k]]
      OBVIOUS
    <3> HIDE DEF w
    <3> QED
      BY <2>4, <3>1 DEF IsWalk
  <2> QED
    BY <2>2, <2>3, <2>5
<1> HIDE DEF T
<1>3. 0 .. n \subseteq T
  BY <1>1, <1>2, StepByStep
<1> QED
  BY <1>3 DEF T

(* A sequence without one of its elements. *)
LEMMA RemoveFromAppend ==
  ASSUME NEW S, NEW s \in Seq(S), NEW x \in S
  PROVE  /\ RemoveAt(Append(s, x), Len(s) + 1) = s
         /\ \A i \in DOMAIN s : /\ RemoveAt(s, i) \in Seq(S)
                                /\ RemoveAt(Append(s, x), i) = Append(RemoveAt(s, i), x)
<1> DEFINE n == Len(s)
           t == Append(s, x)
<1>1. RemoveAt(t, n + 1) = s
  BY DEF RemoveAt
<1>2. ASSUME NEW i \in 1 .. n
      PROVE  RemoveAt(s, i) \in Seq(S) /\ RemoveAt(t, i) = Append(RemoveAt(s, i), x)
  <2> DEFINE p == SubSeq(s, 1, i - 1)
             q == SubSeq(s, i + 1, n)
  <2>1. n \in Nat /\ i \in Nat /\ 1 <= i /\ i <= n
    OBVIOUS
  <2>2. /\ p \in Seq(S) /\ Len(p) = i - 1
        /\ q \in Seq(S) /\ Len(q) = n - i
        /\ \A k \in 1 .. n - i : q[k] = s[i + k]
    BY <2>1
  <2>3. t \in Seq(S) /\ Len(t) = n + 1 /\ t[n + 1] = x /\ \A k \in 1 .. n : t[k] = s[k]
    BY <2>1
  <2>4. SubSeq(t, 1, i - 1) = p
    BY <2>1, <2>3
  <2>5. SubSeq(t, i + 1, n + 1) = Append(q, x)
    <3> DEFINE u == SubSeq(t, i + 1, n + 1)
    <3>1. u \in Seq(S) /\ Len(u) = n - i + 1 /\ \A k \in 1 .. n - i + 1 : u[k] = t[i + k]
      BY <2>1, <2>3
    <3>2. /\ Append(q, x) \in Seq(S) /\ Len(Append(q, x)) = Len(q) + 1
          /\ Append(q, x)[Len(q) + 1] = x
          /\ \A k \in 1 .. Len(q) : Append(q, x)[k] = q[k]
      <4> HIDE DEF n, t, p, q, u
      <4>1. q \in Seq(S)
        BY <2>2
      <4> QED
        BY <4>1, AppendProperties
    <3> DEFINE v == Append(q, x)
    <3> HIDE DEF u, v, t, p, q, n
    <3>3. ASSUME NEW k \in 1 .. n - i + 1 PROVE u[k] = v[k]
      <4>1. CASE k \in 1 .. n - i
        <5>1. i + k \in 1 .. n
          BY <2>1, <4>1
        <5>2. v[k] = q[k]
          BY <2>2, <3>2, <4>1 DEF v
        <5> QED
          BY <2>2, <2>3, <3>1, <4>1, <5>1, <5>2
      <4>2. CASE k = n - i + 1
        <5>1. i + k = n + 1
          BY <2>1, <4>2
        <5>2. v[k] = x
          BY <2>2, <3>2, <4>2 DEF v
        <5> QED
          BY <2>3, <3>1, <4>2, <5>1, <5>2
      <4> QED
        BY <2>1, <4>1, <4>2
    <3>4. u = v
      <4>1. v \in Seq(S) /\ Len(v) = n - i + 1
        BY <2>2, <3>2 DEF v
      <4> QED
        BY <2>1, <3>1, <3>3, <4>1
    <3> QED
      BY <3>4 DEF u, v
  <2>6. Len(t) = n + 1
    BY <2>3
  <2> HIDE DEF p, q, t, n
  <2>7. p \o Append(q, x) = Append(p \o q, x)
    BY <2>2
  <2>8. RemoveAt(s, i) = p \o q /\ RemoveAt(t, i) = p \o Append(q, x)
    BY <2>4, <2>5, <2>6 DEF RemoveAt, p, q, n
  <2> QED
    BY <2>2, <2>7, <2>8
<1> HIDE DEF t
<1> QED
  BY <1>1, <1>2 DEF t

(* The loop of verifyMandateChainFromPin, step by step. *)
LEMMA VerifyWalks ==
  ASSUME NEW pin, NEW log \in Seq(Mandate)
  PROVE  \E w \in [0 .. Len(log) -> VerifiedChain] :
           /\ w[0] = EmptyChain(pin)
           /\ \A k \in 1 .. Len(log) : w[k] = Consume(pin, w[k - 1], log[k])
           /\ VerifyMandateChainFromPin(pin, log) = w[Len(log)]
<1> DEFINE n == Len(log)
           step == [x \in VerifiedChain \X (1 .. n) |-> Consume(pin, x[1], log[x[2]])]
           Loop(w) == w = [k \in 0 .. n |-> IF k = 0 THEN EmptyChain(pin)
                                            ELSE Consume(pin, w[k - 1], log[k])]
<1>1. n \in Nat /\ \A k \in 1 .. n : log[k] \in Mandate
  OBVIOUS
<1>2. step \in [VerifiedChain \X (1 .. n) -> VerifiedChain]
  BY <1>1, ConsumeType
<1>3. EmptyChain(pin) \in VerifiedChain
  BY DEF EmptyChain, VerifiedChain, V2RootFailReason
<1>4. PICK v \in [0 .. n -> VerifiedChain] : IsWalk(v, EmptyChain(pin), step, n)
  <2> HIDE DEF step, n
  <2> QED
    BY <1>1, <1>2, <1>3, WalkExists
<1>5. Loop(v)
  <2>1. ASSUME NEW k \in 0 .. n, k # 0
        PROVE  step[<<v[k - 1], k>>] = Consume(pin, v[k - 1], log[k])
    <3>1. k \in 1 .. n /\ v[k - 1] \in VerifiedChain
      BY <1>1, <2>1
    <3> QED
      BY <3>1
  <2> HIDE DEF step
  <2> QED
    BY <1>4, <2>1 DEF IsWalk
<1> DEFINE w == CHOOSE u : Loop(u)
<1>6. Loop(w)
  BY <1>5
<1>7. VerifyMandateChainFromPin(pin, log) = w[n]
  BY DEF VerifyMandateChainFromPin
<1> HIDE DEF w
<1>8. w \in [0 .. n -> VerifiedChain]
  <2> DEFINE T == {k \in 0 .. n : w[k] \in VerifiedChain}
  <2>1. 0 \in T
    BY <1>1, <1>3, <1>6
  <2>2. ASSUME NEW k \in 0 .. n, k \in T, k < n PROVE k + 1 \in T
    <3>1. k + 1 \in 0 .. n /\ k + 1 # 0 /\ (k + 1) - 1 = k /\ log[k + 1] \in Mandate
      BY <1>1, <2>2
    <3>2. w[k + 1] = Consume(pin, w[k], log[k + 1])
      BY <1>6, <3>1
    <3> QED
      BY <2>2, <3>1, <3>2, ConsumeType
  <2> HIDE DEF T
  <2>3. 0 .. n \subseteq T
    BY <1>1, <2>1, <2>2, StepByStep
  <2>4. w = [k \in 0 .. n |-> w[k]]
    BY <1>6
  <2> HIDE DEF Loop
  <2> QED
    BY <2>3, <2>4 DEF T
<1>9. w[0] = EmptyChain(pin) /\ \A k \in 1 .. n : w[k] = Consume(pin, w[k - 1], log[k])
  BY <1>1, <1>6
<1> QED
  BY <1>7, <1>8, <1>9

LEMMA VerifyType ==
  ASSUME NEW pin, NEW log \in Seq(Mandate)
  PROVE  VerifyMandateChainFromPin(pin, log) \in VerifiedChain
<1>1. PICK w \in [0 .. Len(log) -> VerifiedChain] :
        VerifyMandateChainFromPin(pin, log) = w[Len(log)]
  BY VerifyWalks
<1>2. Len(log) \in 0 .. Len(log)
  OBVIOUS
<1> QED
  BY <1>1, <1>2

(* One more mandate at the end of a log is one more turn of the loop. *)
LEMMA VerifyAppend ==
  ASSUME NEW pin, NEW log \in Seq(Mandate), NEW m \in Mandate
  PROVE  /\ VerifyMandateChainFromPin(pin, log) \in VerifiedChain
         /\ VerifyMandateChainFromPin(pin, Append(log, m))
              = Consume(pin, VerifyMandateChainFromPin(pin, log), m)
<1> DEFINE n == Len(log)
           more == Append(log, m)
<1>1. PICK v \in [0 .. n -> VerifiedChain] :
        /\ v[0] = EmptyChain(pin)
        /\ \A k \in 1 .. n : v[k] = Consume(pin, v[k - 1], log[k])
        /\ VerifyMandateChainFromPin(pin, log) = v[n]
  BY VerifyWalks
<1>2. /\ n \in Nat /\ more \in Seq(Mandate) /\ Len(more) = n + 1 /\ more[n + 1] = m
      /\ \A k \in 1 .. n : more[k] = log[k]
  OBVIOUS
<1>3. PICK w \in [0 .. n + 1 -> VerifiedChain] :
        /\ w[0] = EmptyChain(pin)
        /\ \A k \in 1 .. n + 1 : w[k] = Consume(pin, w[k - 1], more[k])
        /\ VerifyMandateChainFromPin(pin, more) = w[n + 1]
  <2> HIDE DEF more, n
  <2> QED
    BY <1>2, VerifyWalks
<1> DEFINE T == {k \in 0 .. n : v[k] = w[k]}
<1>4. 0 \in T
  BY <1>1, <1>2, <1>3
<1>5. ASSUME NEW k \in 0 .. n, k \in T, k < n PROVE k + 1 \in T
  <2>1. k + 1 \in 1 .. n /\ k + 1 \in 1 .. n + 1 /\ (k + 1) - 1 = k
    BY <1>2, <1>5
  <2>2. v[k + 1] = Consume(pin, v[k], log[k + 1]) /\ w[k + 1] = Consume(pin, w[k], more[k + 1])
    BY <1>1, <1>3, <2>1
  <2>3. more[k + 1] = log[k + 1]
    BY <1>2, <2>1
  <2> QED
    BY <1>5, <2>1, <2>2, <2>3
<1> HIDE DEF T
<1>6. v[n] = w[n]
  <2>1. 0 .. n \subseteq T
    BY <1>2, <1>4, <1>5, StepByStep
  <2> QED
    BY <1>2, <2>1 DEF T
<1>7. w[n + 1] = Consume(pin, w[n], m)
  <2>1. n + 1 \in 1 .. n + 1 /\ (n + 1) - 1 = n
    BY <1>2
  <2> QED
    BY <1>2, <1>3, <2>1
<1> QED
  BY <1>1, <1>2, <1>3, <1>6, <1>7

(* A log without entries. *)
LEMMA VerifyEmpty ==
  ASSUME NEW pin
  PROVE  VerifyMandateChainFromPin(pin, <<>>) = EmptyChain(pin)
<1>1. <<>> \in Seq(Mandate) /\ Len(<<>>) = 0
  OBVIOUS
<1> QED
  BY <1>1, VerifyWalks

(* The chain of a log's first part is the first part of its chain. *)
IsStart(s, t) ==
  /\ s \in Seq(Mandate) /\ t \in Seq(Mandate) /\ Len(s) <= Len(t)
  /\ \A k \in DOMAIN s : s[k] = t[k]

LEMMA StartIsTransitive ==
  ASSUME NEW s, NEW t, NEW u, IsStart(s, t), IsStart(t, u)
  PROVE  IsStart(s, u)
BY DEF IsStart

LEMMA StartIsAPrefix ==
  ASSUME NEW s, NEW t, IsStart(s, t) PROVE IsPrefix(s, t)
<1> DEFINE n == Len(s)
<1>1. /\ n \in Nat /\ n <= Len(t) /\ s \in Seq(Mandate) /\ t \in Seq(Mandate)
      /\ \A k \in 1 .. n : s[k] = t[k]
  BY DEF IsStart
<1> HIDE DEF Mandate
<1>2. SubSeq(s, 1, n) = [k \in 1 .. n |-> s[k]] /\ SubSeq(t, 1, n) = [k \in 1 .. n |-> t[k]]
  BY <1>1
<1> QED
  BY <1>1, <1>2 DEF IsPrefix

LEMMA StartOfMore ==
  ASSUME NEW s \in Seq(Mandate), NEW m \in Mandate, NEW t \in {s, Append(s, m)}
  PROVE  IsStart(s, t)
<1>1. CASE t = s
  BY <1>1 DEF IsStart
<1>2. CASE t = Append(s, m)
  <2>1. t \in Seq(Mandate) /\ Len(t) = Len(s) + 1 /\ \A k \in 1 .. Len(s) : t[k] = s[k]
    BY <1>2
  <2> QED
    BY <2>1 DEF IsStart
<1> QED
  BY <1>1, <1>2

LEMMA ChainOfStart ==
  ASSUME NEW pin, NEW s, NEW t, IsStart(s, t)
  PROVE  IsStart(VerifyMandateChainFromPin(pin, s).accepted,
                 VerifyMandateChainFromPin(pin, t).accepted)
<1> DEFINE n == Len(s)
           o == Len(t)
<1>1. /\ n \in Nat /\ o \in Nat /\ n <= o /\ s \in Seq(Mandate) /\ t \in Seq(Mandate)
      /\ \A k \in 1 .. n : s[k] = t[k]
      /\ \A k \in 1 .. o : t[k] \in Mandate
  BY DEF IsStart
<1>2. PICK v \in [0 .. n -> VerifiedChain] :
        /\ v[0] = EmptyChain(pin)
        /\ \A k \in 1 .. n : v[k] = Consume(pin, v[k - 1], s[k])
        /\ VerifyMandateChainFromPin(pin, s) = v[n]
  BY <1>1, VerifyWalks
<1>3. PICK w \in [0 .. o -> VerifiedChain] :
        /\ w[0] = EmptyChain(pin)
        /\ \A k \in 1 .. o : w[k] = Consume(pin, w[k - 1], t[k])
        /\ VerifyMandateChainFromPin(pin, t) = w[o]
  BY <1>1, VerifyWalks
<1> DEFINE T == {k \in 0 .. o : IF k <= n THEN v[k] = w[k]
                                ELSE IsStart(v[n].accepted, w[k].accepted)}
<1>4. ASSUME NEW c \in VerifiedChain PROVE IsStart(c.accepted, c.accepted)
  BY DEF IsStart, VerifiedChain
<1>5. 0 \in T
  BY <1>1, <1>2, <1>3
<1>6. ASSUME NEW k \in 0 .. o, k \in T, k < o PROVE k + 1 \in T
  <2>1. /\ k + 1 \in 1 .. o /\ k + 1 \in 0 .. o /\ (k + 1) - 1 = k
        /\ w[k] \in VerifiedChain /\ t[k + 1] \in Mandate
        /\ w[k + 1] = Consume(pin, w[k], t[k + 1])
    BY <1>1, <1>3, <1>6
  <2>2. CASE k < n
    <3>1. k + 1 \in 1 .. n /\ k + 1 <= n /\ v[k] = w[k]
      BY <1>1, <1>6, <2>2
    <3>2. v[k + 1] = Consume(pin, v[k], s[k + 1]) /\ s[k + 1] = t[k + 1]
      BY <1>1, <1>2, <2>1, <3>1
    <3> QED
      BY <2>1, <3>1, <3>2
  <2>3. CASE ~(k < n)
    <3>1. IsStart(v[n].accepted, w[k].accepted)
      <4>1. CASE k = n
        <5>1. v[n] = w[n] /\ v[n] \in VerifiedChain
          BY <1>1, <1>2, <1>6, <4>1
        <5> QED
          BY <1>4, <4>1, <5>1
      <4>2. CASE k # n
        BY <1>1, <1>6, <2>3, <4>2
      <4> QED
        BY <4>1, <4>2
    <3> HIDE DEF n, o
    <3>2. IsStart(w[k].accepted, w[k + 1].accepted)
      <4>1. w[k + 1].accepted \in {w[k].accepted, Append(w[k].accepted, t[k + 1])}
        BY <2>1, ConsumeGrows
      <4>2. w[k].accepted \in Seq(Mandate)
        BY <2>1 DEF VerifiedChain
      <4> QED
        BY <2>1, <4>1, <4>2, StartOfMore
    <3>3. IsStart(v[n].accepted, w[k + 1].accepted)
      BY <3>1, <3>2, StartIsTransitive
    <3>4. ~(k + 1 <= n)
      BY <1>1, <2>3
    <3> QED
      BY <2>1, <3>3, <3>4
  <2> QED
    BY <2>2, <2>3
<1> HIDE DEF T, n, o
<1>7. o \in T
  <2>1. 0 .. o \subseteq T
    BY <1>1, <1>5, <1>6, StepByStep
  <2> QED
    BY <1>1, <2>1
<1>8. IsStart(v[n].accepted, w[o].accepted)
  <2>1. CASE o = n
    BY <1>1, <1>2, <1>4, <1>7, <2>1 DEF T
  <2>2. CASE o # n
    BY <1>1, <1>7, <2>2 DEF T
  <2> QED
    BY <2>1, <2>2
<1> QED
  BY <1>2, <1>3, <1>8 DEF n, o

-----------------------------------------------------------------------------
(* SORTING BY DATE *)

(* In a finite total order, one plus the number of smaller elements is a      *)
(* place that no other element has, and every place is taken.                 *)
IsOrder(S, R) ==
  /\ \A i \in S : <<i, i>> \notin R
  /\ \A i, j, k \in S : <<i, j>> \in R /\ <<j, k>> \in R => <<i, k>> \in R
  /\ \A i, j \in S : i = j \/ <<i, j>> \in R \/ <<j, i>> \in R

IsRanking(rank, S, R) ==
  /\ rank \in [S -> 1 .. Cardinality(S)]
  /\ \A i, j \in S : <<i, j>> \in R => rank[i] < rank[j]
  /\ \A i, j \in S : rank[i] = rank[j] => i = j
  /\ \A p \in 1 .. Cardinality(S) : \E i \in S : rank[i] = p

RankOf(S, R) == [i \in S |-> Cardinality({j \in S : <<j, i>> \in R}) + 1]

LEMMA RankOnto ==
  ASSUME NEW S, NEW R, IsFiniteSet(S), IsOrder(S, R)
  PROVE  IsRanking(RankOf(S, R), S, R)
<1> DEFINE n == Cardinality(S)
           rank == RankOf(S, R)
<1> DEFINE Below(i) == {j \in S : <<j, i>> \in R}
<1>1. n \in Nat
  BY FS_CardinalityType
<1>2. ASSUME NEW i \in S
      PROVE  IsFiniteSet(Below(i)) /\ Cardinality(Below(i)) \in Nat /\ Cardinality(Below(i)) < n
  <2>1. Below(i) \in SUBSET S /\ Below(i) # S
    BY DEF IsOrder
  <2> HIDE DEF Below
  <2>2. IsFiniteSet(Below(i)) /\ Cardinality(Below(i)) <= n /\ Cardinality(Below(i)) # n
    BY <1>1, <2>1, FS_Subset
  <2> QED
    BY <2>2, FS_CardinalityType
<1>3. ASSUME NEW i \in S, NEW j \in S, <<i, j>> \in R
      PROVE  Cardinality(Below(i)) < Cardinality(Below(j))
  <2>1. Below(i) \in SUBSET Below(j) /\ i \in Below(j) /\ i \notin Below(i)
    BY <1>3 DEF IsOrder
  <2> HIDE DEF Below
  <2>2. /\ Cardinality(Below(i)) <= Cardinality(Below(j))
        /\ Cardinality(Below(i)) # Cardinality(Below(j))
    BY <1>2, <2>1, FS_Subset
  <2> QED
    BY <1>2, <2>2
<1> DEFINE below == [i \in S |-> Cardinality(Below(i))]
<1>4. /\ rank = [i \in S |-> below[i] + 1]
      /\ \A i \in S : below[i] \in Nat /\ below[i] < n
      /\ \A i, j \in S : <<i, j>> \in R => below[i] < below[j]
  BY <1>2, <1>3 DEF RankOf
<1> HIDE DEF Below, below, rank
<1>5. rank \in [S -> 1 .. n] /\ \A i \in S : rank[i] = below[i] + 1
  <2>1. \A i \in S : below[i] + 1 \in 1 .. n
    BY <1>1, <1>4
  <2> QED
    BY <1>4, <2>1
<1>6. \A i, j \in S : <<i, j>> \in R => rank[i] < rank[j]
  <2> SUFFICES ASSUME NEW i \in S, NEW j \in S, <<i, j>> \in R
               PROVE  rank[i] < rank[j]
    OBVIOUS
  <2>1. below[i] \in Nat /\ below[j] \in Nat /\ below[i] < below[j]
    BY <1>4
  <2>2. rank[i] = below[i] + 1 /\ rank[j] = below[j] + 1
    BY <1>5
  <2> QED
    BY <2>1, <2>2
<1>7. \A i, j \in S : rank[i] = rank[j] => i = j
  <2> SUFFICES ASSUME NEW i \in S, NEW j \in S, rank[i] = rank[j], i # j
               PROVE  FALSE
    OBVIOUS
  <2>1. rank[i] < rank[j] \/ rank[j] < rank[i]
    BY <1>6 DEF IsOrder
  <2>2. rank[i] \in Nat /\ rank[j] \in Nat
    BY <1>5
  <2> QED
    BY <2>1, <2>2
<1>8. rank \in Surjection(S, 1 .. n)
  <2>1. rank \in Injection(S, 1 .. n)
    BY <1>5, <1>7 DEF Injection, IsInjective
  <2>2. IsFiniteSet(1 .. n) /\ Cardinality(1 .. n) = n
    BY <1>1, FS_Interval
  <2> QED
    BY <2>1, <2>2, FS_Injection DEF n
<1>9. \A p \in 1 .. n : \E i \in S : rank[i] = p
  BY <1>8 DEF Surjection
<1> QED
  BY <1>5, <1>6, <1>7, <1>9 DEF rank, n, IsRanking

LEMMA Numbers ==
  ASSUME NEW n \in Nat
  PROVE  IsFiniteSet(1 .. n) /\ Cardinality(1 .. n) = n
BY FS_Interval

(* The order of SortedByIssue: by date, and by position on equal dates. *)
Earlier(log, i, j) ==
  \/ log[i].issued < log[j].issued
  \/ log[i].issued = log[j].issued /\ i < j

PlaceOf(log) ==
  [i \in 1 .. Len(log) |-> Cardinality({j \in 1 .. Len(log) : Earlier(log, j, i)}) + 1]

(* A sorted log holds the same mandates, each at the place its date gives it. *)
LEMMA SortedPlaces ==
  ASSUME NEW log \in Seq(Mandate)
  PROVE  /\ SortedByIssue(log) \in Seq(Mandate)
         /\ Len(SortedByIssue(log)) = Len(log)
         /\ PlaceOf(log) \in [1 .. Len(log) -> 1 .. Len(log)]
         /\ \A i, j \in 1 .. Len(log) : Earlier(log, i, j) => PlaceOf(log)[i] < PlaceOf(log)[j]
         /\ \A p \in 1 .. Len(log) : \E i \in 1 .. Len(log) : PlaceOf(log)[i] = p
         /\ \A i \in 1 .. Len(log) : SortedByIssue(log)[PlaceOf(log)[i]] = log[i]
<1> DEFINE n == Len(log)
           place == PlaceOf(log)
           R == {x \in (1 .. n) \X (1 .. n) : Earlier(log, x[1], x[2])}
<1>1. n \in Nat /\ DOMAIN log = 1 .. n
  OBVIOUS
<1>2. \A i \in 1 .. n : log[i] \in Mandate /\ log[i].issued \in Nat
  <2>1. \A m \in Mandate : m.issued \in Nat
    BY DEF Mandate
  <2> QED
    BY <2>1
<1>3. \A i, j \in 1 .. n : <<i, j>> \in R <=> Earlier(log, i, j)
  OBVIOUS
<1> HIDE DEF R
<1>4. place = RankOf(1 .. n, R)
  <2>1. \A i \in 1 .. n : {j \in 1 .. n : <<j, i>> \in R} = {j \in 1 .. n : Earlier(log, j, i)}
    BY <1>3
  <2> QED
    BY <2>1 DEF PlaceOf, RankOf
<1> HIDE DEF place, n
<1>5. \A i \in 1 .. n : <<i, i>> \notin R
  BY <1>1, <1>2, <1>3 DEF Earlier
<1>6. \A i, j, k \in 1 .. n : <<i, j>> \in R /\ <<j, k>> \in R => <<i, k>> \in R
  <2> SUFFICES ASSUME NEW i \in 1 .. n, NEW j \in 1 .. n, NEW k \in 1 .. n,
                      Earlier(log, i, j), Earlier(log, j, k)
               PROVE  Earlier(log, i, k)
    BY <1>3
  <2>1. log[i].issued \in Nat /\ log[j].issued \in Nat /\ log[k].issued \in Nat
    BY <1>2
  <2> QED
    BY <1>1, <2>1 DEF Earlier
<1>7. \A i, j \in 1 .. n : i = j \/ <<i, j>> \in R \/ <<j, i>> \in R
  <2> SUFFICES ASSUME NEW i \in 1 .. n, NEW j \in 1 .. n
               PROVE  i = j \/ Earlier(log, i, j) \/ Earlier(log, j, i)
    BY <1>3
  <2>1. log[i].issued \in Nat /\ log[j].issued \in Nat
    BY <1>2
  <2> QED
    BY <1>1, <2>1 DEF Earlier
<1>8. /\ place \in [1 .. n -> 1 .. n]
      /\ \A i, j \in 1 .. n : <<i, j>> \in R => place[i] < place[j]
      /\ \A i, j \in 1 .. n : place[i] = place[j] => i = j
      /\ \A p \in 1 .. n : \E i \in 1 .. n : place[i] = p
  <2>1. IsFiniteSet(1 .. n) /\ Cardinality(1 .. n) = n
    BY <1>1, Numbers
  <2>2. IsOrder(1 .. n, R)
    BY <1>5, <1>6, <1>7 DEF IsOrder
  <2>3. IsRanking(place, 1 .. n, R)
    BY <2>1, <2>2, <1>4, RankOnto
  <2> QED
    BY <2>1, <2>3 DEF IsRanking
<1>9. SortedByIssue(log) = [p \in 1 .. n |-> log[CHOOSE i \in 1 .. n : place[i] = p]]
  BY <1>1 DEF SortedByIssue, PlaceOf, Earlier, place, n
<1>10. \A p \in 1 .. n : (CHOOSE i \in 1 .. n : place[i] = p) \in 1 .. n
  BY <1>8
<1>11. \A i \in 1 .. n : (CHOOSE j \in 1 .. n : place[j] = place[i]) = i
  BY <1>8
<1>12. \A i \in 1 .. n : SortedByIssue(log)[place[i]] = log[i]
  BY <1>8, <1>9, <1>11
<1>13. SortedByIssue(log) \in Seq(Mandate) /\ Len(SortedByIssue(log)) = n
  <2>1. SortedByIssue(log) \in [1 .. n -> Mandate]
    BY <1>2, <1>9, <1>10
  <2> QED
    BY <1>1, <2>1
<1> QED
  BY <1>3, <1>8, <1>12, <1>13 DEF place, n

(* Dates never decrease along a sorted log. *)
LEMMA SortedOrder ==
  ASSUME NEW log \in Seq(Mandate), NEW p \in 1 .. Len(log), NEW q \in 1 .. Len(log), p <= q
  PROVE  /\ SortedByIssue(log)[p].issued \in Nat
         /\ SortedByIssue(log)[q].issued \in Nat
         /\ SortedByIssue(log)[p].issued <= SortedByIssue(log)[q].issued
<1> DEFINE n == Len(log)
           s == SortedByIssue(log)
           place == PlaceOf(log)
<1>1. /\ place \in [1 .. n -> 1 .. n]
      /\ \A i, j \in 1 .. n : Earlier(log, i, j) => place[i] < place[j]
      /\ \A x \in 1 .. n : \E i \in 1 .. n : place[i] = x
      /\ \A i \in 1 .. n : s[place[i]] = log[i]
  BY SortedPlaces
<1>2. \A i \in 1 .. n : log[i].issued \in Nat
  <2>1. \A m \in Mandate : m.issued \in Nat
    BY DEF Mandate
  <2> QED
    BY <2>1
<1> HIDE DEF s, place
<1>3. PICK i \in 1 .. n, j \in 1 .. n : place[i] = p /\ place[j] = q
  BY <1>1
<1>4. s[p] = log[i] /\ s[q] = log[j]
  BY <1>1, <1>3
<1>5. ~(log[j].issued < log[i].issued)
  <2> SUFFICES ASSUME log[j].issued < log[i].issued PROVE FALSE
    OBVIOUS
  <2>1. place[j] < place[i]
    BY <1>1 DEF Earlier
  <2> QED
    BY <1>3, <2>1
<1> QED
  BY <1>2, <1>4, <1>5 DEF s

(* A mandate added to a log leaves every mandate that is dated before it     *)
(* where it was.                                                             *)
LEMMA SortedAppend ==
  ASSUME NEW log \in Seq(Mandate), NEW m \in Mandate
  PROVE  LET s == SortedByIssue(log)
             u == SortedByIssue(Append(log, m))
         IN  /\ \A p \in 1 .. Len(log) :
                  s[p].issued < m.issued \/ u[p].issued < m.issued => s[p] = u[p]
             /\ ~(u[Len(log) + 1].issued < m.issued)
<1> DEFINE n == Len(log)
           more == Append(log, m)
           s == SortedByIssue(log)
           u == SortedByIssue(more)
           place == PlaceOf(log)
           moved == PlaceOf(more)
<1>1. /\ n \in Nat /\ more \in Seq(Mandate) /\ Len(more) = n + 1 /\ more[n + 1] = m
      /\ \A i \in 1 .. n : more[i] = log[i]
  OBVIOUS
<1>2. m.issued \in Nat /\ \A i \in 1 .. n : log[i].issued \in Nat
  <2>1. \A x \in Mandate : x.issued \in Nat
    BY DEF Mandate
  <2> QED
    BY <2>1
<1> HIDE DEF more
<1>3. /\ place \in [1 .. n -> 1 .. n]
      /\ \A p \in 1 .. n : \E i \in 1 .. n : place[i] = p
      /\ \A i \in 1 .. n : s[place[i]] = log[i]
  BY SortedPlaces
<1>4. /\ moved \in [1 .. n + 1 -> 1 .. n + 1]
      /\ \A p \in 1 .. n + 1 : \E i \in 1 .. n + 1 : moved[i] = p
      /\ \A i \in 1 .. n + 1 : u[moved[i]] = more[i]
  BY <1>1, SortedPlaces
<1>5. ASSUME NEW i \in 1 .. n, log[i].issued < m.issued
      PROVE  moved[i] = place[i]
  <2>1. ASSUME NEW j \in 1 .. n PROVE Earlier(more, j, i) <=> Earlier(log, j, i)
    BY <1>1 DEF Earlier
  <2>2. ~Earlier(more, n + 1, i)
    BY <1>1, <1>2, <1>5 DEF Earlier
  <2>3. {j \in 1 .. n + 1 : Earlier(more, j, i)} = {j \in 1 .. n : Earlier(log, j, i)}
    BY <1>1, <2>1, <2>2
  <2>4. i \in 1 .. n + 1
    BY <1>1
  <2> QED
    BY <1>1, <2>3, <2>4 DEF PlaceOf
<1> HIDE DEF n, s, u, place, moved
<1>6. ASSUME NEW p \in 1 .. n, s[p].issued < m.issued PROVE s[p] = u[p]
  <2>1. PICK i \in 1 .. n : place[i] = p
    BY <1>3
  <2>2. s[p] = log[i] /\ moved[i] = p
    BY <1>3, <1>5, <1>6, <2>1
  <2>3. i \in 1 .. n + 1 /\ u[moved[i]] = more[i] /\ more[i] = log[i]
    <3>1. i \in 1 .. n + 1
      BY <1>1
    <3> QED
      BY <1>1, <1>4, <3>1
  <2> QED
    BY <2>2, <2>3
<1>7. ASSUME NEW p \in 1 .. n + 1, u[p].issued < m.issued PROVE p \in 1 .. n /\ s[p] = u[p]
  <2>1. PICK i \in 1 .. n + 1 : moved[i] = p
    BY <1>4
  <2>2. u[p] = more[i]
    BY <1>4, <2>1
  <2>3. i # n + 1
    BY <1>1, <1>2, <1>7, <2>2
  <2>4. i \in 1 .. n /\ more[i] = log[i]
    BY <1>1, <2>3
  <2>5. place[i] = p
    BY <1>5, <1>7, <2>1, <2>2, <2>4
  <2> QED
    BY <1>3, <2>2, <2>4, <2>5
<1>8. n + 1 \in 1 .. n + 1 /\ n + 1 \notin 1 .. n
  BY <1>1
<1>9. \A p \in 1 .. n : p \in 1 .. n + 1
  BY <1>1
<1> QED
  BY <1>6, <1>7, <1>8, <1>9 DEF n, s, u, more

(* A sequence of the numbers from 1 to n that only rises counts them. *)
LEMMA RisingCounts ==
  ASSUME NEW n \in Nat, NEW h \in [1 .. n -> 1 .. n],
         \A i, j \in 1 .. n : i < j => h[i] < h[j]
  PROVE  \A i \in 1 .. n : h[i] = i
<1> DEFINE T == {k \in 0 .. n : k = 0 \/ h[k] >= k}
           U == {k \in 0 .. n : k = n \/ h[n - k] <= n - k}
<1>1. \A i \in 1 .. n : h[i] \in 1 .. n
  OBVIOUS
<1>2. 0 \in T
  OBVIOUS
<1>3. ASSUME NEW k \in 0 .. n, k \in T, k < n PROVE k + 1 \in T
  <2>1. k + 1 \in 1 .. n /\ h[k + 1] \in 1 .. n
    BY <1>1, <1>3
  <2>2. CASE k = 0
    BY <2>1, <2>2
  <2>3. CASE k # 0
    <3>1. k \in 1 .. n /\ h[k] < h[k + 1] /\ h[k] >= k /\ h[k] \in 1 .. n
      BY <1>1, <1>3, <2>1, <2>3
    <3> QED
      BY <2>1, <3>1
  <2> QED
    BY <2>2, <2>3
<1>4. 0 \in U
  BY <1>1
<1>5. ASSUME NEW k \in 0 .. n, k \in U, k < n PROVE k + 1 \in U
  <2>1. CASE k + 1 = n
    BY <2>1
  <2>2. CASE k + 1 # n
    <3>1. /\ n - k \in 1 .. n /\ n - (k + 1) \in 1 .. n /\ n - (k + 1) < n - k
          /\ k + 1 \in 0 .. n
      BY <1>5, <2>2
    <3>2. h[n - (k + 1)] < h[n - k] /\ h[n - k] <= n - k
      BY <1>5, <3>1
    <3>3. h[n - (k + 1)] \in Int /\ h[n - k] \in Int
      BY <1>1, <3>1
    <3> QED
      BY <1>5, <3>1, <3>2, <3>3
  <2> QED
    BY <2>1, <2>2
<1> HIDE DEF T, U
<1>6. 0 .. n \subseteq T /\ 0 .. n \subseteq U
  BY <1>2, <1>3, <1>4, <1>5, StepByStep
<1>7. ASSUME NEW i \in 1 .. n PROVE h[i] = i
  <2>1. i \in 0 .. n /\ n - i \in 0 .. n /\ n - (n - i) = i
    OBVIOUS
  <2>2. i \in T /\ n - i \in U
    BY <1>6, <2>1
  <2>3. h[i] >= i
    BY <2>2 DEF T
  <2>4. h[i] <= i
    BY <2>1, <2>2 DEF U
  <2> QED
    BY <1>1, <2>3, <2>4
<1> QED
  BY <1>7

(* A log whose dates never decrease is sorted already. *)
LEMMA SortedAlready ==
  ASSUME NEW log \in Seq(Mandate),
         \A i, j \in DOMAIN log : i <= j => log[i].issued <= log[j].issued
  PROVE  SortedByIssue(log) = log
<1> DEFINE n == Len(log)
           place == PlaceOf(log)
           s == SortedByIssue(log)
<1>1. n \in Nat /\ DOMAIN log = 1 .. n
  OBVIOUS
<1>2. /\ place \in [1 .. n -> 1 .. n]
      /\ \A i, j \in 1 .. n : Earlier(log, i, j) => place[i] < place[j]
      /\ \A i \in 1 .. n : s[place[i]] = log[i]
      /\ s \in Seq(Mandate) /\ Len(s) = n
  BY SortedPlaces
<1>3. ASSUME NEW i \in 1 .. n, NEW j \in 1 .. n, i < j PROVE Earlier(log, i, j)
  <2>1. log[i].issued <= log[j].issued
    BY <1>1, <1>3
  <2>2. log[i].issued \in Nat /\ log[j].issued \in Nat
    <3>1. \A m \in Mandate : m.issued \in Nat
      BY DEF Mandate
    <3> QED
      BY <3>1
  <2> QED
    BY <1>3, <2>1, <2>2 DEF Earlier
<1> HIDE DEF place, s, n
<1>4. \A i \in 1 .. n : place[i] = i
  BY <1>1, <1>2, <1>3, RisingCounts
<1>5. \A i \in 1 .. n : s[i] = log[i]
  BY <1>2, <1>4
<1> QED
  BY <1>1, <1>2, <1>5 DEF s, n

-----------------------------------------------------------------------------
(* WHO HAS AUTHORITY *)

(* A non-empty set of positions of a sequence has a largest element. *)
LEMMA LargestPosition ==
  ASSUME NEW n \in Nat, NEW T \in SUBSET (1 .. n), T # {}
  PROVE  \E k \in T : \A j \in T : j <= k
<1> DEFINE D == {n - j : j \in T}
<1>1. D \in SUBSET Nat /\ D # {}
  <2>1. \A j \in T : n - j \in Nat
    OBVIOUS
  <2> QED
    BY <2>1
<1>2. PICK x \in D : \A y \in D : x <= y
  BY <1>1, LeastNat
<1>3. PICK k \in T : x = n - k
  BY <1>2
<1>4. ASSUME NEW j \in T PROVE j <= k
  <2>1. n - k <= n - j
    BY <1>2, <1>3
  <2> QED
    BY <2>1
<1> QED
  BY <1>4

(* Whoever has authority holds the newest live position. *)
LEMMA AuthorityIsNewest ==
  ASSUME NEW c \in VerifiedChain, NEW t \in Nat, HasAuthority(c, t)
  PROVE  /\ AuthorityPosition(c, t) \in LivePositions(c, t)
         /\ \A j \in LivePositions(c, t) : j <= AuthorityPosition(c, t)
<1>1. LivePositions(c, t) \subseteq 1 .. Len(c.accepted) /\ Len(c.accepted) \in Nat
  BY DEF LivePositions, VerifiedChain
<1>2. \E k \in LivePositions(c, t) : \A j \in LivePositions(c, t) : j <= k
  BY <1>1, LargestPosition DEF HasAuthority
<1> QED
  BY <1>2 DEF AuthorityPosition

(* Two chains on which everybody agrees about authority at time t. *)
SameAt(c, d, t) ==
  /\ LivePositions(c, t) = LivePositions(d, t)
  /\ \A k \in LivePositions(c, t) : c.accepted[k] = d.accepted[k]

LEMMA SameAuthority ==
  ASSUME NEW c \in VerifiedChain, NEW d \in VerifiedChain, NEW t \in Nat, SameAt(c, d, t)
  PROVE  /\ HasAuthority(c, t) <=> HasAuthority(d, t)
         /\ HasAuthority(c, t) => CurrentAuthority(c, t) = CurrentAuthority(d, t)
<1>1. HasAuthority(c, t) <=> HasAuthority(d, t)
  BY DEF SameAt, HasAuthority
<1>2. AuthorityPosition(c, t) = AuthorityPosition(d, t)
  BY DEF SameAt, AuthorityPosition
<1> QED
  BY <1>1, <1>2, AuthorityIsNewest DEF SameAt, CurrentAuthority

(* A mandate says nothing about who had authority before its date. *)
LEMMA ConsumeLater ==
  ASSUME NEW pin, NEW c \in VerifiedChain, NEW m \in Mandate, NEW t \in Nat, t < m.issued
  PROVE  SameAt(c, Consume(pin, c, m), t)
<1> DEFINE d == Consume(pin, c, m)
           n == Len(c.accepted)
<1>1. c.accepted \in Seq(Mandate) /\ n \in Nat /\ DOMAIN c.accepted = 1 .. n
  BY DEF VerifiedChain
<1>2. d.accepted \in {c.accepted, Append(c.accepted, m)}
  BY ConsumeGrows
<1>3. CASE d.accepted = c.accepted
  BY <1>3 DEF SameAt, LivePositions
<1>4. CASE d.accepted = Append(c.accepted, m)
  <2>1. /\ DOMAIN d.accepted = 1 .. n + 1 /\ d.accepted[n + 1] = m
        /\ \A k \in 1 .. n : d.accepted[k] = c.accepted[k]
    <3> HIDE DEF d
    <3> QED
      BY <1>1, <1>4
  <2>2. ~LiveAt(m, t)
    <3>1. m.issued \in Nat
      BY DEF Mandate
    <3> QED
      BY <3>1 DEF LiveAt
  <2> HIDE DEF d, n
  <2>3. LivePositions(c, t) = LivePositions(d, t)
    BY <1>1, <2>1, <2>2 DEF LivePositions
  <2> QED
    BY <1>1, <2>1, <2>3 DEF SameAt, LivePositions, d
<1> QED
  BY <1>2, <1>3, <1>4

(* ... so a mandate that is added to a log, whenever it turns up, changes     *)
(* nothing about the time before its date.                                   *)
LEMMA LateMandate ==
  ASSUME NEW pin, NEW log \in Seq(Mandate), NEW m \in Mandate, NEW t \in Nat, t < m.issued
  PROVE  SameAt(VerifyMandateChainFromPin(pin, SortedByIssue(log)),
                VerifyMandateChainFromPin(pin, SortedByIssue(Append(log, m))), t)
<1> DEFINE n == Len(log)
           more == Append(log, m)
           s == SortedByIssue(log)
           u == SortedByIssue(more)
           After(x, p) == ~(x[p].issued < m.issued)
<1>1. /\ n \in Nat /\ more \in Seq(Mandate) /\ Len(more) = n + 1
      /\ s \in Seq(Mandate) /\ Len(s) = n /\ u \in Seq(Mandate) /\ Len(u) = n + 1
  <2>1. n \in Nat /\ more \in Seq(Mandate) /\ Len(more) = n + 1
    OBVIOUS
  <2> HIDE DEF more, n
  <2> QED
    BY <2>1, SortedPlaces DEF n
<1>2. /\ \A p \in 1 .. n : s[p] = u[p] \/ (After(s, p) /\ After(u, p))
      /\ After(u, n + 1)
  BY SortedAppend
<1>3. /\ \A p, q \in 1 .. n : p <= q /\ After(s, p) => After(s, q)
      /\ \A p, q \in 1 .. n + 1 : p <= q /\ After(u, p) => After(u, q)
  <2>1. m.issued \in Nat
    BY DEF Mandate
  <2> HIDE DEF more, n
  <2>2. ASSUME NEW p \in 1 .. n, NEW q \in 1 .. n, p <= q, After(s, p)
        PROVE  After(s, q)
    <3>1. s[p].issued \in Nat /\ s[q].issued \in Nat /\ s[p].issued <= s[q].issued
      BY <2>2, SortedOrder DEF n
    <3> QED
      BY <2>1, <2>2, <3>1
  <2>3. ASSUME NEW p \in 1 .. n + 1, NEW q \in 1 .. n + 1, p <= q, After(u, p)
        PROVE  After(u, q)
    <3>1. u[p].issued \in Nat /\ u[q].issued \in Nat /\ u[p].issued <= u[q].issued
      BY <1>1, <2>3, SortedOrder
    <3> QED
      BY <2>1, <2>3, <3>1
  <2> QED
    BY <2>2, <2>3
<1>4. PICK v \in [0 .. n -> VerifiedChain] :
        /\ v[0] = EmptyChain(pin)
        /\ \A k \in 1 .. n : v[k] = Consume(pin, v[k - 1], s[k])
        /\ VerifyMandateChainFromPin(pin, s) = v[n]
  <2> HIDE DEF s, n
  <2> QED
    BY <1>1, VerifyWalks
<1>5. PICK w \in [0 .. n + 1 -> VerifiedChain] :
        /\ w[0] = EmptyChain(pin)
        /\ \A k \in 1 .. n + 1 : w[k] = Consume(pin, w[k - 1], u[k])
        /\ VerifyMandateChainFromPin(pin, u) = w[n + 1]
  <2> HIDE DEF s, u, n, more, After
  <2>1. u \in Seq(Mandate) /\ Len(u) = n + 1
    BY <1>1
  <2> QED
    BY <2>1, VerifyWalks
<1>6. m.issued \in Nat /\ t < m.issued
  BY DEF Mandate
<1>7. ASSUME NEW x \in Seq(Mandate), NEW p \in 1 .. Len(x), After(x, p)
      PROVE  t < x[p].issued /\ x[p] \in Mandate
  <2>1. \A y \in Mandate : y.issued \in Nat
    BY DEF Mandate
  <2>2. x[p] \in Mandate
    OBVIOUS
  <2> QED
    BY <1>6, <1>7, <2>1, <2>2
<1> DEFINE T == {k \in 0 .. n :
                   \/ v[k] = w[k]
                   \/ /\ SameAt(v[k], w[k], t)
                      /\ \A p \in 1 .. n : k < p => After(s, p) /\ After(u, p)}
<1> HIDE DEF n, s, u, After, more
<1>8. 0 \in T
  BY <1>1, <1>4, <1>5
<1>9. ASSUME NEW k \in 0 .. n, k \in T, k < n PROVE k + 1 \in T
  <2>1. /\ k + 1 \in 1 .. n /\ k + 1 \in 1 .. n + 1 /\ k + 1 \in 0 .. n /\ (k + 1) - 1 = k
        /\ k \in 0 .. n + 1
    BY <1>1, <1>9
  <2>2. /\ v[k] \in VerifiedChain /\ w[k] \in VerifiedChain
        /\ v[k + 1] = Consume(pin, v[k], s[k + 1])
        /\ w[k + 1] = Consume(pin, w[k], u[k + 1])
    BY <1>4, <1>5, <2>1
  <2>3. CASE After(s, k + 1) /\ After(u, k + 1)
    <3>1. SameAt(v[k], w[k], t)
      BY <1>9 DEF T, SameAt
    <3>2. SameAt(v[k], v[k + 1], t) /\ SameAt(w[k], w[k + 1], t)
      BY <1>1, <1>7, <2>1, <2>2, <2>3, ConsumeLater
    <3>3. SameAt(v[k + 1], w[k + 1], t)
      BY <3>1, <3>2 DEF SameAt
    <3>4. \A p \in 1 .. n : k + 1 < p => After(s, p) /\ After(u, p)
      BY <1>1, <1>3, <2>1, <2>3
    <3> QED
      BY <2>1, <3>3, <3>4 DEF T
  <2>4. CASE ~(After(s, k + 1) /\ After(u, k + 1))
    <3>1. s[k + 1] = u[k + 1]
      BY <1>2, <2>1, <2>4
    <3>2. v[k] = w[k]
      BY <1>9, <2>1, <2>4 DEF T
    <3> QED
      BY <2>1, <2>2, <3>1, <3>2 DEF T
  <2> QED
    BY <2>3, <2>4
<1>10. SameAt(v[n], w[n], t)
  <2> HIDE DEF T
  <2>1. 0 .. n \subseteq T
    BY <1>1, <1>8, <1>9, StepByStep
  <2>2. n \in T
    BY <1>1, <2>1
  <2> QED
    BY <2>2 DEF T, SameAt
<1>11. SameAt(w[n], w[n + 1], t)
  <2>1. n + 1 \in 1 .. n + 1 /\ (n + 1) - 1 = n /\ n \in 0 .. n + 1
    BY <1>1
  <2>2. w[n] \in VerifiedChain /\ w[n + 1] = Consume(pin, w[n], u[n + 1])
    BY <1>5, <2>1
  <2> QED
    BY <1>1, <1>2, <1>7, <2>1, <2>2, ConsumeLater
<1>12. SameAt(v[n], w[n + 1], t)
  BY <1>10, <1>11 DEF SameAt
<1> QED
  BY <1>4, <1>5, <1>12 DEF s, u, more
-----------------------------------------------------------------------------
(* THE ORDER OF NAMES *)

(* The files of a folder: finitely many, no two of one name.                 *)
IsFolder(ms) ==
  /\ Id \subseteq Nat /\ ms \subseteq Mandate /\ IsFiniteSet(ms)
  /\ \A m, n \in ms : m.issued = n.issued /\ m.id = n.id => m = n

(* One plus the number of files whose names come before that of m. *)
PlaceIn(ms, m) == Cardinality({n \in ms : EarlierName(n, m)}) + 1

(* A folder that is read in the order of its names has each file once, at    *)
(* the place its name gives it.                                              *)
LEMMA NamePlaces ==
  ASSUME NEW ms, IsFolder(ms)
  PROVE  /\ Cardinality(ms) \in Nat
         /\ InNameOrder(ms) \in Seq(Mandate) /\ Len(InNameOrder(ms)) = Cardinality(ms)
         /\ \A m \in ms : /\ PlaceIn(ms, m) \in 1 .. Cardinality(ms)
                          /\ InNameOrder(ms)[PlaceIn(ms, m)] = m
         /\ \A m, k \in ms : EarlierName(m, k) => PlaceIn(ms, m) < PlaceIn(ms, k)
         /\ \A p \in 1 .. Cardinality(ms) :
              InNameOrder(ms)[p] \in ms /\ PlaceIn(ms, InNameOrder(ms)[p]) = p
<1> DEFINE n == Cardinality(ms)
           R == {x \in ms \X ms : EarlierName(x[1], x[2])}
           place == RankOf(ms, R)
<1>1. n \in Nat /\ IsFiniteSet(ms)
  BY FS_CardinalityType DEF IsFolder
<1>2. \A m \in ms : m.issued \in Nat /\ m.id \in Nat
  <2>1. \A m \in Mandate : m.issued \in Nat /\ m.id \in Id
    BY DEF Mandate
  <2> QED
    BY <2>1 DEF IsFolder
<1>3. \A m, k \in ms : <<m, k>> \in R <=> EarlierName(m, k)
  OBVIOUS
<1> HIDE DEF R
<1>4. /\ \A m \in ms : <<m, m>> \notin R
      /\ \A m, k, l \in ms : <<m, k>> \in R /\ <<k, l>> \in R => <<m, l>> \in R
  BY <1>2, <1>3 DEF EarlierName
<1>5. \A m, k \in ms : m = k \/ <<m, k>> \in R \/ <<k, m>> \in R
  <2> SUFFICES ASSUME NEW m \in ms, NEW k \in ms, m # k
               PROVE  EarlierName(m, k) \/ EarlierName(k, m)
    BY <1>3
  <2>1. m.issued # k.issued \/ m.id # k.id
    BY DEF IsFolder
  <2>2. m.issued \in Nat /\ k.issued \in Nat /\ m.id \in Nat /\ k.id \in Nat
    BY <1>2
  <2> QED
    BY <2>1, <2>2 DEF EarlierName
<1>6. \A m \in ms : place[m] = PlaceIn(ms, m)
  <2> SUFFICES ASSUME NEW m \in ms PROVE place[m] = PlaceIn(ms, m)
    OBVIOUS
  <2>1. {k \in ms : <<k, m>> \in R} = {k \in ms : EarlierName(k, m)}
    BY <1>3
  <2> QED
    BY <2>1 DEF RankOf, PlaceIn
<1> HIDE DEF place
<1>7. /\ place \in [ms -> 1 .. n]
      /\ \A m, k \in ms : EarlierName(m, k) => place[m] < place[k]
      /\ \A m, k \in ms : place[m] = place[k] => m = k
      /\ \A p \in 1 .. n : \E m \in ms : place[m] = p
  <2>1. IsOrder(ms, R)
    BY <1>4, <1>5 DEF IsOrder
  <2>2. IsRanking(place, ms, R)
    BY <2>1, <1>1, RankOnto DEF place
  <2> QED
    BY <2>2, <1>3 DEF IsRanking, n
<1>8. InNameOrder(ms) = [p \in 1 .. n |-> CHOOSE m \in ms : place[m] = p]
  <2> DEFINE at == [m \in ms |-> PlaceIn(ms, m)]
  <2>1. InNameOrder(ms) = [p \in 1 .. n |-> CHOOSE m \in ms : at[m] = p]
    BY DEF InNameOrder, PlaceIn
  <2>2. at = place
    BY <1>6, <1>7
  <2> QED
    BY <2>1, <2>2
<1> HIDE DEF n
<1>9. /\ \A p \in 1 .. n : InNameOrder(ms)[p] \in ms /\ place[InNameOrder(ms)[p]] = p
      /\ InNameOrder(ms) \in [1 .. n -> ms]
  <2>1. \A p \in 1 .. n : /\ (CHOOSE m \in ms : place[m] = p) \in ms
                         /\ place[CHOOSE m \in ms : place[m] = p] = p
    BY <1>7
  <2> QED
    BY <1>8, <2>1
<1>10. InNameOrder(ms) \in Seq(Mandate) /\ Len(InNameOrder(ms)) = n
  BY <1>1, <1>9 DEF IsFolder
<1>11. \A m \in ms : place[m] \in 1 .. n /\ InNameOrder(ms)[place[m]] = m
  BY <1>7, <1>9
<1> QED
  BY <1>1, <1>6, <1>7, <1>9, <1>10, <1>11 DEF n

(* What comes after all files of a folder leaves them where they were.       *)
LEMMA NameOrderLater ==
  ASSUME NEW old, NEW new, IsFolder(new), old \subseteq new,
         \A m \in old, k \in new \ old : EarlierName(m, k)
  PROVE  IsStart(InNameOrder(old), InNameOrder(new))
<1> DEFINE n == Cardinality(old)
           o == Cardinality(new)
<1>1. IsFolder(old)
  <2>1. IsFiniteSet(old)
    BY FS_Subset DEF IsFolder
  <2> QED
    BY <2>1 DEF IsFolder
<1>2. n \in Nat /\ o \in Nat /\ n <= o
  BY <1>1, FS_Subset, FS_CardinalityType DEF IsFolder
<1>3. \A m \in old : PlaceIn(old, m) = PlaceIn(new, m)
  <2> SUFFICES ASSUME NEW m \in old PROVE PlaceIn(old, m) = PlaceIn(new, m)
    OBVIOUS
  <2>1. \A k \in new : k.issued \in Nat /\ k.id \in Nat
    <3>1. \A k \in Mandate : k.issued \in Nat /\ k.id \in Id
      BY DEF Mandate
    <3> QED
      BY <3>1 DEF IsFolder
  <2>2. \A k \in new \ old : ~EarlierName(k, m)
    BY <2>1 DEF EarlierName
  <2>3. {k \in old : EarlierName(k, m)} = {k \in new : EarlierName(k, m)}
    BY <2>2
  <2> QED
    BY <2>3 DEF PlaceIn
<1>4. /\ InNameOrder(old) \in Seq(Mandate) /\ Len(InNameOrder(old)) = n
      /\ \A p \in 1 .. n : InNameOrder(old)[p] \in old /\ PlaceIn(old, InNameOrder(old)[p]) = p
  BY <1>1, NamePlaces
<1>5. /\ InNameOrder(new) \in Seq(Mandate) /\ Len(InNameOrder(new)) = o
      /\ \A m \in new : InNameOrder(new)[PlaceIn(new, m)] = m
  BY NamePlaces
<1> HIDE DEF n, o
<1>6. \A p \in 1 .. n : InNameOrder(old)[p] = InNameOrder(new)[p]
  BY <1>3, <1>4, <1>5
<1>7. DOMAIN InNameOrder(old) = 1 .. n
  BY <1>4
<1> QED
  BY <1>2, <1>4, <1>5, <1>6, <1>7 DEF IsStart

(* One file that comes last is appended. *)
LEMMA NameOrderAppend ==
  ASSUME NEW old, NEW m \in Mandate, IsFolder(old),
         \A k \in old : EarlierName(k, m)
  PROVE  /\ IsFolder(old \cup {m})
         /\ InNameOrder(old \cup {m}) = Append(InNameOrder(old), m)
<1> DEFINE new == old \cup {m}
           n == Cardinality(old)
<1>1. \A k \in new : k.issued \in Nat /\ k.id \in Nat
  <2>1. \A k \in Mandate : k.issued \in Nat /\ k.id \in Id
    BY DEF Mandate
  <2> QED
    BY <2>1 DEF IsFolder
<1>2. m \notin old /\ ~EarlierName(m, m)
  BY <1>1 DEF EarlierName
<1>3. IsFiniteSet(new) /\ Cardinality(new) = n + 1 /\ n \in Nat
  BY <1>2, FS_AddElement, FS_CardinalityType DEF IsFolder
<1>4. IsFolder(new)
  BY <1>1, <1>3 DEF IsFolder, EarlierName
<1>5. PlaceIn(new, m) = n + 1
  <2>1. {k \in new : EarlierName(k, m)} = old
    BY <1>2
  <2> QED
    BY <2>1 DEF PlaceIn
<1> DEFINE s == InNameOrder(old)
           t == InNameOrder(new)
<1>6. IsStart(s, t)
  <2> HIDE DEF new
  <2>1. old \subseteq new /\ \A k \in old, l \in new \ old : EarlierName(k, l)
    BY DEF new
  <2> QED
    BY <1>4, <2>1, NameOrderLater
<1>7. t \in Seq(Mandate) /\ Len(t) = n + 1 /\ t[n + 1] = m /\ s \in Seq(Mandate) /\ Len(s) = n
  <2> HIDE DEF new
  <2>1. m \in new
    BY DEF new
  <2> QED
    BY <1>3, <1>4, <1>5, <2>1, NamePlaces
<1> HIDE DEF s, t, new, n
<1>8. t = Append(s, m)
  <2>1. \A k \in 1 .. n : t[k] = s[k]
    BY <1>3, <1>6, <1>7 DEF IsStart
  <2> QED
    BY <1>3, <1>7, <2>1
<1> QED
  BY <1>4, <1>8 DEF s, t, new

(* The last name of a folder comes after all others. *)
LEMMA LatestIsLast ==
  ASSUME NEW ms, IsFolder(ms), ms # {}
  PROVE  /\ InNameOrder(ms) # <<>> /\ Last(InNameOrder(ms)) \in ms
         /\ \A k \in ms : k = Last(InNameOrder(ms)) \/ EarlierName(k, Last(InNameOrder(ms)))
<1> DEFINE n == Cardinality(ms)
           s == InNameOrder(ms)
<1>1. /\ n \in Nat /\ s \in Seq(Mandate) /\ Len(s) = n
      /\ \A m \in ms : PlaceIn(ms, m) \in 1 .. n
      /\ \A m, k \in ms : EarlierName(m, k) => PlaceIn(ms, m) < PlaceIn(ms, k)
      /\ \A p \in 1 .. n : s[p] \in ms /\ PlaceIn(ms, s[p]) = p
  BY NamePlaces
<1>2. \A m \in ms : m.issued \in Nat /\ m.id \in Nat
  <2>1. \A m \in Mandate : m.issued \in Nat /\ m.id \in Id
    BY DEF Mandate
  <2> QED
    BY <2>1 DEF IsFolder
<1> HIDE DEF n, s
<1>3. n \in 1 .. n
  BY <1>1
<1>4. PICK l \in ms : l = s[n] /\ PlaceIn(ms, l) = n
  BY <1>1, <1>3
<1>5. s # <<>> /\ Last(s) = l
  BY <1>1, <1>3, <1>4 DEF Last
<1>6. ASSUME NEW k \in ms, k # l PROVE EarlierName(k, l)
  <2>1. ~EarlierName(l, k)
    BY <1>1, <1>4
  <2>2. k.issued # l.issued \/ k.id # l.id
    BY <1>6 DEF IsFolder
  <2> QED
    BY <1>2, <2>1, <2>2 DEF EarlierName
<1> QED
  BY <1>5, <1>6 DEF s

-----------------------------------------------------------------------------
(* A LOG OF WHICH NOTHING IS REJECTED *)

(* A root that breaks a rule is reported as broken, not as missing.          *)
LEMMA RootFails ==
  ASSUME NEW m, ~Passes(RootRules(m))
  PROVE  FirstFailure(RootRules(m)) # "pin-not-in-log"
<1> DEFINE Reason == V2RootFailReason \ {"no-pin", "pin-not-in-log"}
<1>1. RootRules(m) \in Seq(Reason \cup {"ok"})
  BY DEF RootRules, Rule, V2RootFailReason
<1> HIDE DEF Reason
<1>2. FirstFailure(RootRules(m)) \in Reason
  BY <1>1, FirstFailureType
<1> QED
  BY <1>2 DEF Reason

(* What the walk looks at is passed over, appended, or rejected with a       *)
(* reason; and a rejection is never taken back.                              *)
LEMMA RejectionsStay ==
  ASSUME NEW c \in VerifiedChain, NEW m \in Mandate, NEW pin
  PROVE  /\ c.rejections # <<>> => Consume(pin, c, m).rejections # <<>>
         /\ m.defect # "shape" /\ m.track = Head(c.accepted).track =>
              \/ WalkForward(c, m).rejections # <<>>
              \/ WalkForward(c, m).accepted = Append(c.accepted, m)
<1>1. ASSUME NEW reason PROVE Reject(c, m, reason).rejections # <<>>
  <2>1. PICK x : x = [mandate |-> m, reason |-> reason]
    OBVIOUS
  <2>2. Reject(c, m, reason).rejections = Append(c.rejections, x)
    BY <2>1 DEF Reject, VerifiedChain
  <2>3. PICK s : s = c.rejections
    OBVIOUS
  <2>4. Len(Append(s, x)) # 0
    <3>1. s \in Seq([mandate : Mandate, reason : V2FailReason])
      BY <2>3 DEF VerifiedChain
    <3> QED
      BY <3>1
  <2> QED
    BY <2>2, <2>3, <2>4
<1> DEFINE rules == ForwardRules(Last(c.accepted), m)
<1>2. /\ Reject(c, m, "duplicate-mandate-id").rejections # <<>>
      /\ Reject(c, m, FirstFailure(rules)).rejections # <<>>
  BY <1>1
<1>3. [c EXCEPT !.accepted = Append(@, m)].accepted = Append(c.accepted, m)
  BY DEF VerifiedChain
<1> HIDE DEF rules
<1>4. \/ WalkForward(c, m) = c
      \/ WalkForward(c, m).rejections # <<>>
      \/ WalkForward(c, m) = [c EXCEPT !.accepted = Append(@, m)]
  BY <1>2 DEF WalkForward, rules
<1>5. m.defect # "shape" /\ m.track = Head(c.accepted).track =>
        \/ WalkForward(c, m).rejections # <<>>
        \/ WalkForward(c, m).accepted = Append(c.accepted, m)
  BY <1>2, <1>3 DEF WalkForward, rules
<1>6. [c EXCEPT !.accepted = Append(@, m)].rejections = c.rejections
  BY DEF VerifiedChain
<1>7. SeekRoot(pin, c, m).rejections = c.rejections
  BY DEF SeekRoot, VerifiedChain
<1> QED
  BY <1>4, <1>5, <1>6, <1>7 DEF Consume

(* If a log of one track, without malformed objects, is anchored at its      *)
(* first mandate and nothing of it is rejected, the chain is the whole log.  *)
LEMMA NoneRejected ==
  ASSUME NEW log \in Seq(Mandate), log # <<>>, NEW t,
         \A k \in DOMAIN log : log[k].track = t /\ log[k].defect \notin {"shape", "bytes"},
         NEW c, c = VerifyMandateChainFromPin(PinHash(log[1]), log),
         c.accepted # <<>>, c.rejections = <<>>
  PROVE  c.accepted = log
<1> DEFINE n == Len(log)
           pin == PinHash(log[1])
<1>1. n \in Nat /\ n # 0 /\ DOMAIN log = 1 .. n
  OBVIOUS
<1>2. PICK w \in [0 .. n -> VerifiedChain] :
        /\ w[0] = EmptyChain(pin)
        /\ \A k \in 1 .. n : w[k] = Consume(pin, w[k - 1], log[k])
        /\ VerifyMandateChainFromPin(pin, log) = w[n]
  BY VerifyWalks
<1> DEFINE Whole(k) ==
             /\ Len(w[k].accepted) = k
             /\ \A j \in 1 .. k : w[k].accepted[j] = log[j]
           Closed(k) == w[k].accepted = <<>> /\ w[k].rootError # "pin-not-in-log"
           T == {k \in 0 .. n : \/ k = 0 \/ w[k].rejections # <<>> \/ Closed(k) \/ Whole(k)}
<1>3. 0 \in T
  BY <1>1
<1>4. ASSUME NEW k \in 0 .. n, k \in T, k < n PROVE k + 1 \in T
  <2>1. /\ k + 1 \in 1 .. n /\ k + 1 \in 0 .. n /\ (k + 1) - 1 = k
    BY <1>1, <1>4
  <2>2. /\ w[k + 1] = Consume(pin, w[k], log[k + 1]) /\ w[k] \in VerifiedChain
        /\ w[k + 1] \in VerifiedChain /\ log[k + 1] \in Mandate
    BY <1>1, <1>2, <2>1
  <2>3. PICK v, u, m : v = w[k] /\ u = w[k + 1] /\ m = log[k + 1]
    OBVIOUS
  <2>4. /\ v \in VerifiedChain /\ u = Consume(pin, v, m) /\ m \in Mandate
        /\ m.track = t /\ m.defect \notin {"shape", "bytes"}
    BY <1>1, <2>1, <2>2, <2>3
  <2> HIDE DEF T, pin
  <2>5. CASE k = 0
    <3>1. v = EmptyChain(pin) /\ m = log[1]
      BY <1>2, <2>3, <2>5
    <3>2. v.accepted = <<>> /\ (v.rootError = "pin-not-in-log" \/ u = v)
      BY <2>4, <3>1 DEF Consume, EmptyChain
    <3>3. HasHash(m) /\ PinHash(m) = pin
      BY <2>4, <3>1 DEF HasHash, pin
    <3>4. CASE v.rootError = "pin-not-in-log"
      <4>1. u = SeekRoot(pin, v, m)
        BY <2>4, <3>2, <3>4 DEF Consume
      <4>2. CASE Passes(RootRules(m))
        <5>1. u.accepted = <<m>>
          BY <2>4, <3>3, <4>1, <4>2 DEF SeekRoot, VerifiedChain
        <5>2. w[1].accepted = <<m>>
          BY <2>3, <2>5, <5>1
        <5>3. Len(<<m>>) = 1 /\ <<m>>[1] = m
          OBVIOUS
        <5>4. Whole(1)
          BY <3>1, <5>2, <5>3
        <5> QED
          BY <2>1, <2>5, <5>4 DEF T
      <4>3. CASE ~Passes(RootRules(m))
        <5>1. u.accepted = <<>> /\ u.rootError = FirstFailure(RootRules(m))
          BY <2>4, <3>2, <3>3, <4>1, <4>3 DEF SeekRoot, VerifiedChain
        <5>2. FirstFailure(RootRules(m)) # "pin-not-in-log"
          BY <4>3, RootFails
        <5> QED
          BY <2>1, <2>3, <5>1, <5>2 DEF T
      <4> QED
        BY <4>2, <4>3
    <3>5. CASE v.rootError # "pin-not-in-log"
      BY <2>1, <2>3, <3>2, <3>5 DEF T
    <3> QED
      BY <3>4, <3>5
  <2>6. CASE k # 0 /\ v.rejections # <<>>
    <3>1. u.rejections # <<>>
      BY <2>3, <2>4, <2>6, RejectionsStay
    <3> QED
      BY <2>1, <2>3, <3>1 DEF T
  <2>7. CASE k # 0 /\ Closed(k)
    <3>1. u = v
      BY <2>3, <2>4, <2>7 DEF Consume
    <3> QED
      BY <2>1, <2>3, <2>7, <3>1 DEF T
  <2>8. CASE k # 0 /\ Whole(k)
    <3>1. v.accepted # <<>> /\ v.accepted \in Seq(Mandate) /\ Len(v.accepted) = k
      BY <2>3, <2>4, <2>8 DEF VerifiedChain
    <3>2. Head(v.accepted).track = t
      <4>1. Head(v.accepted) = log[1] /\ 1 \in 1 .. n
        BY <1>1, <2>3, <2>8, <3>1
      <4> QED
        BY <1>1, <4>1
    <3>3. u = WalkForward(v, m)
      BY <2>4, <3>1 DEF Consume
    <3>4. u.rejections # <<>> \/ u.accepted = Append(v.accepted, m)
      BY <2>4, <3>2, <3>3, RejectionsStay
    <3>5. u.accepted = Append(v.accepted, m) => Whole(k + 1)
      BY <2>3, <2>8, <3>1
    <3> QED
      BY <2>1, <2>3, <3>4, <3>5 DEF T
  <2> QED
    BY <1>4, <2>3, <2>5, <2>6, <2>7, <2>8 DEF T
<1> HIDE DEF T
<1>5. n \in T
  <2>1. 0 .. n \subseteq T
    BY <1>1, <1>3, <1>4, StepByStep
  <2> QED
    BY <1>1, <2>1
<1>6. c = w[n]
  BY <1>2
<1>7. Whole(n)
  BY <1>1, <1>5, <1>6 DEF T
<1>8. c.accepted \in Seq(Mandate)
  <2>1. w[n] \in VerifiedChain
    BY <1>1, <1>2
  <2> QED
    BY <1>6, <2>1 DEF VerifiedChain
<1> HIDE DEF n, Mandate
<1> QED
  BY <1>1, <1>6, <1>7, <1>8
=============================================================================
