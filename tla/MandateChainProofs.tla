------------------------- MODULE MandateChainProofs -------------------------
(***************************************************************************)
(* What every log, every pin and every number of consumers obeys: types,   *)
(* the soundness of a verified chain, that nothing is ever retracted, and  *)
(* that builds with different pins agree.                                  *)
(***************************************************************************)
EXTENDS MandateChain, VerifierProofs

-----------------------------------------------------------------------------
(* A mandate that passes the rules legitimately succeeds its predecessor. *)
LEMMA ForwardSucceeds ==
  ASSUME NEW pred \in Mandate, NEW m \in Mandate, Passes(ForwardRules(pred, m))
  PROVE  Succeeds(pred, m)
<1>1. m.signers \cap ToSet(pred.successors) = m.signers
  BY ForwardPasses
<1> QED
  BY <1>1, ForwardPasses DEF Succeeds, Mandate

(* Types hold whatever is published: verifyMandateChainFromPin is total and  *)
(* reports only the reasons it declares.                                     *)
THEOREM TypeCorrect == Spec => []TypeOK
<1>1. Init => TypeOK
  <2>1. \A pin : EmptyChain(pin) \in VerifiedChain
    BY DEF EmptyChain, VerifiedChain, V2RootFailReason
  <2> QED
    BY <2>1 DEF Init, TypeOK
<1>2. TypeOK /\ [Next]_vars => TypeOK'
  <2> SUFFICES ASSUME TypeOK, [Next]_vars PROVE TypeOK'
    OBVIOUS
  <2> USE DEF TypeOK
  <2>1. CASE Tick
    BY <2>1 DEF Tick
  <2>2. ASSUME NEW m \in Envelopes, Publish(m) PROVE TypeOK'
    <3>1. \A c \in Consumer : Consume(PinOf[c], chain[c], m) \in VerifiedChain
      BY ConsumeType, ChainAssumption
    <3> QED
      BY <2>2, <3>1 DEF Publish
  <2>3. CASE UNCHANGED vars
    BY <2>3 DEF vars
  <2> QED
    BY <2>1, <2>2, <2>3 DEF Next
<1> QED
  BY <1>1, <1>2, PTL DEF Spec

-----------------------------------------------------------------------------
(* SOUNDNESS OF THE CHAIN *)

LEMMA AppendSound ==
  ASSUME NEW pin, NEW a \in Seq(Mandate), NEW m \in Mandate,
         a # <<>>, SoundFrom(pin, a), Passes(ForwardRules(Last(a), m)),
         \A k \in DOMAIN a : a[k].id # m.id
  PROVE  SoundFrom(pin, Append(a, m))
<1> DEFINE b == Append(a, m)
           n == Len(a)
<1>1. /\ n \in Nat \ {0} /\ DOMAIN a = 1 .. n /\ DOMAIN b = 1 .. n + 1
      /\ b[n + 1] = m /\ \A k \in 1 .. n : b[k] = a[k]
      /\ \A k \in 1 .. n : a[k] \in Mandate
  OBVIOUS
<1>2. Last(a) = a[n] /\ a[n] \in Mandate
  BY <1>1 DEF Last
<1>3. Succeeds(a[n], m) /\ m.track = a[n].track /\ a[n].issued <= m.issued
  BY <1>2, ForwardPasses, ForwardSucceeds
<1> HIDE DEF b, n
<1>4. b # <<>> => PinHash(b[1]) = pin
  BY <1>1 DEF SoundFrom
<1>5. ASSUME NEW k \in DOMAIN b, k > 1 PROVE Succeeds(b[k - 1], b[k])
  BY <1>1, <1>3, <1>5 DEF SoundFrom
<1>6. ASSUME NEW j \in DOMAIN b, NEW k \in DOMAIN b, j < k
      PROVE  /\ b[j].id # b[k].id
             /\ b[j].track = b[k].track
             /\ b[j].issued <= b[k].issued
  <2>1. CASE k <= n
    BY <1>1, <1>6, <2>1 DEF SoundFrom
  <2>2. CASE k = n + 1
    <3>1. j \in 1 .. n /\ b[j] = a[j] /\ b[k] = m
      BY <1>1, <1>6, <2>2
    <3>2. \A x \in Mandate : x.issued \in Nat
      BY DEF Mandate
    <3>3. a[j].issued \in Nat /\ a[n].issued \in Nat /\ m.issued \in Nat
      BY <1>1, <3>1, <3>2
    <3>4. a[j].track = a[n].track /\ a[j].issued <= a[n].issued
      <4>1. CASE j = n
        BY <3>3, <4>1
      <4>2. CASE j < n
        BY <1>1, <3>1, <4>2 DEF SoundFrom
      <4> QED
        BY <1>1, <3>1, <4>1, <4>2
    <3> QED
      BY <1>1, <1>3, <3>1, <3>3, <3>4
  <2> QED
    BY <1>1, <2>1, <2>2
<1> QED
  BY <1>4, <1>5, <1>6 DEF SoundFrom, b

LEMMA ConsumeSound ==
  ASSUME NEW pin, NEW c \in VerifiedChain, NEW m \in Mandate,
         SoundFrom(pin, c.accepted)
  PROVE  SoundFrom(pin, Consume(pin, c, m).accepted)
<1> DEFINE d == Consume(pin, c, m)
<1>1. CASE d.accepted = c.accepted
  BY <1>1
<1>2. CASE d.accepted = <<m>> /\ PinHash(m) = pin
  <2>1. DOMAIN <<m>> = {1} /\ <<m>>[1] = m
    OBVIOUS
  <2> QED
    BY <1>2, <2>1 DEF SoundFrom
<1>3. CASE /\ c.accepted # <<>> /\ d.accepted = Append(c.accepted, m)
           /\ m.id \notin AcceptedIds(c)
           /\ Passes(ForwardRules(Last(c.accepted), m))
  <2>1. \A k \in DOMAIN c.accepted : c.accepted[k].id # m.id
    BY <1>3 DEF AcceptedIds
  <2>2. c.accepted \in Seq(Mandate)
    BY DEF VerifiedChain
  <2> QED
    BY <1>3, <2>1, <2>2, AppendSound
<1> QED
  BY <1>1, <1>2, <1>3, ConsumeCases

(* A verified chain is sound for every pin and every served log. *)
THEOREM ChainIsSound == Spec => []ChainSound
<1>1. Init => ChainSound
  BY DEF Init, ChainSound, SoundFrom, EmptyChain
<1>2. TypeOK /\ ChainSound /\ [Next]_vars => ChainSound'
  <2> SUFFICES ASSUME TypeOK, ChainSound, [Next]_vars PROVE ChainSound'
    OBVIOUS
  <2>1. CASE Tick
    BY <2>1 DEF Tick, ChainSound
  <2>2. ASSUME NEW m \in Envelopes, Publish(m) PROVE ChainSound'
    <3>1. ASSUME NEW c \in Consumer
          PROVE  SoundFrom(PinOf[c], Consume(PinOf[c], chain[c], m).accepted)
      BY ConsumeSound, ChainAssumption DEF TypeOK, ChainSound
    <3>2. \A c \in Consumer : chain'[c] = Consume(PinOf[c], chain[c], m)
      BY <2>2 DEF Publish
    <3> QED
      BY <3>1, <3>2 DEF ChainSound
  <2>3. CASE UNCHANGED vars
    BY <2>3 DEF vars, ChainSound
  <2> QED
    BY <2>1, <2>2, <2>3 DEF Next
<1> QED
  BY <1>1, <1>2, TypeCorrect, PTL DEF Spec

-----------------------------------------------------------------------------
(* NOTHING IS TAKEN BACK *)

(* A consumer has a chain exactly when its root did not fail. *)
Anchored(c) == c.accepted # <<>> <=> c.rootError = "none"
AllAnchored == \A c \in Consumer : Anchored(chain[c])

LEMMA ConsumeAnchored ==
  ASSUME NEW pin, NEW c \in VerifiedChain, NEW m \in Mandate, Anchored(c)
  PROVE  /\ Anchored(Consume(pin, c, m))
         /\ c.rootError \notin {"none", "pin-not-in-log"} => Consume(pin, c, m) = c
<1>1. CASE c.accepted # <<>>
  <2>1. WalkForward(c, m).accepted \in {c.accepted, Append(c.accepted, m)}
    BY DEF WalkForward, Reject, VerifiedChain
  <2>2. WalkForward(c, m).rootError = c.rootError
    BY DEF WalkForward, Reject, VerifiedChain
  <2>3. Append(c.accepted, m) # <<>>
    BY DEF VerifiedChain
  <2> QED
    BY <1>1, <2>1, <2>2, <2>3 DEF Consume, Anchored
<1>2. CASE c.accepted = <<>> /\ c.rootError = "pin-not-in-log"
  <2>1. <<m>> # <<>>
    OBVIOUS
  <2>2. ~Passes(RootRules(m)) => FirstFailure(RootRules(m)) # "none"
    BY RulesType, FirstFailureType DEF V2RootFailReason
  <2> QED
    BY <1>2, <2>1, <2>2 DEF Consume, SeekRoot, Anchored, VerifiedChain
<1>3. CASE c.accepted = <<>> /\ c.rootError # "pin-not-in-log"
  BY <1>3 DEF Consume, Anchored
<1> QED
  BY <1>1, <1>2, <1>3

THEOREM AlwaysAnchored == Spec => []AllAnchored
<1>1. Init => AllAnchored
  BY DEF Init, AllAnchored, Anchored, EmptyChain
<1>2. TypeOK /\ AllAnchored /\ [Next]_vars => AllAnchored'
  <2> SUFFICES ASSUME TypeOK, AllAnchored, [Next]_vars PROVE AllAnchored'
    OBVIOUS
  <2>1. CASE Tick
    BY <2>1 DEF Tick, AllAnchored
  <2>2. ASSUME NEW m \in Envelopes, Publish(m) PROVE AllAnchored'
    <3>1. \A c \in Consumer : Anchored(Consume(PinOf[c], chain[c], m))
      BY ConsumeAnchored, ChainAssumption DEF TypeOK, AllAnchored
    <3> QED
      BY <2>2, <3>1 DEF Publish, AllAnchored
  <2>3. CASE UNCHANGED vars
    BY <2>3 DEF vars, AllAnchored
  <2> QED
    BY <2>1, <2>2, <2>3 DEF Next
<1> QED
  BY <1>1, <1>2, TypeCorrect, PTL DEF Spec

LEMMA ConsumePrefix ==
  ASSUME NEW pin, NEW c \in VerifiedChain, NEW m \in Mandate
  PROVE  IsPrefix(c.accepted, Consume(pin, c, m).accepted)
<1> DEFINE s == c.accepted
           t == Consume(pin, c, m).accepted
<1>1. s \in Seq(Mandate)
  BY DEF VerifiedChain
<1>2. t = s \/ t = Append(s, m)
  BY ConsumeGrows
<1> HIDE DEF s, t
<1> QED
  BY <1>1, <1>2 DEF IsPrefix, s, t

(* No later mandate makes a consumer forget one it accepted, and one that    *)
(* failed closed stays closed.                                               *)
THEOREM NeverRetracted == Spec => NothingRetracted
<1>1. TypeOK /\ AllAnchored /\ [Next]_vars =>
        [\A c \in Consumer :
           /\ IsPrefix(chain[c].accepted, chain'[c].accepted)
           /\ chain[c].rootError \notin {"none", "pin-not-in-log"}
                => chain'[c] = chain[c]]_vars
  <2> SUFFICES ASSUME TypeOK, AllAnchored, Next, NEW c \in Consumer
               PROVE  /\ IsPrefix(chain[c].accepted, chain'[c].accepted)
                      /\ chain[c].rootError \notin {"none", "pin-not-in-log"}
                           => chain'[c] = chain[c]
    OBVIOUS
  <2>1. CASE Tick
    <3>1. chain' = chain /\ chain[c].accepted \in Seq(Mandate)
      BY <2>1 DEF Tick, TypeOK, VerifiedChain
    <3> QED
      BY <3>1 DEF IsPrefix
  <2>2. ASSUME NEW m \in Envelopes, Publish(m)
        PROVE  /\ IsPrefix(chain[c].accepted, chain'[c].accepted)
               /\ chain[c].rootError \notin {"none", "pin-not-in-log"}
                    => chain'[c] = chain[c]
    <3>1. chain'[c] = Consume(PinOf[c], chain[c], m)
      BY <2>2 DEF Publish
    <3> QED
      BY <3>1, ConsumePrefix, ConsumeAnchored, ChainAssumption DEF TypeOK, AllAnchored
  <2> QED
    BY <2>1, <2>2 DEF Next
<1> QED
  BY <1>1, TypeCorrect, AlwaysAnchored, PTL DEF Spec, NothingRetracted

-----------------------------------------------------------------------------
(* BUILDS AGREE *)

(* What a consumer accepted was served. *)
FromLog == \A c \in Consumer : \A k \in DOMAIN chain[c].accepted :
             \E i \in DOMAIN log : log[i] = chain[c].accepted[k]

THEOREM AcceptedWasServed == Spec => []FromLog
<1>1. Init => FromLog
  BY DEF Init, FromLog, EmptyChain
<1>2. TypeOK /\ FromLog /\ [Next]_vars => FromLog'
  <2> SUFFICES ASSUME TypeOK, FromLog, [Next]_vars PROVE FromLog'
    OBVIOUS
  <2>1. CASE Tick
    BY <2>1 DEF Tick, FromLog
  <2>2. ASSUME NEW m \in Envelopes, Publish(m),
               NEW c \in Consumer, NEW k \in DOMAIN chain'[c].accepted
        PROVE  \E i \in DOMAIN log' : log'[i] = chain'[c].accepted[k]
    <3> DEFINE a == chain[c].accepted
               b == chain'[c].accepted
    <3>1. /\ log' = Append(log, m) /\ log \in Seq(Envelopes)
          /\ a \in Seq(Mandate)
      BY <2>2 DEF Publish, TypeOK, VerifiedChain
    <3>2. /\ log'[Len(log) + 1] = m /\ Len(log) + 1 \in DOMAIN log'
          /\ \A i \in DOMAIN log : i \in DOMAIN log' /\ log'[i] = log[i]
      BY <3>1
    <3>3. b = a \/ b = Append(a, m)
      <4>1. chain'[c] = Consume(PinOf[c], chain[c], m)
        BY <2>2 DEF Publish
      <4>2. chain[c] \in VerifiedChain /\ m \in Mandate
        BY ChainAssumption DEF TypeOK
      <4> QED
        BY <4>1, <4>2, ConsumeGrows
    <3>4. b[k] = m \/ (k \in DOMAIN a /\ b[k] = a[k])
      <4> HIDE DEF a, b
      <4>1. k \in DOMAIN b
        BY <2>2 DEF b
      <4> QED
        BY <4>1, <3>1, <3>3
    <3>5. k \in DOMAIN a => \E i \in DOMAIN log : log[i] = a[k]
      BY DEF FromLog
    <3> QED
      BY <3>2, <3>4, <3>5
  <2>3. CASE UNCHANGED vars
    BY <2>3 DEF vars, FromLog
  <2> QED
    BY <2>1, <2>2, <2>3 DEF Next, FromLog
<1> QED
  BY <1>1, <1>2, TypeCorrect, PTL DEF Spec

(* Whether a walking consumer takes a mandate with a new id depends on the   *)
(* last mandate it accepted and on nothing else.                             *)
Takes(last, m) == m.defect # "shape" /\ Passes(ForwardRules(last, m))

LEMMA WalkDependsOnLast ==
  ASSUME NEW pin, NEW c \in VerifiedChain, NEW m \in Mandate,
         c.accepted # <<>>, SoundFrom(pin, c.accepted), m.id \notin AcceptedIds(c)
  PROVE  Consume(pin, c, m).accepted =
           IF Takes(Last(c.accepted), m) THEN Append(c.accepted, m) ELSE c.accepted
<1> DEFINE a == c.accepted
<1>1. Head(a).track = Last(a).track
  <2>1. a \in Seq(Mandate) /\ Len(a) \in Nat \ {0} /\ DOMAIN a = 1 .. Len(a)
    BY DEF VerifiedChain
  <2>2. Head(a) = a[1] /\ Last(a) = a[Len(a)]
    BY <2>1 DEF Last
  <2> HIDE DEF a
  <2>3. CASE Len(a) = 1
    BY <2>2, <2>3
  <2>4. CASE 1 < Len(a)
    <3>1. a[1].track = a[Len(a)].track
      BY <2>1, <2>4 DEF SoundFrom, a
    <3> QED
      BY <2>2, <3>1
  <2> QED
    BY <2>1, <2>3, <2>4
<1>2. Passes(ForwardRules(Last(a), m)) => m.track = Head(a).track
  BY <1>1, ForwardPasses
<1> QED
  BY <1>2 DEF Consume, WalkForward, Reject, Takes, VerifiedChain

(* The tail of a chain that has grown by one mandate. *)
LEMMA SuffixFacts ==
  ASSUME NEW S, NEW a \in Seq(S), NEW m \in S, NEW k \in DOMAIN a
  PROVE  /\ Last(SuffixFrom(a, k)) = Last(a)
         /\ SuffixFrom(Append(a, m), k) = Append(SuffixFrom(a, k), m)
<1> DEFINE n == Len(a)
           t == SuffixFrom(a, k)
           u == SuffixFrom(Append(a, m), k)
           v == Append(t, m)
<1> DEFINE w == Append(a, m)
<1>1. /\ n \in Nat /\ k \in 1 .. n /\ w \in Seq(S) /\ Len(w) = n + 1 /\ w[n + 1] = m
      /\ \A j \in 1 .. n : w[j] = a[j]
  OBVIOUS
<1> HIDE DEF w, n
<1>2. t \in Seq(S) /\ Len(t) = n - k + 1 /\ \A i \in 1 .. n - k + 1 : t[i] = a[k + i - 1]
  BY <1>1 DEF SuffixFrom, n
<1>3. u \in Seq(S) /\ Len(u) = n - k + 2 /\ \A i \in 1 .. n - k + 2 : u[i] = w[k + i - 1]
  BY <1>1 DEF SuffixFrom, w
<1>4. Last(t) = Last(a)
  <2>1. t[n - k + 1] = a[k + (n - k + 1) - 1] /\ k + (n - k + 1) - 1 = n
    BY <1>1, <1>2
  <2> HIDE DEF t
  <2> QED
    BY <1>2, <2>1 DEF Last, n
<1> HIDE DEF t, u
<1>5. /\ v \in Seq(S) /\ Len(v) = n - k + 2 /\ v[n - k + 2] = m
      /\ \A i \in 1 .. n - k + 1 : v[i] = t[i]
  BY <1>1, <1>2
<1> HIDE DEF v
<1>6. ASSUME NEW i \in 1 .. n - k + 2 PROVE u[i] = v[i]
  <2>1. CASE i = n - k + 2
    <3>1. k + i - 1 = n + 1
      BY <1>1, <2>1
    <3> QED
      BY <1>1, <1>3, <1>5, <2>1, <3>1
  <2>2. CASE i \in 1 .. n - k + 1
    <3>1. k + i - 1 \in 1 .. n
      BY <1>1, <2>2
    <3> QED
      BY <1>1, <1>2, <1>3, <1>5, <2>2, <3>1
  <2> QED
    BY <1>1, <2>1, <2>2
<1>7. u = v
  BY <1>1, <1>3, <1>5, <1>6
<1> QED
  BY <1>4, <1>7 DEF t, u, v, w

(* One consumer's chain is the tail of another's, or they share no root. *)
Agree(a, b) ==
  \A k \in DOMAIN a : b # <<>> /\ a[k] = Head(b) => b = SuffixFrom(a, k)

LEMMA AgreeStep ==
  ASSUME NEW p, NEW q, NEW c \in VerifiedChain, NEW d \in VerifiedChain,
         NEW m \in Mandate,
         SoundFrom(p, c.accepted), SoundFrom(q, d.accepted),
         \A k \in DOMAIN c.accepted : c.accepted[k].id # m.id,
         \A k \in DOMAIN d.accepted : d.accepted[k].id # m.id,
         Agree(c.accepted, d.accepted)
  PROVE  Agree(Consume(p, c, m).accepted, Consume(q, d, m).accepted)
<1> DEFINE a == c.accepted   a2 == Consume(p, c, m).accepted
           b == d.accepted   b2 == Consume(q, d, m).accepted
<1>1. a \in Seq(Mandate) /\ b \in Seq(Mandate)
  BY DEF VerifiedChain
<1>2. m.id \notin AcceptedIds(c) /\ m.id \notin AcceptedIds(d)
  BY DEF AcceptedIds
<1>3. a2 = a \/ a2 = Append(a, m)
  BY ConsumeGrows
<1>4. b2 = b \/ b2 = Append(b, m)
  BY ConsumeGrows
<1>5. a # <<>> => a2 = IF Takes(Last(a), m) THEN Append(a, m) ELSE a
  BY <1>2, WalkDependsOnLast
<1>6. b # <<>> => b2 = IF Takes(Last(b), m) THEN Append(b, m) ELSE b
  BY <1>2, WalkDependsOnLast
<1> HIDE DEF a, a2, b, b2
<1>7. SUFFICES ASSUME NEW k \in DOMAIN a2, b2 # <<>>, a2[k] = Head(b2)
               PROVE  b2 = SuffixFrom(a2, k)
  BY DEF Agree, a2, b2
<1>8. CASE b = <<>>
  <2>1. b2 = <<m>> /\ Head(b2) = m
    BY <1>4, <1>7, <1>8
  <2>2. k = Len(a2) /\ k \in Nat
    <3>1. a2[k] = m
      BY <1>7, <2>1
    <3>2. k \in DOMAIN a => a[k] # m
      BY DEF a
    <3>3. k \in DOMAIN a => a2[k] = a[k]
      BY <1>1, <1>3
    <3>4. k = Len(a) + 1 /\ Len(a2) = Len(a) + 1
      BY <1>1, <1>3, <1>7, <3>1, <3>2, <3>3
    <3> QED
      BY <1>1, <3>4
  <2>3. a2 \in Seq(Mandate)
    BY <1>1, <1>3
  <2>4. SuffixFrom(a2, k) = <<a2[k]>>
    <3> DEFINE t == SuffixFrom(a2, k)
    <3>1. t \in Seq(Mandate) /\ Len(t) = 1 /\ t[1] = a2[k]
      BY <1>7, <2>2, <2>3 DEF SuffixFrom
    <3> HIDE DEF t
    <3> QED
      BY <3>1 DEF t
  <2> QED
    BY <1>7, <2>1, <2>4
<1>9. CASE b # <<>>
  <2>1. Head(b2) = Head(b) /\ Head(b) # m
    <3>1. Head(b) = b[1] /\ 1 \in DOMAIN b
      BY <1>1, <1>9
    <3>2. b[1] # m
      BY <3>1 DEF b
    <3> QED
      BY <1>1, <1>4, <1>9, <3>1, <3>2
  <2>2. k \in DOMAIN a /\ a2[k] = a[k]
    BY <1>1, <1>3, <1>7, <2>1
  <2>3. b = SuffixFrom(a, k)
    BY <1>7, <1>9, <2>1, <2>2 DEF Agree, a, b
  <2>4. a # <<>> /\ Last(b) = Last(a)
    BY <1>1, <2>2, <2>3, SuffixFacts
  <2>5. CASE Takes(Last(a), m)
    <3>1. a2 = Append(a, m) /\ b2 = Append(b, m)
      BY <1>5, <1>6, <1>9, <2>4, <2>5
    <3> QED
      BY <1>1, <2>2, <2>3, <3>1, SuffixFacts
  <2>6. CASE ~Takes(Last(a), m)
    BY <1>5, <1>6, <1>9, <2>3, <2>4, <2>6
  <2> QED
    BY <2>5, <2>6
<1> QED
  BY <1>8, <1>9

(* As long as mandate ids are fresh, pins are consistent with each other:    *)
(* whatever two builds both see of a track's history, they see identically.  *)
THEOREM BuildsAgree == Spec => []PinsAgree
<1> DEFINE Pairwise == FreshIds =>
             \A c, d \in Consumer : Agree(chain[c].accepted, chain[d].accepted)
<1>1. Init => Pairwise
  BY DEF Init, Agree, EmptyChain
<1>2. TypeOK /\ ChainSound /\ FromLog /\ Pairwise /\ [Next]_vars => Pairwise'
  <2> SUFFICES ASSUME TypeOK, ChainSound, FromLog, Pairwise, [Next]_vars
               PROVE  Pairwise'
    OBVIOUS
  <2>1. CASE Tick
    BY <2>1 DEF Tick, FreshIds
  <2>2. ASSUME NEW m \in Envelopes, Publish(m), FreshIds',
               NEW c \in Consumer, NEW d \in Consumer
        PROVE  Agree(chain'[c].accepted, chain'[d].accepted)
    <3>0. FreshIds /\ \A i \in DOMAIN log : log[i].id # m.id
      <4>1. /\ log \in Seq(Envelopes) /\ log' = Append(log, m)
            /\ \A i, j \in DOMAIN log' : i # j => log'[i].id # log'[j].id
        BY <2>2 DEF TypeOK, Publish, FreshIds
      <4>2. \A i \in DOMAIN log : i \in DOMAIN log' /\ log'[i] = log[i]
        BY <4>1
      <4>3. /\ Len(log) + 1 \in DOMAIN log' /\ log'[Len(log) + 1] = m
            /\ \A i \in DOMAIN log : i # Len(log) + 1
        BY <4>1
      <4> QED
        BY <4>1, <4>2, <4>3 DEF FreshIds
    <3>1. \A e \in Consumer : \A k \in DOMAIN chain[e].accepted :
            chain[e].accepted[k].id # m.id
      BY <3>0 DEF FromLog
    <3>5. Agree(chain[c].accepted, chain[d].accepted)
      BY <3>0
    <3>2. /\ chain'[c] = Consume(PinOf[c], chain[c], m)
          /\ chain'[d] = Consume(PinOf[d], chain[d], m)
      BY <2>2 DEF Publish
    <3>3. m \in Mandate /\ chain[c] \in VerifiedChain /\ chain[d] \in VerifiedChain
      BY ChainAssumption DEF TypeOK
    <3>4. SoundFrom(PinOf[c], chain[c].accepted) /\ SoundFrom(PinOf[d], chain[d].accepted)
      BY DEF ChainSound
    <3> QED
      BY <3>1, <3>2, <3>3, <3>4, <3>5, AgreeStep
  <2>3. CASE UNCHANGED vars
    BY <2>3 DEF vars, FreshIds
  <2> QED
    BY <2>1, <2>2, <2>3 DEF Next
<1>3. Pairwise => PinsAgree
  BY DEF PinsAgree, Agree
<1> HIDE DEF Pairwise
<1> QED
  BY <1>1, <1>2, <1>3, TypeCorrect, ChainIsSound, AcceptedWasServed, PTL DEF Spec

-----------------------------------------------------------------------------
(* NOTHING POISONS THE LOG *)

(* Reading one mandate more is verifying the whole log again. *)
Replays == \A c \in Consumer : chain[c] = VerifyMandateChainFromPin(PinOf[c], log)

(* However many mandates a consumer has read one by one, it knows what it    *)
(* would know from verifying the log in one go (verifier.ts, the loop).      *)
THEOREM ChainIsReplayed == Spec => []Replays
<1>1. Init => Replays
  BY VerifyEmpty DEF Init, Replays
<1>2. TypeOK /\ Replays /\ [Next]_vars => Replays'
  <2> SUFFICES ASSUME TypeOK, Replays, [Next]_vars PROVE Replays'
    OBVIOUS
  <2>1. CASE Tick
    BY <2>1 DEF Tick, Replays
  <2>2. ASSUME NEW m \in Envelopes, Publish(m), NEW c \in Consumer
        PROVE  chain'[c] = VerifyMandateChainFromPin(PinOf[c], log')
    <3>1. log \in Seq(Mandate) /\ m \in Mandate
      BY ChainAssumption DEF TypeOK
    <3>2. log' = Append(log, m) /\ chain'[c] = Consume(PinOf[c], chain[c], m)
      BY <2>2 DEF Publish
    <3> QED
      BY <3>1, <3>2, VerifyAppend DEF Replays
  <2>3. CASE UNCHANGED vars
    BY <2>3 DEF vars, Replays
  <2> QED
    BY <2>1, <2>2, <2>3 DEF Next, Replays
<1> QED
  BY <1>1, <1>2, TypeCorrect, PTL DEF Spec

(* What the next mandate does to a verdict depends on what was accepted and  *)
(* on the root, not on what was rejected.                                    *)
SameVerdict(c, d) == c.accepted = d.accepted /\ c.rootError = d.rootError

LEMMA ConsumeSameVerdict ==
  ASSUME NEW pin, NEW c \in VerifiedChain, NEW d \in VerifiedChain, NEW m \in Mandate,
         SameVerdict(c, d)
  PROVE  SameVerdict(Consume(pin, c, m), Consume(pin, d, m))
<1> USE DEF SameVerdict
<1>1. CASE c.accepted # <<>>
  <2>1. AcceptedIds(c) = AcceptedIds(d)
    BY DEF AcceptedIds
  <2>2. SameVerdict(WalkForward(c, m), WalkForward(d, m))
    BY <2>1 DEF WalkForward, Reject, VerifiedChain
  <2> QED
    BY <1>1, <2>2 DEF Consume
<1>2. CASE c.accepted = <<>>
  BY <1>2 DEF Consume, SeekRoot, VerifiedChain
<1> QED
  BY <1>1, <1>2

(* A mandate that is neither accepted nor the pin leaves the verdict alone. *)
LEMMA ConsumeInert ==
  ASSUME NEW pin, NEW c \in VerifiedChain, NEW m \in Mandate,
         ~(HasHash(m) /\ PinHash(m) = pin)
  PROVE  \/ Consume(pin, c, m).accepted = Append(c.accepted, m)
         \/ SameVerdict(Consume(pin, c, m), c)
<1> USE DEF SameVerdict
<1>1. CASE c.accepted # <<>>
  BY <1>1 DEF Consume, WalkForward, Reject, VerifiedChain
<1>2. CASE c.accepted = <<>>
  BY <1>2 DEF Consume, SeekRoot
<1> QED
  BY <1>1, <1>2

(* Each mandate of the log was accepted, claims to be the pin, or has no     *)
(* effect on the verdict.                                                    *)
HarmlessAt(pin, s, c, i) ==
  \/ s[i] \in ToSet(c.accepted)
  \/ HasHash(s[i]) /\ PinHash(s[i]) = pin
  \/ SameVerdict(VerifyMandateChainFromPin(pin, RemoveAt(s, i)), c)

LEMMA HarmlessStep ==
  ASSUME NEW pin, NEW s \in Seq(Mandate), NEW c \in VerifiedChain, NEW m \in Mandate,
         c = VerifyMandateChainFromPin(pin, s),
         \A i \in DOMAIN s : HarmlessAt(pin, s, c, i)
  PROVE  \A i \in DOMAIN Append(s, m) : HarmlessAt(pin, Append(s, m), Consume(pin, c, m), i)
<1> DEFINE n == Len(s)
           t == Append(s, m)
           d == Consume(pin, c, m)
<1>1. /\ n \in Nat /\ DOMAIN s = 1 .. n /\ DOMAIN t = 1 .. n + 1
      /\ t[n + 1] = m /\ \A i \in 1 .. n : t[i] = s[i]
  OBVIOUS
<1>2. ToSet(c.accepted) \subseteq ToSet(d.accepted)
  <2>1. c.accepted \in Seq(Mandate)
    BY DEF VerifiedChain
  <2>2. d.accepted = c.accepted \/ d.accepted = Append(c.accepted, m)
    BY ConsumeGrows
  <2> HIDE DEF d
  <2> QED
    BY <2>1, <2>2 DEF ToSet
<1>3. HarmlessAt(pin, t, d, n + 1)
  <2>1. d.accepted = Append(c.accepted, m) => m \in ToSet(d.accepted)
    <3>1. c.accepted \in Seq(Mandate)
      BY DEF VerifiedChain
    <3> HIDE DEF d
    <3> QED
      BY <3>1 DEF ToSet
  <2>2. VerifyMandateChainFromPin(pin, RemoveAt(t, n + 1)) = c
    BY RemoveFromAppend
  <2>3. SameVerdict(d, c) => SameVerdict(c, d)
    BY DEF SameVerdict
  <2> HIDE DEF t, d
  <2> QED
    BY <1>1, <2>1, <2>2, <2>3, ConsumeInert DEF HarmlessAt, d
<1>4. ASSUME NEW i \in 1 .. n PROVE HarmlessAt(pin, t, d, i)
  <2>1. HarmlessAt(pin, s, c, i) /\ t[i] = s[i]
    BY <1>1
  <2> DEFINE u == RemoveAt(s, i)
  <2>2. u \in Seq(Mandate) /\ RemoveAt(t, i) = Append(u, m)
    BY <1>1, RemoveFromAppend
  <2> HIDE DEF u, t
  <2>3. /\ VerifyMandateChainFromPin(pin, u) \in VerifiedChain
        /\ VerifyMandateChainFromPin(pin, Append(u, m))
             = Consume(pin, VerifyMandateChainFromPin(pin, u), m)
    BY <2>2, VerifyAppend
  <2>4. SameVerdict(VerifyMandateChainFromPin(pin, u), c)
          => SameVerdict(VerifyMandateChainFromPin(pin, RemoveAt(t, i)), d)
    BY <2>2, <2>3, ConsumeSameVerdict
  <2> QED
    BY <1>2, <2>1, <2>4 DEF HarmlessAt, u
<1> HIDE DEF t, d, n
<1> QED
  BY <1>1, <1>3, <1>4 DEF t, d

(* A mandate that was not accepted, and is not the pin, might as well not    *)
(* have been served.                                                         *)
THEOREM NeverPoisoned == Spec => []NothingPoisons
<1> DEFINE Harmless == \A c \in Consumer : \A i \in DOMAIN log :
                         HarmlessAt(PinOf[c], log, chain[c], i)
<1>1. Init => Harmless
  BY DEF Init
<1>2. TypeOK /\ Replays /\ Harmless /\ [Next]_vars => Harmless'
  <2> SUFFICES ASSUME TypeOK, Replays, Harmless, [Next]_vars PROVE Harmless'
    OBVIOUS
  <2>1. CASE Tick
    BY <2>1 DEF Tick
  <2>2. ASSUME NEW m \in Envelopes, Publish(m), NEW c \in Consumer
        PROVE  \A i \in DOMAIN log' : HarmlessAt(PinOf[c], log', chain'[c], i)
    <3>1. log \in Seq(Mandate) /\ m \in Mandate /\ chain[c] \in VerifiedChain
      BY ChainAssumption DEF TypeOK
    <3>2. log' = Append(log, m) /\ chain'[c] = Consume(PinOf[c], chain[c], m)
      BY <2>2 DEF Publish
    <3> QED
      BY <3>1, <3>2, HarmlessStep DEF Replays
  <2>3. CASE UNCHANGED vars
    BY <2>3 DEF vars
  <2> QED
    BY <2>1, <2>2, <2>3 DEF Next
<1>3. Harmless => NothingPoisons
  BY DEF NothingPoisons, HarmlessAt, SameVerdict
<1> HIDE DEF Harmless
<1> QED
  BY <1>1, <1>2, <1>3, TypeCorrect, ChainIsReplayed, PTL DEF Spec

-----------------------------------------------------------------------------
(* WHO HAS AUTHORITY *)

LEMMA FallsBack ==
  ASSUME NEW c \in VerifiedChain, NEW d \in VerifiedChain, NEW m,
         NEW t \in Nat, NEW u \in Nat, t <= u,
         d.accepted \in {c.accepted, Append(c.accepted, m)},
         HasAuthority(c, t), HasAuthority(d, u),
         AuthorityPosition(d, u) < AuthorityPosition(c, t)
  PROVE  CurrentAuthority(c, t).expires <= u
<1> DEFINE k == AuthorityPosition(c, t)
           x == c.accepted[k]
<1>1. k \in DOMAIN c.accepted /\ LiveAt(x, t)
  BY AuthorityIsNewest DEF LivePositions
<1>2. k \in DOMAIN d.accepted /\ d.accepted[k] = x
  BY <1>1 DEF VerifiedChain
<1>3. x.issued \in Nat /\ x.expires \in Nat
  <2>1. x \in Mandate
    BY <1>1 DEF VerifiedChain
  <2>2. \A y \in Mandate : y.issued \in Nat /\ y.expires \in Nat
    BY DEF Mandate
  <2> QED
    BY <2>1, <2>2
<1>4. k \notin LivePositions(d, u)
  <2>1. AuthorityPosition(d, u) \in DOMAIN d.accepted /\ k \in DOMAIN c.accepted
    BY AuthorityIsNewest DEF LivePositions
  <2>2. DOMAIN c.accepted \subseteq Nat /\ DOMAIN d.accepted \subseteq Nat
    BY DEF VerifiedChain
  <2> QED
    BY <2>1, <2>2, AuthorityIsNewest
<1>5. ~LiveAt(x, u)
  BY <1>2, <1>4 DEF LivePositions
<1> QED
  BY <1>1, <1>3, <1>5 DEF LiveAt, CurrentAuthority

(* Authority passes back to an older mandate only when the newer one expired. *)
THEOREM AuthorityFallsBack == Spec => AuthorityFallsBackOnlyOnExpiry
<1>1. TypeOK /\ TypeOK' /\ [Next]_vars =>
        [\A c \in Consumer :
           /\ HasAuthority(chain[c], now)
           /\ HasAuthority(chain[c], now)'
           /\ AuthorityPosition(chain[c], now)' < AuthorityPosition(chain[c], now)
           => CurrentAuthority(chain[c], now).expires <= now']_vars
  <2> SUFFICES ASSUME TypeOK, TypeOK', Next, NEW c \in Consumer,
                      HasAuthority(chain[c], now),
                      HasAuthority(chain'[c], now'),
                      AuthorityPosition(chain'[c], now')
                        < AuthorityPosition(chain[c], now)
               PROVE  CurrentAuthority(chain[c], now).expires <= now'
    OBVIOUS
  <2>1. /\ chain[c] \in VerifiedChain /\ chain'[c] \in VerifiedChain
        /\ now \in Nat /\ now' \in Nat
    BY DEF TypeOK
  <2>2. CASE Tick
    <3>1. chain'[c] = chain[c] /\ now <= now'
      BY <2>1, <2>2 DEF Tick
    <3> QED
      BY <2>1, <3>1, FallsBack
  <2>3. ASSUME NEW m \in Envelopes, Publish(m)
        PROVE  CurrentAuthority(chain[c], now).expires <= now'
    <3>1. chain'[c].accepted \in {chain[c].accepted, Append(chain[c].accepted, m)}
      BY <2>1, <2>3, ConsumeGrows, ChainAssumption DEF Publish
    <3>2. now <= now'
      BY <2>1, <2>3 DEF Publish
    <3> QED
      BY <2>1, <3>1, <3>2, FallsBack
  <2> QED
    BY <2>2, <2>3 DEF Next
<1> QED
  BY <1>1, TypeCorrect, PTL DEF Spec, AuthorityFallsBackOnlyOnExpiry
=============================================================================
