------------------------- MODULE EndorsementProofs -------------------------
(***************************************************************************)
(* What the holder of a mandate endorses.  Leases: what bounds the trust   *)
(* in a hot key, for any skew, any clock offsets and any mandates and      *)
(* leases a host may serve.  Releases: what the walk over a log of them    *)
(* keeps, and what a mandate that turns up late can change, for any logs.  *)
(***************************************************************************)
EXTENDS CaLease, ReleaseLog, VerifierProofs

-----------------------------------------------------------------------------
(* LEASES *)

(* What a lease that passes the rules satisfies. *)
LEMMA LeasePasses ==
  ASSUME NEW e, NEW ch, NEW t, NEW skew, Passes(LeaseRules(e, ch, t, skew))
  PROVE  /\ e.defect \notin {"envelope", "dates", "signature"}
         /\ e.notBefore < e.notAfter
         /\ e.notBefore - skew <= t
         /\ t < e.notAfter + skew
         /\ HasAuthority(ch, t)
         /\ e.signedBy \in e.signers
         /\ e.signedBy = CurrentAuthority(ch, t).holder
<1> DEFINE R == LeaseRules(e, ch, t, skew)
<1>1. \A k \in 1 .. 8 : R[k] = "ok"
  <2>1. DOMAIN R = 1 .. 8
    BY DEF LeaseRules
  <2> QED
    BY <2>1 DEF Passes
<1>2. R[1] = "ok" /\ R[2] = "ok" /\ R[3] = "ok" /\ R[4] = "ok"
      /\ R[5] = "ok" /\ R[6] = "ok" /\ R[7] = "ok" /\ R[8] = "ok"
  BY <1>1
<1>3. e.defect # "envelope" /\ e.defect # "signature"
  BY <1>2 DEF LeaseRules, Rule
<1>4. e.defect # "dates" /\ e.notBefore < e.notAfter
  BY <1>2 DEF LeaseRules, Rule
<1>5. e.notBefore - skew <= t
  BY <1>2 DEF LeaseRules, Rule
<1>6. t < e.notAfter + skew
  BY <1>2 DEF LeaseRules, Rule
<1>7. HasAuthority(ch, t)
  BY <1>2 DEF LeaseRules, Rule
<1>8. e.signedBy \in e.signers
  BY <1>2 DEF LeaseRules, Rule
<1>9. e.signedBy = CurrentAuthority(ch, t).holder
  BY <1>2, <1>7 DEF LeaseRules, Rule
<1> QED
  BY <1>3, <1>4, <1>5, <1>6, <1>7, <1>8, <1>9

(* ... and the converse. *)
LEMMA LeaseAdmitted ==
  ASSUME NEW e, NEW ch, NEW t, NEW skew,
         e.defect \notin {"envelope", "dates", "signature"},
         e.notBefore < e.notAfter,
         e.notBefore - skew <= t,
         t < e.notAfter + skew,
         HasAuthority(ch, t),
         e.signedBy \in e.signers,
         e.signedBy = CurrentAuthority(ch, t).holder
  PROVE  Passes(LeaseRules(e, ch, t, skew))
BY DEF Passes, LeaseRules, Rule

-----------------------------------------------------------------------------
(* Types hold whatever mandates and leases are served. *)
THEOREM TypeCorrect == Spec => []TypeOK
<1>1. Init => TypeOK
  <2>1. EmptyChain(Pin) \in VerifiedChain
    BY DEF EmptyChain, VerifiedChain, V2RootFailReason
  <2> QED
    BY <2>1, LeaseAssumption DEF Init, TypeOK
<1>2. TypeOK /\ [Next]_vars => TypeOK'
  <2> SUFFICES ASSUME TypeOK, [Next]_vars PROVE TypeOK'
    OBVIOUS
  <2> USE DEF TypeOK
  <2>1. CASE Tick
    BY <2>1 DEF Tick
  <2>2. ASSUME NEW m \in Mandates, ServeMandate(m) PROVE TypeOK'
    <3>1. Consume(Pin, chain, m) \in VerifiedChain
      BY LeaseAssumption, ConsumeType
    <3> QED
      BY <2>2, <3>1 DEF ServeMandate
  <2>3. ASSUME NEW e \in Leases, ServeLease(e) PROVE TypeOK'
    BY <2>3 DEF ServeLease
  <2>4. CASE UNCHANGED vars
    BY <2>4 DEF vars
  <2> QED
    BY <2>1, <2>2, <2>3, <2>4 DEF Next
<1> QED
  BY <1>1, <1>2, PTL DEF Spec

(* A lease in the log has the type of a lease; the clock is an integer. *)
LEMMA LeaseType ==
  ASSUME TypeOK
  PROVE  /\ \A i \in DOMAIN leases :
              /\ leases[i] \in Lease
              /\ leases[i].notBefore \in Nat
              /\ leases[i].notAfter \in Nat
         /\ \A c \in Consumer : Offset[c] \in Int /\ Clock(c) \in Int
         /\ now \in Int /\ Skew \in Nat
<1>1. \A i \in DOMAIN leases : leases[i] \in Lease
  BY LeaseAssumption DEF TypeOK
<1>2. \A i \in DOMAIN leases : leases[i].notBefore \in Nat /\ leases[i].notAfter \in Nat
  BY <1>1 DEF Lease
<1> QED
  BY <1>1, <1>2, LeaseAssumption DEF TypeOK, Clock

(* Trust never strays further from its justification than the skew allows:   *)
(* twice the skew at the edges of the window, once for the authority.        *)
THEOREM TrustBounded == Spec => []TrustIsBounded
<1>1. TypeOK => TrustIsBounded
  <2> SUFFICES ASSUME TypeOK, NEW c \in Consumer, Tolerated(c), NEW i \in ValidAt(c)
               PROVE  /\ leases[i].notBefore - 2 * Skew <= now
                      /\ now < leases[i].notAfter + 2 * Skew
                      /\ HeldNear(leases[i].signedBy)
    BY DEF TrustIsBounded
  <2> DEFINE t == Clock(c)
  <2>1. i \in DOMAIN leases /\ Passes(LeaseRules(leases[i], chain, t, Skew))
    BY DEF ValidAt
  <2>2. /\ leases[i].notBefore - Skew <= t
        /\ t < leases[i].notAfter + Skew
        /\ HasAuthority(chain, t)
        /\ leases[i].signedBy = CurrentAuthority(chain, t).holder
    BY <2>1, LeasePasses
  <2>3. now - Skew <= t /\ t <= now + Skew /\ t \in Int
    BY LeaseType DEF Tolerated, Clock
  <2>4. HeldNear(leases[i].signedBy)
    <3>1. t \in now - Skew .. now + Skew
      BY <2>3, LeaseType
    <3> QED
      BY <3>1, <2>2 DEF HeldNear
  <2> HIDE DEF t
  <2> QED
    BY <2>1, <2>2, <2>3, <2>4, LeaseType
<1> QED
  BY <1>1, TypeCorrect, PTL

(* A clock within the skew never turns away a lease that is truly good. *)
THEOREM GoodLeaseTolerated == Spec => []SkewTolerated
<1>1. TypeOK => SkewTolerated
  <2> SUFFICES ASSUME TypeOK, NEW c \in Consumer, NEW i \in DOMAIN leases, Tolerated(c),
                      HasAuthority(chain, now), HasAuthority(chain, Clock(c)),
                      CurrentAuthority(chain, now).holder
                        = CurrentAuthority(chain, Clock(c)).holder,
                      Passes(LeaseRules(leases[i], chain, now, 0))
               PROVE  Passes(LeaseRules(leases[i], chain, Clock(c), Skew))
    BY DEF SkewTolerated, ValidAt
  <2>1. /\ leases[i].defect \notin {"envelope", "dates", "signature"}
        /\ leases[i].notBefore < leases[i].notAfter
        /\ leases[i].notBefore - 0 <= now
        /\ now < leases[i].notAfter + 0
        /\ leases[i].signedBy \in leases[i].signers
        /\ leases[i].signedBy = CurrentAuthority(chain, now).holder
    BY LeasePasses
  <2>2. now - Skew <= Clock(c) /\ Clock(c) <= now + Skew
    BY LeaseType DEF Tolerated, Clock
  <2>3. /\ leases[i].notBefore - Skew <= Clock(c)
        /\ Clock(c) < leases[i].notAfter + Skew
    BY <2>1, <2>2, LeaseType
  <2> QED
    BY <2>1, <2>3, LeaseAdmitted
<1> QED
  BY <1>1, TypeCorrect, PTL

(* A hot key all of whose leases have run out is never trusted again until a *)
(* new lease for it is served: no mandate and no clock revives it.           *)
THEOREM NoResurrection == Spec => DeadKeysStayDead
<1>1. TypeOK /\ TypeOK' /\ [Next]_vars =>
        [\A c \in Consumer : \A k \in Key :
           AllLapsed(c, k) /\ leases' = leases => k \notin AuthorizedCaKeys(c)']_vars
  <2> SUFFICES ASSUME TypeOK, TypeOK', Next, NEW c \in Consumer, NEW k \in Key,
                      AllLapsed(c, k), leases' = leases, k \in AuthorizedCaKeys(c)'
               PROVE  FALSE
    OBVIOUS
  <2>1. PICK i \in DOMAIN leases' :
          /\ leases'[i].key = k
          /\ Passes(LeaseRules(leases'[i], chain', Clock(c)', Skew))
    BY DEF AuthorizedCaKeys, ValidAt
  <2>2. Clock(c)' < leases'[i].notAfter + Skew
    BY <2>1, LeasePasses
  <2>3. leases[i].notAfter + Skew <= Clock(c)
    BY <2>1 DEF AllLapsed
  <2>4. now <= now'
    BY DEF Next, Tick, ServeMandate, ServeLease, TypeOK
  <2>5. Clock(c) <= Clock(c)'
    BY <2>4, LeaseType DEF Clock, TypeOK
  <2>6. Clock(c) \in Int /\ Clock(c)' \in Int /\ leases[i].notAfter \in Nat /\ Skew \in Nat
    <3>1. Clock(c)' \in Int
      BY LeaseAssumption DEF Clock, TypeOK
    <3> QED
      BY <3>1, <2>1, LeaseType
  <2> QED
    BY <2>2, <2>3, <2>5, <2>6
<1> QED
  BY <1>1, TypeCorrect, PTL DEF Spec, DeadKeysStayDead

(* Among finitely many leases there is a most recent one, first served on a tie. *)
LEMMA NewestLease ==
  ASSUME NEW ls \in Seq(Lease), NEW V \in SUBSET (1 .. Len(ls)), V # {}
  PROVE  \E i \in V : \A j \in V :
           ls[j].issued < ls[i].issued \/ (ls[j].issued = ls[i].issued /\ i <= j)
<1> DEFINE n == Len(ls)
           at == [i \in 1 .. n |-> ls[i].issued]
           Older(i, j) == at[i] < at[j] \/ (at[i] = at[j] /\ j < i)
           R == {x \in (1 .. n) \X (1 .. n) : Older(x[1], x[2])}
           rank == RankOf(1 .. n, R)
<1>1. n \in Nat /\ at \in [1 .. n -> Nat] /\ \A i \in 1 .. n : at[i] = ls[i].issued
  <2>1. \A e \in Lease : e.issued \in Nat
    BY DEF Lease
  <2> QED
    BY <2>1
<1>2. V \subseteq 1 .. n /\ V # {}
  OBVIOUS
<1>3. \A i, j \in 1 .. n : <<i, j>> \in R <=> Older(i, j)
  OBVIOUS
<1> HIDE DEF n, at, R, rank
<1>4. \A i \in 1 .. n : <<i, i>> \notin R
  BY <1>1, <1>3
<1>5. \A i, j, k \in 1 .. n : <<i, j>> \in R /\ <<j, k>> \in R => <<i, k>> \in R
  <2> SUFFICES ASSUME NEW i \in 1 .. n, NEW j \in 1 .. n, NEW k \in 1 .. n,
                      Older(i, j), Older(j, k)
               PROVE  Older(i, k)
    BY <1>3
  <2>1. at[i] \in Nat /\ at[j] \in Nat /\ at[k] \in Nat
    BY <1>1
  <2> QED
    BY <1>1, <2>1
<1>6. \A i, j \in 1 .. n : i = j \/ <<i, j>> \in R \/ <<j, i>> \in R
  <2> SUFFICES ASSUME NEW i \in 1 .. n, NEW j \in 1 .. n
               PROVE  i = j \/ Older(i, j) \/ Older(j, i)
    BY <1>3
  <2>1. at[i] \in Nat /\ at[j] \in Nat
    BY <1>1
  <2> QED
    BY <1>1, <2>1
<1>7. /\ rank \in [1 .. n -> 1 .. n]
      /\ \A i, j \in 1 .. n : <<i, j>> \in R => rank[i] < rank[j]
  <2>1. IsOrder(1 .. n, R)
    BY <1>4, <1>5, <1>6 DEF IsOrder
  <2>2. IsFiniteSet(1 .. n) /\ Cardinality(1 .. n) = n
    BY <1>1, Numbers
  <2>3. IsRanking(rank, 1 .. n, R)
    BY <2>1, <2>2, RankOnto DEF rank
  <2> HIDE DEF rank
  <2> QED
    BY <2>2, <2>3 DEF IsRanking
<1> DEFINE P == {rank[i] : i \in V}
<1>8. P \in SUBSET (1 .. n) /\ P # {}
  BY <1>2, <1>7
<1>9. PICK p \in P : \A q \in P : q <= p
  <2> HIDE DEF P
  <2> QED
    BY <1>1, <1>8, LargestPosition
<1>10. PICK i \in V : p = rank[i]
  BY <1>9
<1>11. ASSUME NEW j \in V
       PROVE  ls[j].issued < ls[i].issued \/ (ls[j].issued = ls[i].issued /\ i <= j)
  <2>1. i \in 1 .. n /\ j \in 1 .. n /\ rank[j] <= rank[i]
    BY <1>2, <1>9, <1>10
  <2>2. ~(rank[i] < rank[j])
    <3>1. rank[i] \in Nat /\ rank[j] \in Nat
      BY <1>7, <2>1
    <3> QED
      BY <2>1, <3>1
  <2>3. i = j \/ Older(j, i)
    BY <1>3, <1>6, <1>7, <2>1, <2>2
  <2> QED
    BY <1>1, <2>1, <2>3
<1> QED
  BY <1>11

(* The current key never steps back to an older lease while the newer holds. *)
THEOREM CurrentStepsBack == Spec => CurrentStepsBackOnlyOnLapse
<1>1. TypeOK /\ TypeOK' /\ [Next]_vars =>
        [\A c \in Consumer :
           /\ ValidAt(c) # {} /\ ValidAt(c)' # {}
           /\ leases'[CurrentLease(c)'].issued < leases[CurrentLease(c)].issued
           => CurrentLease(c) \notin ValidAt(c)']_vars
  <2> SUFFICES ASSUME TypeOK, TypeOK', Next, NEW c \in Consumer,
                      ValidAt(c) # {}, ValidAt(c)' # {},
                      leases'[CurrentLease(c)'].issued < leases[CurrentLease(c)].issued,
                      CurrentLease(c) \in ValidAt(c)'
               PROVE  FALSE
    OBVIOUS
  <2> DEFINE i == CurrentLease(c)
             k == CurrentLease(c)'
  <2>1. leases \in Seq(Lease) /\ leases' \in Seq(Lease)
    BY LeaseAssumption DEF TypeOK
  <2>2. i \in ValidAt(c)
    <3>1. ValidAt(c) \in SUBSET (1 .. Len(leases))
      BY <2>1 DEF ValidAt
    <3> QED
      BY <2>1, <3>1, NewestLease DEF CurrentLease
  <2>3. k \in ValidAt(c)' /\ \A j \in ValidAt(c)' :
          leases'[j].issued < leases'[k].issued \/ leases'[j].issued = leases'[k].issued
    <3>1. ValidAt(c)' \in SUBSET (1 .. Len(leases'))
      BY <2>1 DEF ValidAt
    <3> QED
      BY <2>1, <3>1, NewestLease DEF CurrentLease
  <2>4. i \in DOMAIN leases /\ i \in DOMAIN leases' /\ k \in DOMAIN leases'
    BY <2>2, <2>3 DEF ValidAt
  <2>5. leases' = leases \/ \E e \in Leases : leases' = Append(leases, e)
    BY DEF Next, Tick, ServeMandate, ServeLease
  <2>6. leases'[i] = leases[i]
    BY <2>1, <2>4, <2>5
  <2>7. leases'[i].issued \in Nat /\ leases'[k].issued \in Nat
    <3>1. leases'[i] \in Lease /\ leases'[k] \in Lease
      BY <2>1, <2>4
    <3>2. \A e \in Lease : e.issued \in Nat
      BY DEF Lease
    <3> QED
      BY <3>1, <3>2
  <2> HIDE DEF i, k
  <2>8. leases'[i].issued <= leases'[k].issued
    BY <2>3, <2>7 DEF i
  <2> QED
    BY <2>6, <2>7, <2>8 DEF i, k
<1> QED
  BY <1>1, TypeCorrect, PTL DEF Spec, CurrentStepsBackOnlyOnLapse

-----------------------------------------------------------------------------
(* RELEASES: ONE MORE ENDORSEMENT *)

LEMMA EndorseCases ==
  ASSUME NEW ch, NEW v, NEW e
  PROVE  \/ Endorse(ch, v, e) = v
         \/ /\ Endorse(ch, v, e) = Append(v, e)
            /\ FreshRelease(v, e)
            /\ v = <<>> => e.prevId = NoRelease
            /\ v # <<>> => e.prevId = Last(v).id /\ e.prevCommit = Last(v).commit
<1> SUFFICES ASSUME FreshRelease(v, e), Passes(LinkRules(v, e) \o SigningRules(ch, e))
             PROVE  /\ v = <<>> => e.prevId = NoRelease
                    /\ v # <<>> => e.prevId = Last(v).id /\ e.prevCommit = Last(v).commit
  BY DEF Endorse
<1> DEFINE L == LinkRules(v, e)
           S == SigningRules(ch, e)
<1> DEFINE Reasons == {"ok", "genesis-must-have-no-predecessor",
                       "non-genesis-must-have-predecessor", "predecessor-mismatch",
                       "merkle-root-mismatch", "signature-invalid",
                       "no-authority-at-issuance", "signer-not-authorized"}
<1>1. L \in Seq(Reasons) /\ Len(L) = 3
  BY DEF LinkRules, Rule
<1>2. S \in Seq(Reasons) /\ Len(S) = 5
  BY DEF SigningRules, Rule
<1>3. \A k \in 1 .. 3 : L[k] = "ok"
  <2> HIDE DEF L, S, Reasons
  <2> DEFINE C == L \o S
  <2>1. /\ C \in Seq(Reasons) /\ Len(C) = Len(L) + Len(S)
        /\ \A k \in 1 .. Len(L) + Len(S) : C[k] = IF k <= Len(L) THEN L[k] ELSE S[k - Len(L)]
    BY <1>1, <1>2, ConcatProperties, Zenon
  <2> HIDE DEF C
  <2>2. \A k \in 1 .. 3 : k \in DOMAIN C /\ C[k] = L[k]
    BY <1>1, <1>2, <2>1
  <2> QED
    BY <2>2 DEF Passes, C, L, S
<1>4. L[1] = "ok" /\ L[3] = "ok"
  BY <1>3
<1>5. v = <<>> => e.prevId = NoRelease
  BY <1>4 DEF LinkRules, Rule
<1>6. v # <<>> => e.prevId = Last(v).id /\ e.prevCommit = Last(v).commit
  BY <1>4 DEF LinkRules, Rule
<1> QED
  BY <1>5, <1>6

(* The loop of verifyChainOfEndorsements, step by step, for releases of any set. *)
LEMMA EndorseWalks ==
  ASSUME NEW ch, NEW E, NEW log \in Seq(E)
  PROVE  \E w \in [0 .. Len(log) -> Seq(E)] :
           /\ w[0] = <<>>
           /\ \A k \in 1 .. Len(log) : w[k] = Endorse(ch, w[k - 1], log[k])
           /\ VerifyChainOfEndorsements(ch, log) = w[Len(log)]
<1> DEFINE n == Len(log)
           step == [x \in Seq(E) \X (1 .. n) |-> Endorse(ch, x[1], log[x[2]])]
           Loop(w) == w = [k \in 0 .. n |-> IF k = 0 THEN <<>>
                                            ELSE Endorse(ch, w[k - 1], log[k])]
<1>1. n \in Nat /\ \A k \in 1 .. n : log[k] \in E
  OBVIOUS
<1>2. \A x \in Seq(E) : \A e \in E : Endorse(ch, x, e) \in Seq(E)
  <2> SUFFICES ASSUME NEW x \in Seq(E), NEW e \in E PROVE Endorse(ch, x, e) \in Seq(E)
    OBVIOUS
  <2>1. Append(x, e) \in Seq(E)
    OBVIOUS
  <2> QED
    BY <2>1, EndorseCases
<1>3. step \in [Seq(E) \X (1 .. n) -> Seq(E)]
  BY <1>1, <1>2
<1> DEFINE none == <<>>
<1>0. none \in Seq(E)
  BY EmptySeq
<1> HIDE DEF none
<1>4. PICK v \in [0 .. n -> Seq(E)] : IsWalk(v, none, step, n)
  <2> HIDE DEF step, n
  <2> QED
    BY <1>0, <1>1, <1>3, WalkExists
<1>5. Loop(v)
  <2>1. ASSUME NEW k \in 0 .. n, k # 0
        PROVE  step[<<v[k - 1], k>>] = Endorse(ch, v[k - 1], log[k])
    <3>1. k \in 1 .. n /\ v[k - 1] \in Seq(E)
      BY <1>1, <2>1
    <3> QED
      BY <3>1
  <2> HIDE DEF step
  <2> QED
    BY <1>4, <2>1 DEF IsWalk, none
<1> DEFINE w == CHOOSE u : Loop(u)
<1>6. Loop(w)
  BY <1>5
<1>7. VerifyChainOfEndorsements(ch, log) = w[n]
  BY DEF VerifyChainOfEndorsements
<1> HIDE DEF w
<1>8. w[0] = none /\ \A k \in 1 .. n : w[k] = Endorse(ch, w[k - 1], log[k])
  BY <1>1, <1>6 DEF none
<1>9. w \in [0 .. n -> Seq(E)]
  <2> DEFINE T == {k \in 0 .. n : w[k] \in Seq(E)}
  <2>1. 0 \in T
    BY <1>0, <1>1, <1>8
  <2>2. ASSUME NEW k \in 0 .. n, k \in T, k < n PROVE k + 1 \in T
    <3>1. k + 1 \in 0 .. n /\ k + 1 \in 1 .. n /\ (k + 1) - 1 = k
      BY <1>1, <2>2
    <3> QED
      BY <1>1, <1>2, <1>8, <2>2, <3>1
  <2> HIDE DEF T
  <2>3. 0 .. n \subseteq T
    BY <1>1, <2>1, <2>2, StepByStep
  <2>4. w = [k \in 0 .. n |-> w[k]]
    BY <1>6
  <2> HIDE DEF Loop
  <2> QED
    BY <2>3, <2>4 DEF T
<1> QED
  BY <1>7, <1>8, <1>9 DEF none

(* Two chains of authority that judge each release of the log alike find the *)
(* same releases valid.                                                      *)
LEMMA EndorseAlike ==
  ASSUME NEW ch, NEW dh, NEW E, NEW log \in Seq(E),
         \A k \in 1 .. Len(log) : \A v \in Seq(E) :
           Endorse(ch, v, log[k]) = Endorse(dh, v, log[k])
  PROVE  VerifyChainOfEndorsements(ch, log) = VerifyChainOfEndorsements(dh, log)
<1> DEFINE n == Len(log)
<1>1. PICK v \in [0 .. n -> Seq(E)] :
        /\ v[0] = <<>>
        /\ \A k \in 1 .. n : v[k] = Endorse(ch, v[k - 1], log[k])
        /\ VerifyChainOfEndorsements(ch, log) = v[n]
  BY EndorseWalks
<1>2. PICK w \in [0 .. n -> Seq(E)] :
        /\ w[0] = <<>>
        /\ \A k \in 1 .. n : w[k] = Endorse(dh, w[k - 1], log[k])
        /\ VerifyChainOfEndorsements(dh, log) = w[n]
  BY EndorseWalks
<1> DEFINE T == {k \in 0 .. n : v[k] = w[k]}
<1>3. n \in Nat /\ 0 \in T
  BY <1>1, <1>2
<1>4. ASSUME NEW k \in 0 .. n, k \in T, k < n PROVE k + 1 \in T
  <2>1. k + 1 \in 1 .. n /\ k + 1 \in 0 .. n /\ (k + 1) - 1 = k /\ v[k] \in Seq(E)
    BY <1>3, <1>4
  <2>2. v[k + 1] = Endorse(ch, v[k], log[k + 1]) /\ w[k + 1] = Endorse(dh, w[k], log[k + 1])
    BY <1>1, <1>2, <2>1
  <2> QED
    BY <1>4, <2>1, <2>2
<1> HIDE DEF T, n
<1>5. 0 .. n \subseteq T
  BY <1>3, <1>4, StepByStep
<1> QED
  BY <1>1, <1>2, <1>3, <1>5 DEF T

(* One more endorsement at the end of a log is one more turn of the loop. *)
LEMMA EndorseAppend ==
  ASSUME NEW ch, NEW E, NEW log \in Seq(E), NEW e \in E
  PROVE  /\ VerifyChainOfEndorsements(ch, log) \in Seq(E)
         /\ VerifyChainOfEndorsements(ch, Append(log, e))
              = Endorse(ch, VerifyChainOfEndorsements(ch, log), e)
<1> DEFINE n == Len(log)
           more == Append(log, e)
<1>1. PICK v \in [0 .. n -> Seq(E)] :
        /\ v[0] = <<>>
        /\ \A k \in 1 .. n : v[k] = Endorse(ch, v[k - 1], log[k])
        /\ VerifyChainOfEndorsements(ch, log) = v[n]
  BY EndorseWalks
<1>2. /\ n \in Nat /\ more \in Seq(E) /\ Len(more) = n + 1 /\ more[n + 1] = e
      /\ \A k \in 1 .. n : more[k] = log[k]
  OBVIOUS
<1>3. PICK w \in [0 .. n + 1 -> Seq(E)] :
        /\ w[0] = <<>>
        /\ \A k \in 1 .. n + 1 : w[k] = Endorse(ch, w[k - 1], more[k])
        /\ VerifyChainOfEndorsements(ch, more) = w[n + 1]
  <2> HIDE DEF more, n
  <2> QED
    BY <1>2, EndorseWalks
<1> DEFINE T == {k \in 0 .. n : v[k] = w[k]}
<1>4. 0 \in T
  BY <1>1, <1>2, <1>3
<1>5. ASSUME NEW k \in 0 .. n, k \in T, k < n PROVE k + 1 \in T
  <2>1. k + 1 \in 1 .. n /\ k + 1 \in 1 .. n + 1 /\ (k + 1) - 1 = k
    BY <1>2, <1>5
  <2>2. v[k + 1] = Endorse(ch, v[k], log[k + 1]) /\ w[k + 1] = Endorse(ch, w[k], more[k + 1])
    BY <1>1, <1>3, <2>1
  <2>3. more[k + 1] = log[k + 1]
    BY <1>2, <2>1
  <2> QED
    BY <1>5, <2>1, <2>2, <2>3
<1> HIDE DEF T
<1>6. v[n] = w[n]
  <2>1. 0 .. n \subseteq T
    BY <1>2, <1>4, <1>5, StepByStep
  <2> QED
    BY <1>2, <2>1 DEF T
<1>7. w[n + 1] = Endorse(ch, w[n], e)
  <2>1. n + 1 \in 1 .. n + 1 /\ (n + 1) - 1 = n
    BY <1>2
  <2> QED
    BY <1>2, <1>3, <2>1
<1>8. v[n] \in Seq(E)
  BY <1>2
<1> QED
  BY <1>1, <1>2, <1>3, <1>6, <1>7, <1>8

(* A log without endorsements. *)
LEMMA EndorseEmpty ==
  ASSUME NEW ch, NEW E, NEW log \in Seq(E), Len(log) = 0
  PROVE  VerifyChainOfEndorsements(ch, log) = <<>>
<1>1. PICK w \in [0 .. Len(log) -> Seq(E)] :
        w[0] = <<>> /\ VerifyChainOfEndorsements(ch, log) = w[Len(log)]
  BY EndorseWalks, Zenon
<1> QED
  BY <1>1

-----------------------------------------------------------------------------
(* RELEASES: WHAT A BUILD KNOWS *)

LEMMA MirrorType ==
  /\ MirrorMandates \subseteq Mandate
  /\ \A m \in Mandate : m.issued \in Nat
  /\ \A e \in MirrorReleases : e.issued \in Nat
<1>1. \A e \in Release : e.issued \in Nat
  BY DEF Release
<1>2. \A m \in Mandate : m.issued \in Nat
  BY DEF Mandate
<1> QED
  BY <1>1, <1>2, ReleaseAssumption

(* However the sort leaves them, they are mandates; and there is an outcome. *)
LEMMA SortedType ==
  ASSUME NEW log \in Seq(MirrorMandates)
  PROVE  SortOutcomes(log) \subseteq Seq(Mandate)
<1>1. log \in Seq(Mandate)
  BY MirrorType
<1>2. SortedByIssue(log) \in Seq(Mandate)
  BY <1>1, SortedPlaces
<1>3. ASSUME NEW p \in Bijection(DOMAIN log, DOMAIN log)
      PROVE  [k \in DOMAIN log |-> log[p[k]]] \in Seq(Mandate)
  <2> HIDE DEF Mandate
  <2>1. PICK n \in Nat : n = Len(log) /\ DOMAIN log = 1 .. n
    BY <1>1
  <2>2. \A k \in 1 .. n : p[k] \in 1 .. n
    BY <1>3, <2>1 DEF Bijection, Injection
  <2>3. [k \in 1 .. n |-> log[p[k]]] \in [1 .. n -> Mandate]
    BY <1>1, <2>1, <2>2
  <2> QED
    BY <2>1, <2>3
<1> QED
  BY <1>2, <1>3 DEF SortOutcomes

(* A fetched chain has the type of a verified chain. *)
LEMMA FetchedType ==
  ASSUME NEW c, NEW sorted \in Seq(Mandate)
  PROVE  FetchedChain(c, sorted) \in VerifiedChain
<1>1. PICK w \in [0 .. Len(sorted) -> VerifiedChain] :
        VerifyMandateChainFromPin(PinOf[c], sorted) = w[Len(sorted)]
  BY VerifyWalks
<1>2. Len(sorted) \in 0 .. Len(sorted)
  OBVIOUS
<1> QED
  BY <1>1, <1>2 DEF FetchedChain

(* Types hold whatever mandates and releases a mirror serves. *)
THEOREM ReleaseTypeCorrect == ReleaseSpec => []ReleaseTypeOK
<1>1. ReleaseInit => ReleaseTypeOK
  <2>1. \A pin : EmptyChain(pin) \in VerifiedChain
    BY DEF EmptyChain, VerifiedChain, V2RootFailReason
  <2> QED
    BY <2>1 DEF ReleaseInit, ReleaseTypeOK
<1>2. ReleaseTypeOK /\ [ReleaseNext]_releaseVars => ReleaseTypeOK'
  <2> SUFFICES ASSUME ReleaseTypeOK, [ReleaseNext]_releaseVars PROVE ReleaseTypeOK'
    OBVIOUS
  <2>1. ASSUME NEW log \in Seq(MirrorReleases)
        PROVE  \A ch : VerifyChainOfEndorsements(ch, log) \in Seq(MirrorReleases)
    <3> SUFFICES ASSUME NEW ch
                 PROVE  VerifyChainOfEndorsements(ch, log) \in Seq(MirrorReleases)
      OBVIOUS
    <3>1. PICK w \in [0 .. Len(log) -> Seq(MirrorReleases)] :
            VerifyChainOfEndorsements(ch, log) = w[Len(log)]
      BY EndorseWalks
    <3>2. Len(log) \in 0 .. Len(log)
      OBVIOUS
    <3> QED
      BY <3>1, <3>2
  <2>2. ASSUME NEW m \in MirrorMandates, PublishMandate(m) PROVE ReleaseTypeOK'
    <3>1. mandates' \in Seq(MirrorMandates) /\ releases' = releases
      BY <2>2 DEF PublishMandate, ReleaseTypeOK
    <3>2. chains' \in [Build -> VerifiedChain]
      <4>1. PICK sorted \in [Build -> SortOutcomes(mandates')] :
              chains' = [c \in Build |-> FetchedChain(c, sorted[c])]
        BY <2>2 DEF PublishMandate
      <4>2. \A c \in Build : sorted[c] \in Seq(Mandate)
        BY <3>1, <4>1, SortedType
      <4> QED
        BY <4>1, <4>2, FetchedType
    <3>3. valid' \in [Build -> Seq(MirrorReleases)]
      BY <2>1, <2>2 DEF PublishMandate, ReleaseTypeOK
    <3> QED
      BY <3>1, <3>2, <3>3 DEF ReleaseTypeOK
  <2>3. ASSUME NEW e \in MirrorReleases, PublishRelease(e) PROVE ReleaseTypeOK'
    <3>1. releases' \in Seq(MirrorReleases) /\ mandates' = mandates /\ chains' = chains
      BY <2>3 DEF PublishRelease, ReleaseTypeOK
    <3>2. valid' \in [Build -> Seq(MirrorReleases)]
      BY <2>1, <2>3, <3>1 DEF PublishRelease
    <3> QED
      BY <3>1, <3>2 DEF ReleaseTypeOK
  <2>4. CASE UNCHANGED releaseVars
    BY <2>4 DEF releaseVars, ReleaseTypeOK
  <2> QED
    BY <2>2, <2>3, <2>4 DEF ReleaseNext
<1> QED
  BY <1>1, <1>2, PTL DEF ReleaseSpec

(* What a build knows is a function of what the mirror has served, while all *)
(* mandates have dates; its releases always follow from its chain.           *)
Computed ==
  \A c \in Build :
    /\ Dated(mandates) => chains[c] = FetchedChain(c, SortedByIssue(mandates))
    /\ valid[c] = VerifyChainOfEndorsements(chains[c], releases)

LEMMA AlwaysComputed == ReleaseSpec => []Computed
<1>1. ReleaseInit => Computed
  <2> SUFFICES ASSUME ReleaseInit, NEW c \in Build
               PROVE  /\ EmptyChain(PinOf[c]) = FetchedChain(c, SortedByIssue(<<>>))
                      /\ VerifyChainOfEndorsements(chains[c], <<>>) = <<>>
    BY DEF ReleaseInit, Computed
  <2> DEFINE none == <<>>
  <2>1. none \in Seq(Mandate) /\ Len(none) = 0
    OBVIOUS
  <2> HIDE DEF none
  <2>2. SortedByIssue(none) \in Seq(Mandate) /\ Len(SortedByIssue(none)) = 0
    BY <2>1, SortedPlaces
  <2>3. SortedByIssue(none) = <<>>
    BY <2>2
  <2>4. VerifyChainOfEndorsements(chains[c], none) = <<>>
    BY <2>1, EndorseEmpty
  <2> QED
    BY <2>3, <2>4, VerifyEmpty DEF FetchedChain, none
<1>2. Computed /\ ReleaseTypeOK /\ [ReleaseNext]_releaseVars => Computed'
  <2> SUFFICES ASSUME Computed, ReleaseTypeOK, [ReleaseNext]_releaseVars PROVE Computed'
    OBVIOUS
  <2>1. ASSUME NEW m \in MirrorMandates, PublishMandate(m) PROVE Computed'
    <3>1. PICK sorted \in [Build -> SortOutcomes(mandates')] :
            chains' = [c \in Build |-> FetchedChain(c, sorted[c])]
      BY <2>1 DEF PublishMandate
    <3>2. ASSUME Dated(mandates'), NEW c \in Build
          PROVE  chains'[c] = FetchedChain(c, SortedByIssue(mandates'))
      BY <3>1, <3>2 DEF SortOutcomes
    <3>3. \A c \in Build : valid'[c] = VerifyChainOfEndorsements(chains'[c], releases')
      BY <2>1 DEF PublishMandate
    <3> QED
      BY <3>2, <3>3 DEF Computed, Dated
  <2>2. ASSUME NEW e \in MirrorReleases, PublishRelease(e) PROVE Computed'
    BY <2>2 DEF PublishRelease, Computed
  <2>3. CASE UNCHANGED releaseVars
    BY <2>3 DEF releaseVars, Computed
  <2> QED
    BY <2>1, <2>2, <2>3 DEF ReleaseNext
<1> QED
  BY <1>1, <1>2, ReleaseTypeCorrect, PTL DEF ReleaseSpec

-----------------------------------------------------------------------------
(* RELEASES: ONE LINE OF HISTORY *)

(* Each release names the one before it, and none is in the line twice. *)
OneLine(v) ==
  /\ \A k \in DOMAIN v :
       IF k = 1 THEN v[k].prevId = NoRelease
       ELSE v[k].prevId = v[k - 1].id /\ v[k].prevCommit = v[k - 1].commit
  /\ \A j, k \in DOMAIN v : v[j].id = v[k].id => j = k

LEMMA EndorseOneLine ==
  ASSUME NEW ch, NEW E, NEW v \in Seq(E), NEW e \in E, OneLine(v)
  PROVE  OneLine(Endorse(ch, v, e))
<1> DEFINE Follows == /\ FreshRelease(v, e)
                      /\ v = <<>> => e.prevId = NoRelease
                      /\ v # <<>> => e.prevId = Last(v).id /\ e.prevCommit = Last(v).commit
<1>0. Endorse(ch, v, e) = v \/ (Endorse(ch, v, e) = Append(v, e) /\ Follows)
  BY EndorseCases
<1> SUFFICES ASSUME Follows PROVE OneLine(Append(v, e))
  <2> HIDE DEF Follows
  <2> QED
    BY <1>0
<1> DEFINE n == Len(v)
           u == Append(v, e)
<1>1. /\ n \in Nat /\ DOMAIN v = 1 .. n /\ DOMAIN u = 1 .. n + 1
      /\ u[n + 1] = e /\ \A k \in 1 .. n : u[k] = v[k]
      /\ n = 0 <=> v = <<>>
  OBVIOUS
<1>2. n # 0 => Last(v) = v[n] /\ n \in 1 .. n
  BY <1>1 DEF Last
<1> HIDE DEF u, n
<1>3. ASSUME NEW k \in 1 .. n + 1
      PROVE  IF k = 1 THEN u[k].prevId = NoRelease
             ELSE u[k].prevId = u[k - 1].id /\ u[k].prevCommit = u[k - 1].commit
  <2>1. CASE k \in 1 .. n
    <3>1. k # 1 => k - 1 \in 1 .. n
      BY <1>1, <2>1
    <3>2. u[k] = v[k] /\ (k # 1 => u[k - 1] = v[k - 1])
      BY <1>1, <2>1, <3>1
    <3> QED
      BY <1>1, <2>1, <3>2 DEF OneLine
  <2>2. CASE k = n + 1 /\ n = 0
    BY <1>1, <2>2
  <2>3. CASE k = n + 1 /\ n # 0
    <3>1. k # 1 /\ k - 1 = n /\ u[n] = v[n]
      BY <1>1, <1>2, <2>3
    <3> QED
      BY <1>1, <1>2, <2>3, <3>1
  <2> QED
    BY <1>1, <2>1, <2>2, <2>3
<1>4. ASSUME NEW j \in 1 .. n + 1, NEW k \in 1 .. n + 1, u[j].id = u[k].id PROVE j = k
  <2>1. \A i \in 1 .. n + 1 : i \in 1 .. n \/ i = n + 1
    BY <1>1
  <2>2. \A i \in 1 .. n : u[i].id # e.id
    BY <1>1 DEF FreshRelease
  <2> QED
    BY <1>1, <1>4, <2>1, <2>2 DEF OneLine
<1> QED
  BY <1>1, <1>3, <1>4 DEF OneLine, u

(* The valid releases of any log are one line. *)
LEMMA VerifiedOneLine ==
  ASSUME NEW ch, NEW E, NEW log \in Seq(E)
  PROVE  OneLine(VerifyChainOfEndorsements(ch, log))
<1> DEFINE n == Len(log)
<1>1. PICK w \in [0 .. n -> Seq(E)] :
        /\ w[0] = <<>>
        /\ \A k \in 1 .. n : w[k] = Endorse(ch, w[k - 1], log[k])
        /\ VerifyChainOfEndorsements(ch, log) = w[n]
  BY EndorseWalks
<1>2. n \in Nat /\ \A k \in 1 .. n : log[k] \in E
  OBVIOUS
<1> DEFINE T == {k \in 0 .. n : OneLine(w[k])}
<1> HIDE DEF n
<1>3. 0 \in T
  <2>1. OneLine(<<>>)
    BY DEF OneLine
  <2> QED
    BY <1>1, <1>2, <2>1
<1>4. ASSUME NEW k \in 0 .. n, k \in T, k < n PROVE k + 1 \in T
  <2>1. k + 1 \in 1 .. n /\ k + 1 \in 0 .. n /\ (k + 1) - 1 = k
    BY <1>2, <1>4
  <2>2. w[k + 1] = Endorse(ch, w[k], log[k + 1]) /\ w[k] \in Seq(E) /\ log[k + 1] \in E
    BY <1>1, <1>2, <2>1
  <2> QED
    BY <1>4, <2>1, <2>2, EndorseOneLine
<1> HIDE DEF T
<1>5. 0 .. n \subseteq T
  BY <1>2, <1>3, <1>4, StepByStep
<1> QED
  BY <1>1, <1>2, <1>5 DEF T

(* Whatever a mirror serves, each build sees one line of releases. *)
THEOREM ReleasesAreOneLine == ReleaseSpec => []OneLineOfReleases
<1>1. Computed /\ ReleaseTypeOK => OneLineOfReleases
  <2> SUFFICES ASSUME Computed, ReleaseTypeOK PROVE \A c \in Build : OneLine(valid[c])
    BY DEF OneLineOfReleases, OneLine
  <2> QED
    BY VerifiedOneLine DEF Computed, ReleaseTypeOK
<1> QED
  BY <1>1, AlwaysComputed, ReleaseTypeCorrect, PTL

(* A new release never takes back another one. *)
THEOREM ReleasesExtend == ReleaseSpec => ReleasesOnlyExtend
<1>1. Computed /\ Computed' /\ ReleaseTypeOK /\ [ReleaseNext]_releaseVars =>
        [mandates' = mandates => \A c \in Build : IsPrefix(valid[c], valid'[c])]_releaseVars
  <2> SUFFICES ASSUME Computed, Computed', ReleaseTypeOK, ReleaseNext,
                      mandates' = mandates, NEW c \in Build
               PROVE  IsPrefix(valid[c], valid'[c])
    OBVIOUS
  <2>1. ~ \E m \in MirrorMandates : PublishMandate(m)
    <3> SUFFICES ASSUME NEW m \in MirrorMandates, mandates' = Append(mandates, m)
                 PROVE  FALSE
      BY DEF PublishMandate
    <3>1. Len(mandates') = Len(mandates) + 1 /\ Len(mandates) \in Nat
      BY DEF ReleaseTypeOK
    <3> QED
      BY <3>1
  <2>2. PICK e \in MirrorReleases : PublishRelease(e)
    BY <2>1 DEF ReleaseNext
  <2>3. releases \in Seq(MirrorReleases) /\ valid[c] \in Seq(MirrorReleases)
    BY DEF ReleaseTypeOK
  <2>4. valid'[c] = Endorse(chains[c], valid[c], e)
    BY <2>2, <2>3, EndorseAppend DEF PublishRelease, Computed
  <2>5. valid'[c] = valid[c] \/ valid'[c] = Append(valid[c], e)
    BY <2>4, EndorseCases
  <2> QED
    BY <2>3, <2>5 DEF IsPrefix
<1> QED
  BY <1>1, AlwaysComputed, ReleaseTypeCorrect, PTL DEF ReleaseSpec, ReleasesOnlyExtend

-----------------------------------------------------------------------------
(* RELEASES: WHAT IS REJECTED DOES NOT COUNT *)

InertAt(ch, log, v, i) ==
  \/ log[i] \in ToSet(v)
  \/ VerifyChainOfEndorsements(ch, RemoveAt(log, i)) = v

LEMMA InertStep ==
  ASSUME NEW ch, NEW E, NEW s \in Seq(E), NEW v, NEW e \in E,
         v = VerifyChainOfEndorsements(ch, s),
         \A i \in 1 .. Len(s) : InertAt(ch, s, v, i)
  PROVE  \A i \in 1 .. Len(s) + 1 : InertAt(ch, Append(s, e), Endorse(ch, v, e), i)
<1> DEFINE n == Len(s)
           t == Append(s, e)
           d == Endorse(ch, v, e)
<1>1. n \in Nat /\ t[n + 1] = e /\ \A i \in 1 .. n : t[i] = s[i]
  OBVIOUS
<1>2. v \in Seq(E)
  BY EndorseAppend
<1>3. d = v \/ d = Append(v, e)
  BY EndorseCases
<1>4. d = Append(v, e) => e \in ToSet(d)
  <2> HIDE DEF d
  <2> QED
    BY <1>2 DEF ToSet
<1>5. ToSet(v) \subseteq ToSet(d)
  <2> HIDE DEF d
  <2> QED
    BY <1>2, <1>3 DEF ToSet
<1>6. InertAt(ch, t, d, n + 1)
  <2>1. RemoveAt(t, n + 1) = s
    BY RemoveFromAppend
  <2> HIDE DEF t, d, n
  <2> QED
    BY <1>1, <1>3, <1>4, <2>1 DEF InertAt
<1>7. ASSUME NEW i \in 1 .. n PROVE InertAt(ch, t, d, i)
  <2> DEFINE u == RemoveAt(s, i)
  <2>1. u \in Seq(E) /\ RemoveAt(t, i) = Append(u, e)
    BY <1>1, RemoveFromAppend
  <2>2. InertAt(ch, s, v, i) /\ t[i] = s[i]
    BY <1>1
  <2> HIDE DEF u, t
  <2>3. VerifyChainOfEndorsements(ch, RemoveAt(t, i))
          = Endorse(ch, VerifyChainOfEndorsements(ch, u), e)
    BY <2>1, EndorseAppend
  <2> QED
    BY <1>5, <2>2, <2>3 DEF InertAt, u
<1> HIDE DEF t, d, n
<1>8. \A i \in 1 .. n + 1 : i \in 1 .. n \/ i = n + 1
  BY <1>1
<1> QED
  BY <1>6, <1>7, <1>8 DEF t, d, n

LEMMA InertEverywhere ==
  ASSUME NEW ch, NEW E, NEW log \in Seq(E)
  PROVE  \A i \in 1 .. Len(log) : InertAt(ch, log, VerifyChainOfEndorsements(ch, log), i)
<1> DEFINE n == Len(log)
           upTo(k) == SubSeq(log, 1, k)
           T == {k \in 0 .. n :
                   \A i \in 1 .. k :
                     InertAt(ch, upTo(k), VerifyChainOfEndorsements(ch, upTo(k)), i)}
<1>1. n \in Nat /\ 0 \in T
  OBVIOUS
<1>2. ASSUME NEW k \in 0 .. n, k \in T, k < n PROVE k + 1 \in T
  <2> DEFINE s == upTo(k)
             e == log[k + 1]
  <2>1. /\ s \in Seq(E) /\ Len(s) = k /\ e \in E /\ upTo(k + 1) = Append(s, e)
        /\ k + 1 \in 0 .. n
    BY <1>1, <1>2
  <2>2. \A i \in 1 .. k : InertAt(ch, s, VerifyChainOfEndorsements(ch, s), i)
    BY <1>2
  <2> HIDE DEF s, e, n
  <2>3. \A i \in 1 .. k + 1 :
          InertAt(ch, Append(s, e), Endorse(ch, VerifyChainOfEndorsements(ch, s), e), i)
    BY <2>1, <2>2, InertStep
  <2>4. VerifyChainOfEndorsements(ch, Append(s, e))
          = Endorse(ch, VerifyChainOfEndorsements(ch, s), e)
    BY <2>1, EndorseAppend
  <2> QED
    BY <2>1, <2>3, <2>4
<1> HIDE DEF T
<1>3. n \in T
  <2>1. 0 .. n \subseteq T
    BY <1>1, <1>2, StepByStep
  <2> QED
    BY <1>1, <2>1
<1>4. upTo(n) = log
  OBVIOUS
<1> QED
  BY <1>3, <1>4 DEF T

(* An endorsement that a build rejects might as well not be in the index. *)
THEOREM RejectedReleasesAreInert == ReleaseSpec => []InvalidReleasesAreInert
<1>1. Computed /\ ReleaseTypeOK => InvalidReleasesAreInert
  <2> SUFFICES ASSUME Computed, ReleaseTypeOK, NEW c \in Build, NEW i \in DOMAIN releases
               PROVE  InertAt(chains[c], releases, valid[c], i)
    BY DEF InvalidReleasesAreInert, InertAt
  <2>1. releases \in Seq(MirrorReleases) /\ i \in 1 .. Len(releases)
    BY DEF ReleaseTypeOK
  <2> QED
    BY <2>1, InertEverywhere DEF Computed
<1> QED
  BY <1>1, AlwaysComputed, ReleaseTypeCorrect, PTL

-----------------------------------------------------------------------------
(* RELEASES: HISTORY BEFORE A TAKEOVER IS SETTLED *)

(* A release is judged alike by two chains that agree on its date. *)
LEMMA JudgedAlike ==
  ASSUME NEW ch \in VerifiedChain, NEW dh \in VerifiedChain, NEW e,
         e.issued \in Nat, SameAt(ch, dh, e.issued), NEW v
  PROVE  Endorse(ch, v, e) = Endorse(dh, v, e)
<1>1. /\ AuthorityAt(ch, e) <=> AuthorityAt(dh, e)
      /\ AuthorityAt(ch, e) =>
           CurrentAuthority(ch, e.issued) = CurrentAuthority(dh, e.issued)
  BY SameAuthority DEF AuthorityAt
<1>2. \A r : Rule(r, AuthorityAt(ch, e)) = Rule(r, AuthorityAt(dh, e))
  BY <1>1 DEF Rule
<1>3. \A r : Rule(r, AuthorityAt(ch, e) => e.signedBy = CurrentAuthority(ch, e.issued).holder)
             = Rule(r, AuthorityAt(dh, e) =>
                         e.signedBy = CurrentAuthority(dh, e.issued).holder)
  BY <1>1 DEF Rule
<1>4. SigningRules(ch, e) = SigningRules(dh, e)
  BY <1>2, <1>3 DEF SigningRules
<1> QED
  BY <1>4 DEF Endorse

(* A mandate that turns up late changes nothing about releases that are all  *)
(* dated before it, while every mandate has a date.                          *)
THEOREM HistoryIsSettled == ReleaseSpec => SettledHistory
<1>1. Computed /\ Computed' /\ ReleaseTypeOK /\ ReleaseTypeOK' /\ [ReleaseNext]_releaseVars =>
        [\A m \in MirrorMandates :
           /\ mandates' = Append(mandates, m) /\ Dated(mandates')
           /\ \A i \in DOMAIN releases : UpTo(m.issued, releases[i])
           => valid' = valid]_releaseVars
  <2> SUFFICES ASSUME Computed, Computed', ReleaseTypeOK, ReleaseTypeOK', ReleaseNext,
                      NEW m \in MirrorMandates, mandates' = Append(mandates, m),
                      Dated(mandates'),
                      \A i \in DOMAIN releases : UpTo(m.issued, releases[i])
               PROVE  valid' = valid
    OBVIOUS
  <2>1. releases' = releases
    <3>1. mandates' # mandates
      <4>1. Len(mandates') = Len(mandates) + 1 /\ Len(mandates) \in Nat
        BY DEF ReleaseTypeOK
      <4> QED
        BY <4>1
    <3> QED
      BY <3>1 DEF ReleaseNext, PublishMandate, PublishRelease
  <2>2. /\ releases \in Seq(MirrorReleases)
        /\ \A k \in 1 .. Len(releases) :
             releases[k].issued \in Nat /\ releases[k].issued < m.issued
    BY MirrorType DEF ReleaseTypeOK, UpTo
  <2>3. ASSUME NEW c \in Build PROVE valid'[c] = valid[c]
    <3>0. Dated(mandates)
      <4>1. /\ DOMAIN mandates \subseteq DOMAIN mandates'
            /\ \A i \in DOMAIN mandates : mandates'[i] = mandates[i]
        BY DEF ReleaseTypeOK
      <4> QED
        BY <4>1 DEF Dated
    <3>1. /\ chains[c] = FetchedChain(c, SortedByIssue(mandates)) /\ chains[c] \in VerifiedChain
          /\ chains'[c] = FetchedChain(c, SortedByIssue(Append(mandates, m)))
          /\ chains'[c] \in VerifiedChain
      BY <3>0 DEF Computed, ReleaseTypeOK, Dated
    <3>2. mandates \in Seq(Mandate) /\ m \in Mandate
      BY MirrorType DEF ReleaseTypeOK
    <3>3. ASSUME NEW k \in 1 .. Len(releases), NEW v
          PROVE  Endorse(chains[c], v, releases[k]) = Endorse(chains'[c], v, releases[k])
      <4>1. SameAt(chains[c], chains'[c], releases[k].issued)
        BY <2>2, <3>1, <3>2, LateMandate DEF FetchedChain
      <4> QED
        BY <2>2, <3>1, <4>1, JudgedAlike
    <3>4. VerifyChainOfEndorsements(chains[c], releases)
            = VerifyChainOfEndorsements(chains'[c], releases)
      <4>1. PICK ch, dh : ch = chains[c] /\ dh = chains'[c]
        OBVIOUS
      <4>2. \A k \in 1 .. Len(releases) : \A v \in Seq(MirrorReleases) :
              Endorse(ch, v, releases[k]) = Endorse(dh, v, releases[k])
        BY <3>3, <4>1
      <4>3. VerifyChainOfEndorsements(ch, releases) = VerifyChainOfEndorsements(dh, releases)
        BY <2>2, <4>2, EndorseAlike
      <4> QED
        BY <4>1, <4>3
    <3> QED
      BY <2>1, <3>4 DEF Computed
  <2> QED
    BY <2>3 DEF ReleaseTypeOK
<1> QED
  BY <1>1, AlwaysComputed, ReleaseTypeCorrect, PTL DEF ReleaseSpec, SettledHistory
=============================================================================
