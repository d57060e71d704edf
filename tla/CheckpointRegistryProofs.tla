---------------------- MODULE CheckpointRegistryProofs ----------------------
(***************************************************************************)
(* What the checkpoint bot promises when its runs do not overlap.  The     *)
(* bot's code keeps no lock; a workflow that starts one run at a time is   *)
(* the hypothesis MaxRunning = 1 of every theorem here.                    *)
(***************************************************************************)
EXTENDS CheckpointRegistry, VerifierProofs, FiniteSetTheorems, SequenceTheorems

Busy == {"fetch", "rows", "decide", "append"}

(* One run at a time, and it has seen the file as it is.                    *)
OneRun ==
  /\ phase \in [Run -> Busy \cup {"idle", "done"}]
  /\ \A r, q \in Run : phase[r] \in Busy /\ phase[q] \in Busy => r = q

UpToDate ==
  /\ read \in [Run -> Seq(Row)]
  /\ \A r \in Run : phase[r] \in {"decide", "append"} => read[r] = rows

(* No row is dated after the clock of the run under way, or after the time.  *)
NothingAhead ==
  /\ now \in Nat /\ clock \in [Run -> Nat]
  /\ \A k \in DOMAIN rows : rows[k].observed <= now
  /\ \A r \in Run : phase[r] \in Busy =>
       /\ clock[r] <= now
       /\ \A k \in DOMAIN rows : rows[k].observed <= clock[r]

(* The dates of the whole file are in order. *)
FileInOrder ==
  /\ rows \in Seq(Row)
  /\ \A j, k \in DOMAIN rows : j < k => rows[j].observed <= rows[k].observed

(* The run that is about to append passed the rules on what it read.         *)
Decided ==
  /\ sub \in [Run -> Submissions \cup {Nothing}]
  /\ fetched \in [Run -> Fetched]
  /\ \A r \in Run :
       /\ phase[r] \in Busy => sub[r] \in Submissions
       /\ phase[r] \in {"rows", "decide", "append"} => fetched[r] # "none"
       /\ phase[r] = "append" => Passes(CheckpointRules(sub[r], fetched[r], read[r], clock[r]))

(* No verdict is the tamper alarm. *)
Verdicts ==
  verdict \in [Run -> (Reason \ {"not-append-only"}) \cup {"none", "ok"}]

Serial == OneRun /\ UpToDate /\ NothingAhead /\ FileInOrder /\ Decided /\ Verdicts

-----------------------------------------------------------------------------
(* LEMMAS *)

(* Running is the set of busy runs; with a bound of one it is empty when a   *)
(* run starts.                                                               *)
LEMMA StartAlone ==
  ASSUME OneRun, MaxRunning = 1, Cardinality(Running) < MaxRunning, NEW q \in Run
  PROVE  phase[q] \notin Busy
<1>1. IsFiniteSet(Running)
  BY FS_Subset, RegistryAssumption DEF Running
<1>2. Running = {}
  BY <1>1, FS_CardinalityType, FS_EmptySet
<1> QED
  BY <1>2 DEF Running, Busy

(* Removing a row keeps the rows and their order.                            *)
LEMMA RemoveRow ==
  ASSUME NEW rs \in Seq(Row), NEW k \in DOMAIN rs
  PROVE  /\ RemoveAt(rs, k) \in Seq(Row)
         /\ Len(RemoveAt(rs, k)) = Len(rs) - 1
         /\ \A i \in DOMAIN RemoveAt(rs, k) :
              RemoveAt(rs, k)[i] = rs[IF i < k THEN i ELSE i + 1]
<1>1. SubSeq(rs, 1, k - 1) \in Seq(Row) /\ Len(SubSeq(rs, 1, k - 1)) = k - 1
  OBVIOUS
<1>2. SubSeq(rs, k + 1, Len(rs)) \in Seq(Row) /\ Len(SubSeq(rs, k + 1, Len(rs))) = Len(rs) - k
  OBVIOUS
<1> DEFINE x == SubSeq(rs, 1, k - 1)
           y == SubSeq(rs, k + 1, Len(rs))
<1>3. /\ RemoveAt(rs, k) \in Seq(Row)
      /\ Len(RemoveAt(rs, k)) = Len(rs) - 1
      /\ \A i \in 1 .. Len(rs) - 1 :
           RemoveAt(rs, k)[i] = IF i <= k - 1 THEN x[i] ELSE y[i - (k - 1)]
  <2> HIDE DEF x, y
  <2>1. RemoveAt(rs, k) = x \o y
    BY DEF RemoveAt, x, y
  <2>2. x \in Seq(Row) /\ y \in Seq(Row) /\ Len(x) = k - 1 /\ Len(y) = Len(rs) - k
    BY <1>1, <1>2 DEF x, y
  <2>3. /\ x \o y \in Seq(Row)
        /\ Len(x \o y) = Len(x) + Len(y)
        /\ \A i \in 1 .. Len(x) + Len(y) :
             (x \o y)[i] = IF i <= Len(x) THEN x[i] ELSE y[i - Len(x)]
    BY <2>2, ConcatProperties, Zenon
  <2>4. k - 1 + (Len(rs) - k) = Len(rs) - 1 /\ k \in Int /\ Len(rs) \in Nat
    OBVIOUS
  <2> QED
    BY <2>1, <2>2, <2>3, <2>4
<1>4. \A i \in 1 .. k - 1 : x[i] = rs[i]
  OBVIOUS
<1>5. \A i \in 1 .. Len(rs) - k : y[i] = rs[k + i]
  OBVIOUS
<1> HIDE DEF x, y
<1>6. DOMAIN RemoveAt(rs, k) = 1 .. Len(rs) - 1
  BY <1>3
<1>7. ASSUME NEW i \in 1 .. Len(rs) - 1
      PROVE  RemoveAt(rs, k)[i] = rs[IF i < k THEN i ELSE i + 1]
  <2>1. CASE i < k
    <3>1. i \in 1 .. k - 1 /\ i <= k - 1
      BY <2>1
    <3> QED
      BY <2>1, <3>1, <1>3, <1>4
  <2>2. CASE ~ (i < k)
    <3>1. i - (k - 1) \in 1 .. Len(rs) - k /\ ~ (i <= k - 1) /\ k + (i - (k - 1)) = i + 1
      BY <2>2
    <3> QED
      BY <2>2, <3>1, <1>3, <1>5
  <2> QED
    BY <2>1, <2>2
<1> QED
  BY <1>3, <1>6, <1>7, Zenon

(* The rows that are not dated in the future raise no alarm, so a failing    *)
(* submission is refused for another reason.                                 *)
LEMMA NoAlarm ==
  ASSUME NEW s \in Submissions, NEW f \in Fetched \ {"none"}, NEW rs \in Seq(Row), NEW t \in Nat,
         \A k \in DOMAIN rs : rs[k].observed <= t
  PROVE  Verdict(CheckpointRules(s, f, rs, t)) \in (Reason \ {"not-append-only"}) \cup {"ok"}
<1> DEFINE R == (Reason \ {"not-append-only"}) \cup {"ok"}
<1>1. SubmissionRules(s, f, t) \in Seq(R)
  <2>1. RequestRules(s, t) \in Seq(R)
    BY DEF RequestRules, Rule, Reason
  <2> QED
    BY <2>1 DEF SubmissionRules, Rule, Reason, Fetched
<1>2. WitnessRules(s, rs, t) \in Seq(R)
  <2>1. ASSUME NEW k \in RowsOf(rs, s.track) PROVE ~FromTheFuture(rs[k], t)
    <3>1. k \in DOMAIN rs
      BY DEF RowsOf
    <3>2. rs[k] \in Row /\ rs[k].observed <= t
      BY <3>1
    <3>3. rs[k].observed \in Nat
      BY <3>2 DEF Row
    <3> QED
      BY <3>2, <3>3 DEF FromTheFuture
  <2>2. CASE RowsOf(rs, s.track) = {}
    BY <2>2 DEF WitnessRules
  <2>3. CASE RowsOf(rs, s.track) # {}
    <3>1. Rule("not-append-only", \A k \in RowsOf(rs, s.track) : ~FromTheFuture(rs[k], t)) = "ok"
      BY <2>1, Zenon DEF Rule
    <3>2. Rule("no-op", s.hash # LatestHash(rs, s.track)) \in {"no-op", "ok"}
      BY Zenon DEF Rule
    <3>3. Rule("continuity-broken", LatestHash(rs, s.track) \in ValidHashes(s))
            \in {"continuity-broken", "ok"}
      BY Zenon DEF Rule
    <3> QED
      <4> DEFINE r1 == Rule("no-op", s.hash # LatestHash(rs, s.track))
                 r2 == Rule("continuity-broken", LatestHash(rs, s.track) \in ValidHashes(s))
                 r3 == Rule("not-append-only", \A k \in RowsOf(rs, s.track) : ~FromTheFuture(rs[k], t))
      <4>1. r1 \in R /\ r2 \in R /\ r3 \in R
        BY <3>1, <3>2, <3>3 DEF Reason
      <4>2. WitnessRules(s, rs, t) = <<r1, r2, r3>>
        BY <2>3 DEF WitnessRules
      <4> HIDE DEF r1, r2, r3
      <4> QED
        BY <4>1, <4>2
  <2> QED
    BY <2>2, <2>3
<1>3. CheckpointRules(s, f, rs, t) \in Seq(R)
  BY <1>1, <1>2 DEF CheckpointRules
<1> HIDE DEF R
<1> QED
  <2>1. CASE Passes(CheckpointRules(s, f, rs, t))
    BY <2>1 DEF Verdict
  <2>2. CASE ~Passes(CheckpointRules(s, f, rs, t))
    BY <1>3, <2>2, FirstFailureType DEF Verdict, R
  <2> QED
    BY <2>1, <2>2

(* The first entry of the second list follows the last of the first.         *)
LEMMA ConcatAt ==
  ASSUME NEW S, NEW a \in Seq(S), NEW b \in Seq(S), Len(b) > 0
  PROVE  Len(a) + 1 \in DOMAIN (a \o b) /\ (a \o b)[Len(a) + 1] = b[1]
  OBVIOUS

(* What passed all rules does not repeat the latest row of its track.        *)
LEMMA PassesChange ==
  ASSUME NEW s, NEW f, NEW rs, NEW t,
         Passes(CheckpointRules(s, f, rs, t)), RowsOf(rs, s.track) # {}
  PROVE  s.hash # LatestHash(rs, s.track)
<1> DEFINE A == SubmissionRules(s, f, t)
           B == WitnessRules(s, rs, t)
           W == Reason \cup {"ok", f}
           NoOp == Rule("no-op", s.hash # LatestHash(rs, s.track))
<1>1. A \in Seq(W) /\ Len(A) = 10
  <2> DEFINE Q == RequestRules(s, t)
             r1 == Rule("payload-malformed", s.defect # "payload")
             r2 == Rule(f, f = "ok")
             r3 == Rule("hash-format-invalid", s.defect # "hash")
             r4 == Rule("request-repo-mismatch", s.bound)
             r5 == Rule("chain-invalid", SourceChain(s).accepted # <<>>)
             r6 == Rule("hash-not-in-history", s.hash \in ValidHashes(s))
             F == <<r1, r2, r3, r4, r5, r6>>
  <2>1. Q \in Seq(W) /\ Len(Q) = 4
    BY DEF RequestRules, Rule, Reason
  <2>2. r1 \in W /\ r2 \in W /\ r3 \in W /\ r4 \in W /\ r5 \in W /\ r6 \in W
    BY Zenon DEF Rule, Reason
  <2>3. A = F \o Q
    BY DEF SubmissionRules
  <2> HIDE DEF Q, r1, r2, r3, r4, r5, r6, A, W
  <2>4. F \in Seq(W) /\ Len(F) = 6
    BY <2>2
  <2> HIDE DEF F
  <2>5. F \o Q \in Seq(W) /\ Len(F \o Q) = Len(F) + Len(Q)
    BY <2>1, <2>4, ConcatProperties, Zenon
  <2> QED
    BY <2>1, <2>3, <2>4, <2>5
<1>2. B \in Seq(W) /\ Len(B) = 3 /\ B[1] = NoOp
  <2> DEFINE Cont == Rule("continuity-broken", LatestHash(rs, s.track) \in ValidHashes(s))
             Tail3 == Rule("not-append-only", \A k \in RowsOf(rs, s.track) : ~FromTheFuture(rs[k], t))
  <2>1. NoOp \in W /\ Cont \in W /\ Tail3 \in W
    BY Zenon DEF Rule, Reason
  <2>2. B = <<NoOp, Cont, Tail3>>
    BY DEF WitnessRules
  <2> HIDE DEF NoOp, Cont, Tail3, B
  <2> QED
    BY <2>1, <2>2
<1> HIDE DEF A, B, W
<1>3. 11 \in DOMAIN (A \o B) /\ (A \o B)[11] = B[1]
  <2>1. Len(A) + 1 \in DOMAIN (A \o B) /\ (A \o B)[Len(A) + 1] = B[1]
    <3>1. A \in Seq(W) /\ B \in Seq(W) /\ Len(B) > 0
      BY <1>1, <1>2
    <3> QED
      BY <3>1, ConcatAt, Zenon
  <2> QED
    BY <1>1, <2>1
<1>4. NoOp = "ok"
  BY <1>2, <1>3 DEF CheckpointRules, Passes, A, B
<1> QED
  BY <1>4 DEF Rule

-----------------------------------------------------------------------------
(* THE INVARIANT *)

LEMMA SerialInit == Init => Serial
<1> SUFFICES ASSUME Init PROVE Serial
  OBVIOUS
<1> USE DEF Init
<1>1. OneRun
  BY DEF OneRun, Busy
<1>2. UpToDate
  BY DEF UpToDate
<1>3. NothingAhead
  BY DEF NothingAhead, Busy
<1>4. FileInOrder
  BY DEF FileInOrder
<1>5. Decided
  BY DEF Decided, Busy, Fetched
<1>6. Verdicts
  BY DEF Verdicts
<1> QED
  BY <1>1, <1>2, <1>3, <1>4, <1>5, <1>6 DEF Serial

(* A run that ends leaves nothing for the others to disagree with.           *)
LEMMA SerialEnd ==
  ASSUME Serial, NEW r \in Run, phase[r] \in Busy, End(r)
  PROVE  /\ OneRun' /\ Decided'
         /\ \A q \in Run : phase'[q] \notin Busy
         /\ read' \in [Run -> Seq(Row)] /\ clock' \in [Run -> Nat]
<1> USE DEF Serial
<1>1. \A q \in Run : phase'[q] \notin Busy
  BY DEF End, OneRun, Busy
<1>2. OneRun'
  BY <1>1 DEF End, OneRun, Busy
<1>3. Decided'
  BY <1>1 DEF End, Decided, Busy, Fetched
<1>4. read' \in [Run -> Seq(Row)] /\ clock' \in [Run -> Nat]
  BY DEF End, UpToDate, NothingAhead
<1> QED
  BY <1>1, <1>2, <1>3, <1>4

(* Whatever the bot does next, Serial stays true. *)
LEMMA SerialStep ==
  ASSUME MaxRunning = 1, Serial, [Next]_vars
  PROVE  Serial'
<1> USE DEF Serial
<1>1. CASE UNCHANGED vars
  BY <1>1 DEF vars, OneRun, UpToDate, NothingAhead, FileInOrder, Decided, Verdicts
<1>2. CASE Tick
  <2>1. NothingAhead'
    <3>1. now' = now + 1 /\ now \in Nat /\ UNCHANGED <<rows, phase, clock>>
      BY <1>2 DEF Tick, NothingAhead
    <3>2. \A k \in DOMAIN rows : rows[k].observed \in Nat
      <4> SUFFICES ASSUME NEW k \in DOMAIN rows PROVE rows[k].observed \in Nat
        OBVIOUS
      <4>1. rows[k] \in Row
        BY DEF FileInOrder
      <4> QED
        BY <4>1 DEF Row
    <3> QED
      BY <3>1, <3>2 DEF NothingAhead
  <2> QED
    BY <1>2, <2>1 DEF Tick, OneRun, UpToDate, FileInOrder, Decided, Verdicts
<1>3. ASSUME NEW r \in Run, NEW s \in Submissions, Start(r, s) PROVE Serial'
  <2>1. \A q \in Run : phase[q] \notin Busy
    BY <1>3, StartAlone DEF Start
  <2>2. phase' = [phase EXCEPT ![r] = "fetch"] /\ sub' = [sub EXCEPT ![r] = s]
        /\ clock' = [clock EXCEPT ![r] = now]
        /\ UNCHANGED <<rows, fetched, read, verdict, now>>
    BY <1>3 DEF Start
  <2>3. OneRun' /\ UpToDate'
    BY <2>1, <2>2 DEF OneRun, UpToDate, Busy
  <2>4. NothingAhead'
    BY <2>1, <2>2 DEF NothingAhead, OneRun
  <2>5. Decided'
    BY <2>1, <2>2 DEF Decided, OneRun, Busy
  <2> QED
    BY <2>2, <2>3, <2>4, <2>5 DEF FileInOrder, Verdicts
<1>4. ASSUME NEW r \in Run, NEW f \in Fetched \ {"none"}, FetchProjectChain(r, f) PROVE Serial'
  <2>1. phase[r] = "fetch" /\ phase' = [phase EXCEPT ![r] = "rows"]
        /\ fetched' = [fetched EXCEPT ![r] = f]
        /\ UNCHANGED <<rows, sub, clock, read, verdict, now>>
    BY <1>4 DEF FetchProjectChain
  <2>2. OneRun' /\ UpToDate'
    BY <2>1 DEF OneRun, UpToDate, Busy
  <2>3. NothingAhead' /\ Decided'
    BY <2>1 DEF NothingAhead, Decided, OneRun, Busy
  <2> QED
    BY <2>1, <2>2, <2>3 DEF FileInOrder, Verdicts
<1>5. ASSUME NEW r \in Run, ReadExistingRows(r) PROVE Serial'
  <2>1. phase[r] = "rows" /\ phase' = [phase EXCEPT ![r] = "decide"]
        /\ read' = [read EXCEPT ![r] = rows]
        /\ UNCHANGED <<rows, sub, clock, fetched, verdict, now>>
    BY <1>5 DEF ReadExistingRows
  <2>2. OneRun'
    BY <2>1 DEF OneRun, Busy
  <2>3. UpToDate'
    BY <2>1 DEF UpToDate, OneRun, FileInOrder, Busy
  <2>4. NothingAhead' /\ Decided'
    <3>1. \A q \in Run : phase'[q] = "append" => q # r /\ read'[q] = read[q] /\ phase[q] = "append"
      BY <2>1 DEF OneRun, UpToDate
    <3>2. NothingAhead'
      BY <2>1 DEF NothingAhead, OneRun, Busy
    <3> QED
      BY <2>1, <3>1, <3>2 DEF Decided, OneRun, Busy
  <2> QED
    BY <2>1, <2>2, <2>3, <2>4 DEF FileInOrder, Verdicts
<1>6. ASSUME NEW r \in Run, Validate(r) PROVE Serial'
  <2> DEFINE rules == CheckpointRules(sub[r], fetched[r], read[r], clock[r])
  <2>1. phase[r] = "decide" /\ verdict' = [verdict EXCEPT ![r] = Verdict(rules)]
        /\ UNCHANGED <<rows, now>>
    BY <1>6 DEF Validate
  <2>2. Verdicts'
    <3>1. sub[r] \in Submissions /\ fetched[r] \in Fetched \ {"none"}
          /\ read[r] \in Seq(Row) /\ clock[r] \in Nat
          /\ \A k \in DOMAIN read[r] : read[r][k].observed <= clock[r]
      BY <2>1 DEF Decided, UpToDate, NothingAhead, Busy
    <3>2. Verdict(rules) \in (Reason \ {"not-append-only"}) \cup {"ok"}
      BY <3>1, NoAlarm
    <3> HIDE DEF rules
    <3> QED
      BY <2>1, <3>2 DEF Verdicts
  <2>3. FileInOrder'
    BY <2>1 DEF FileInOrder
  <2>4. CASE Passes(rules) /\ phase' = [phase EXCEPT ![r] = "append"]
             /\ UNCHANGED <<sub, clock, fetched, read>>
    <3>1. OneRun' /\ UpToDate'
      BY <2>1, <2>4 DEF OneRun, UpToDate, Busy
    <3>2. NothingAhead'
      BY <2>1, <2>4 DEF NothingAhead, OneRun, Busy
    <3>3. Decided'
      BY <2>1, <2>4 DEF Decided, OneRun, Busy
    <3> QED
      BY <2>2, <2>3, <3>1, <3>2, <3>3
  <2>5. CASE End(r)
    <3>1. OneRun' /\ Decided' /\ (\A q \in Run : phase'[q] \notin Busy)
          /\ read' \in [Run -> Seq(Row)] /\ clock' \in [Run -> Nat]
      BY <2>1, <2>5, SerialEnd DEF Busy
    <3>2. UpToDate' /\ NothingAhead'
      BY <2>1, <3>1 DEF UpToDate, NothingAhead, Busy
    <3> QED
      BY <2>2, <2>3, <3>1, <3>2
  <2> QED
    BY <1>6, <2>4, <2>5 DEF Validate
<1>7. ASSUME NEW r \in Run, AppendCsvLine(r) PROVE Serial'
  <2> DEFINE row == AcceptRow(sub[r], read[r], clock[r])
  <2>1. phase[r] = "append" /\ rows' = Append(rows, row) /\ End(r) /\ UNCHANGED <<verdict, now>>
    BY <1>7 DEF AppendCsvLine
  <2>2. row \in Row /\ row.observed = clock[r]
    <3>1. sub[r] \in Submission /\ clock[r] \in Nat
      BY <2>1, RegistryAssumption DEF Decided, NothingAhead, Busy
    <3>2. OverCap(read[r], sub[r].track, clock[r]) \in BOOLEAN
      BY DEF OverCap
    <3> QED
      BY <3>1, <3>2 DEF AcceptRow, Row, Submission
  <2> HIDE DEF row
  <2>3. OneRun' /\ Decided' /\ (\A q \in Run : phase'[q] \notin Busy)
        /\ read' \in [Run -> Seq(Row)] /\ clock' \in [Run -> Nat]
    BY <2>1, SerialEnd DEF Busy
  <2>4. rows \in Seq(Row) /\ clock[r] <= now
        /\ \A k \in DOMAIN rows : rows[k].observed <= clock[r]
    BY <2>1 DEF FileInOrder, NothingAhead, Busy
  <2>5. /\ rows' \in Seq(Row) /\ DOMAIN rows' = 1 .. Len(rows) + 1
        /\ \A k \in DOMAIN rows : rows'[k] = rows[k]
        /\ rows'[Len(rows) + 1] = row
    BY <2>1, <2>2, <2>4
  <2>6. FileInOrder'
    BY <2>2, <2>4, <2>5 DEF FileInOrder
  <2>7. NothingAhead'
    BY <2>1, <2>2, <2>3, <2>4, <2>5 DEF NothingAhead
  <2>8. UpToDate'
    BY <2>3 DEF UpToDate, Busy
  <2> QED
    BY <2>1, <2>3, <2>6, <2>7, <2>8 DEF Verdicts
<1>8. ASSUME NEW k \in DOMAIN rows, Prune(k) PROVE Serial'
  <2>1. Running = {} /\ rows' = RemoveAt(rows, k)
        /\ UNCHANGED <<phase, sub, clock, fetched, read, verdict, now>>
    BY <1>8 DEF Prune
  <2>2. \A q \in Run : phase[q] \notin Busy
    BY <2>1 DEF Running, Busy
  <2>3. /\ rows' \in Seq(Row)
        /\ \A i \in DOMAIN rows' : /\ (IF i < k THEN i ELSE i + 1) \in DOMAIN rows
                                  /\ rows'[i] = rows[IF i < k THEN i ELSE i + 1]
    BY <2>1, RemoveRow DEF FileInOrder
  <2>4. FileInOrder'
    BY <2>3 DEF FileInOrder
  <2>5. UpToDate' /\ NothingAhead'
    BY <2>1, <2>2, <2>3 DEF UpToDate, NothingAhead, Busy
  <2> QED
    BY <2>1, <2>4, <2>5 DEF OneRun, Decided, Verdicts
<1> QED
  BY <1>1, <1>2, <1>3, <1>4, <1>5, <1>6, <1>7, <1>8 DEF Next, Step

LEMMA SerialAlways ==
  ASSUME MaxRunning = 1
  PROVE  Spec => []Serial
<1>1. Serial /\ [Next]_vars => Serial'
  BY SerialStep
<1> QED
  BY <1>1, SerialInit, PTL DEF Spec

-----------------------------------------------------------------------------
(* THEOREMS *)

(* The dates of a track's rows are in order, whatever is submitted and       *)
(* pruned: rules 7 and 8 of checkpointBot.ts.                                *)
THEOREM DatesStayInOrder ==
  ASSUME MaxRunning = 1
  PROVE  Spec => []DatesInOrder
<1>1. Serial => DatesInOrder
  BY DEF Serial, FileInOrder, DatesInOrder
<1> QED
  BY <1>1, SerialAlways, PTL

(* No submission is ever refused as tampering: the alarm of rule 7 is true.  *)
THEOREM AlarmIsTrue ==
  ASSUME MaxRunning = 1
  PROVE  Spec => []NoFalseTamperAlarm
<1>1. Serial => NoFalseTamperAlarm
  BY DEF Serial, Verdicts, Reason, NoFalseTamperAlarm
<1> QED
  BY <1>1, SerialAlways, PTL

(* Only the append makes the file longer.                                    *)
LEMMA OnlyAppendGrows ==
  ASSUME Serial, [Next]_vars, Appended
  PROVE  \E r \in Run :
           /\ phase[r] = "append"
           /\ read[r] = rows
           /\ sub[r] \in Submissions
           /\ rows' = Append(rows, AcceptRow(sub[r], rows, clock[r]))
           /\ Passes(CheckpointRules(sub[r], fetched[r], rows, clock[r]))
<1> USE DEF Serial
<1>1. rows \in Seq(Row) /\ Len(rows') # Len(rows)
  BY DEF FileInOrder, Appended
<1>2. ~UNCHANGED vars /\ ~Tick
  BY <1>1 DEF vars, Tick
<1>3. ASSUME NEW k \in DOMAIN rows, Prune(k) PROVE FALSE
  <2>1. Len(rows') = Len(rows) - 1
    BY <1>1, <1>3, RemoveRow DEF Prune
  <2> QED
    BY <1>1, <2>1 DEF Appended
<1>4. PICK r \in Run : Step(r)
  BY <1>2, <1>3 DEF Next
<1>5. AppendCsvLine(r)
  BY <1>1, <1>4 DEF Step, Start, FetchProjectChain, ReadExistingRows, Validate
<1>6. phase[r] = "append" /\ rows' = Append(rows, AcceptRow(sub[r], read[r], clock[r]))
  BY <1>5 DEF AppendCsvLine
<1>7. read[r] = rows /\ sub[r] \in Submissions
      /\ Passes(CheckpointRules(sub[r], fetched[r], read[r], clock[r]))
  BY <1>6 DEF UpToDate, Decided, Busy
<1> QED
  BY <1>6, <1>7

(* Rule 10: the registry records only changes.                               *)
THEOREM OnlyChanges ==
  ASSUME MaxRunning = 1
  PROVE  Spec => RecordsOnlyChanges
<1>1. Serial /\ [Next]_vars =>
        [Appended =>
           \A k \in RowsOf(rows, Last(rows').track) :
             \/ \E j \in RowsOf(rows, Last(rows').track) : k < j
             \/ rows[k].hash # Last(rows').hash]_rows
  <2> SUFFICES ASSUME Serial, [Next]_vars, Appended,
                      NEW k \in RowsOf(rows, Last(rows').track),
                      \A j \in RowsOf(rows, Last(rows').track) : ~ (k < j)
               PROVE  rows[k].hash # Last(rows').hash
    OBVIOUS
  <2>1. PICK r \in Run :
           /\ sub[r] \in Submissions
           /\ rows' = Append(rows, AcceptRow(sub[r], rows, clock[r]))
           /\ Passes(CheckpointRules(sub[r], fetched[r], rows, clock[r]))
    BY OnlyAppendGrows
  <2> DEFINE row == AcceptRow(sub[r], rows, clock[r])
  <2>2. rows \in Seq(Row)
    BY DEF Serial, FileInOrder
  <2>3. Last(rows') = row
    <3> HIDE DEF row
    <3>1. rows' = Append(rows, row)
      BY <2>1 DEF row
    <3>2. Len(rows') = Len(rows) + 1 /\ rows'[Len(rows) + 1] = row
      BY <2>2, <3>1
    <3> QED
      BY <3>2 DEF Last
  <2>4. row.track = sub[r].track /\ row.hash = sub[r].hash
    BY DEF AcceptRow
  <2> HIDE DEF row
  <2> DEFINE mine == RowsOf(rows, sub[r].track)
  <2>5. k \in mine /\ mine \subseteq Nat /\ \A j \in mine : j <= k
    BY <2>2, <2>3, <2>4 DEF RowsOf
  <2>6. LatestHash(rows, sub[r].track) = rows[k].hash
    <3>1. \A i \in mine : (\A j \in mine : j <= i) => i = k
      BY <2>5
    <3>2. (CHOOSE i \in mine : \A j \in mine : j <= i) = k
      BY <2>5, <3>1
    <3> QED
      BY <3>2 DEF LatestHash
  <2>7. sub[r].hash # LatestHash(rows, sub[r].track)
    BY <2>1, <2>5, PassesChange
  <2> QED
    BY <2>3, <2>4, <2>6, <2>7
<1> QED
  BY <1>1, SerialAlways, PTL DEF Spec, RecordsOnlyChanges

(* Rule 11: a row is flagged exactly if its track is over the cap with it.   *)
THEOREM FlaggedExactly ==
  ASSUME MaxRunning = 1, Window > 0
  PROVE  Spec => FlaggedOverCap
<1> DEFINE Flagged ==
      Appended =>
        LET new == Last(rows')
            window == {k \in DOMAIN rows' : /\ rows'[k].track = new.track
                                            /\ new.observed - Window < rows'[k].observed}
        IN  new.flagged <=> Cardinality(window) > RateCap
<1>1. Serial /\ [Next]_vars => [Flagged]_rows
  <2> SUFFICES ASSUME Serial, [Next]_vars, Appended PROVE Flagged
    OBVIOUS
  <2>1. PICK r \in Run :
           /\ phase[r] = "append"
           /\ sub[r] \in Submissions
           /\ rows' = Append(rows, AcceptRow(sub[r], rows, clock[r]))
    BY OnlyAppendGrows
  <2> DEFINE t == clock[r]
             track == sub[r].track
             row == AcceptRow(sub[r], rows, t)
             old == {k \in RowsOf(rows, track) : InWindow(rows[k], t)}
             window == {k \in DOMAIN rows' : /\ rows'[k].track = row.track
                                             /\ row.observed - Window < rows'[k].observed}
  <2>2. rows \in Seq(Row) /\ t \in Nat /\ Window \in Nat
        /\ \A k \in DOMAIN rows : rows[k].observed <= t
    BY <2>1, RegistryAssumption DEF Serial, FileInOrder, NothingAhead, Busy
  <2>3. row.track = track /\ row.observed = t
        /\ (row.flagged <=> Cardinality(old) + 1 > RateCap)
    BY DEF AcceptRow, OverCap
  <2> HIDE DEF row
  <2>4. /\ DOMAIN rows' = 1 .. Len(rows) + 1 /\ Len(rows') = Len(rows) + 1
        /\ \A k \in DOMAIN rows : rows'[k] = rows[k]
        /\ rows'[Len(rows) + 1] = row
    BY <2>1, <2>2 DEF row
  <2>5. window = old \cup {Len(rows) + 1}
    <3>1. ASSUME NEW k \in DOMAIN rows PROVE k \in window <=> k \in old
      <4>1. rows'[k] = rows[k] /\ k \in DOMAIN rows' /\ rows[k].observed <= t
        BY <2>2, <2>4
      <4> QED
        BY <2>3, <4>1 DEF RowsOf, InWindow
    <3>2. Len(rows) + 1 \in window
      <4>1. t - Window < t
        BY <2>2
      <4> QED
        BY <2>3, <2>4, <4>1
    <3>3. DOMAIN rows' = DOMAIN rows \cup {Len(rows) + 1}
      BY <2>2, <2>4
    <3>4. window \subseteq DOMAIN rows' /\ old \subseteq DOMAIN rows
      BY DEF RowsOf
    <3> HIDE DEF window, old
    <3> QED
      BY <3>1, <3>2, <3>3, <3>4
  <2>6. IsFiniteSet(old) /\ Len(rows) + 1 \notin old
    <3>1. old \in SUBSET (1 .. Len(rows)) /\ Len(rows) \in Nat
      BY <2>2 DEF RowsOf
    <3> HIDE DEF old
    <3>2. IsFiniteSet(1 .. Len(rows)) /\ Len(rows) + 1 \notin 1 .. Len(rows)
      BY <3>1, FS_Interval
    <3>3. IsFiniteSet(old)
      BY <3>1, <3>2, FS_Subset, Zenon
    <3> QED
      BY <3>1, <3>2, <3>3
  <2>7. Cardinality(window) = Cardinality(old) + 1
    <3> HIDE DEF window, old
    <3> QED
      BY <2>5, <2>6, FS_AddElement
  <2>8. Last(rows') = row
    BY <2>4 DEF Last
  <2> QED
    BY <2>3, <2>7, <2>8
<1> QED
  BY <1>1, SerialAlways, PTL DEF Spec, FlaggedOverCap
=============================================================================
