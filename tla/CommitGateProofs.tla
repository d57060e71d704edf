-------------------------- MODULE CommitGateProofs --------------------------
(***************************************************************************)
(* What the worker promises, for any number of concurrent requests and     *)
(* whatever calls fail.  Whatever they carry, a new path has one winner,   *)
(* and a request that nobody overtook commits what the policy accepts of   *)
(* the repository it commits to.  From clients that name their files with  *)
(* care, and until somebody is overtaken, what was acknowledged is in      *)
(* effect and what GET /verify reported is never taken back.               *)
(***************************************************************************)
EXTENDS CommitGate, VerifierProofs

-----------------------------------------------------------------------------
(* ONE WINNER *)

(* A request that was told "ok" is over, and its file exists ever since.     *)
Settled ==
  /\ files \in [Path -> Envelope \cup {NoFile}]
  /\ phase \in [Request -> Phase]
  /\ answer \in [Request -> {"none", "ok", "refused", "failed"}]
  /\ DOMAIN sha = Request /\ DOMAIN job = Request
  /\ \A r \in Request :
       /\ phase[r] # "idle" => job[r] \in Jobs
       /\ answer[r] = "ok" => phase[r] = "done" /\ files[job[r].path] # NoFile

(* Whatever the worker does next, Settled stays true. *)
LEMMA SettledStep ==
  ASSUME Settled, [Next]_vars
  PROVE  Settled'
<1> USE DEF Settled
<1>1. CASE UNCHANGED vars
  BY <1>1 DEF vars
<1>2. CASE Tick
  BY <1>2 DEF Tick
<1>3. ASSUME NEW r \in Request, NEW j \in Jobs, Arrive(r, j) PROVE Settled'
  BY <1>3 DEF Arrive, Finish, Phase
<1>4. ASSUME NEW r \in Request, ListFiles(r) PROVE Settled'
  BY <1>4 DEF ListFiles, Phase
<1>5. ASSUME NEW r \in Request, ReadFile(r) PROVE Settled'
  BY <1>5 DEF ReadFile
<1>6. ASSUME NEW r \in Request, DecideNow(r) PROVE Settled'
  <2>1. CASE phase' = [phase EXCEPT ![r] = "sha"] /\ UNCHANGED answer
    BY <1>6, <2>1 DEF DecideNow, Phase
  <2>2. CASE Finish(r, "refused")
    BY <1>6, <2>2 DEF DecideNow, Finish, Phase
  <2> QED
    BY <1>6, <2>1, <2>2 DEF DecideNow
<1>7. ASSUME NEW r \in Request, FetchFileSha(r) PROVE Settled'
  BY <1>7 DEF FetchFileSha, Phase
<1>8. ASSUME NEW r \in Request, PutFile(r) PROVE Settled'
  <2>1. job[r] \in Job
    BY <1>8, GateAssumption DEF PutFile
  <2>2. job[r].path \in Path /\ job[r].envelope \in Envelope /\ job[r].envelope # NoFile
    BY <2>1, GateAssumption DEF Job
  <2>3. CASE files' = [files EXCEPT ![job[r].path] = job[r].envelope]
    <3>1. \A q \in Request : files[job[q].path] # NoFile /\ phase[q] # "idle"
                               => files'[job[q].path] # NoFile
      <4> SUFFICES ASSUME NEW q \in Request, files[job[q].path] # NoFile, phase[q] # "idle"
                   PROVE  files'[job[q].path] # NoFile
        OBVIOUS
      <4>1. job[q].path \in Path
        BY GateAssumption DEF Job
      <4> QED
        BY <2>2, <2>3, <4>1
    <3>2. files'[job[r].path] # NoFile
      BY <2>2, <2>3
    <3>3. files' \in [Path -> Envelope \cup {NoFile}]
      BY <2>2, <2>3
    <3>4. PICK a \in {"ok", "failed"} : Finish(r, a)
      BY <1>8 DEF PutFile
    <3> QED
      BY <1>8, <3>1, <3>2, <3>3, <3>4 DEF PutFile, Finish, Phase
  <2>4. CASE Finish(r, "failed") /\ UNCHANGED files
    BY <1>8, <2>4 DEF PutFile, Finish, Phase
  <2> QED
    BY <1>8, <2>3, <2>4 DEF PutFile, Land
<1>9. ASSUME NEW r \in Request, CallFails(r) PROVE Settled'
  BY <1>9 DEF CallFails, Finish, Phase
<1> QED
  BY <1>1, <1>2, <1>3, <1>4, <1>5, <1>6, <1>7, <1>8, <1>9 DEF Next, Step

(* Only a PUT answers "ok", and only for a path that still holds what the    *)
(* request's sha named.                                                      *)
LEMMA OkOnlyByPut ==
  ASSUME Settled, [Next]_vars, NEW r \in Request, answer[r] # "ok", answer'[r] = "ok"
  PROVE  /\ files[job[r].path] = sha[r]
         /\ \A q \in Request \ {r} : answer'[q] = answer[q]
         /\ job' = job /\ sha' = sha
<1> USE DEF Settled
<1>1. PICK q \in Request : PutFile(q)
  <2>1. ~ (UNCHANGED vars) /\ ~Tick
    BY DEF vars, Tick
  <2>2. ASSUME NEW q \in Request, Step(q) PROVE PutFile(q)
    <3>1. ~ (\E j \in Jobs : Arrive(q, j))
      BY DEF Arrive, Finish
    <3>2. ~ListFiles(q) /\ ~ReadFile(q) /\ ~FetchFileSha(q)
      BY DEF ListFiles, ReadFile, FetchFileSha
    <3>3. ~DecideNow(q)
      BY DEF DecideNow, Finish
    <3>4. ~CallFails(q)
      BY DEF CallFails, Finish
    <3> QED
      BY <2>2, <3>1, <3>2, <3>3, <3>4 DEF Step
  <2> QED
    BY <2>1, <2>2 DEF Next
<1>2. PICK a : Finish(q, a)
  BY <1>1 DEF PutFile
<1>3. q = r /\ a = "ok"
  BY <1>2 DEF Finish
<1>4. files[job[r].path] = sha[r]
  BY <1>1, <1>3 DEF PutFile, Finish
<1> QED
  BY <1>1, <1>2, <1>3, <1>4 DEF PutFile, Finish

(* A request that was answered is never touched again. *)
LEMMA AnsweredStays ==
  ASSUME Settled, [Next]_vars, NEW r \in Request, answer[r] = "ok"
  PROVE  job'[r] = job[r] /\ sha'[r] = sha[r]
<1> USE DEF Settled
<1>1. phase[r] = "done"
  OBVIOUS
<1>2. CASE UNCHANGED vars
  BY <1>2 DEF vars
<1>3. CASE Tick
  BY <1>3 DEF Tick
<1>4. ASSUME NEW q \in Request, Step(q) PROVE job'[r] = job[r] /\ sha'[r] = sha[r]
  <2>1. ASSUME NEW j \in Jobs, Arrive(q, j) PROVE job'[r] = job[r] /\ sha'[r] = sha[r]
    BY <1>1, <2>1 DEF Arrive
  <2>2. CASE FetchFileSha(q)
    BY <1>1, <2>2 DEF FetchFileSha
  <2>3. CASE ListFiles(q) \/ ReadFile(q) \/ DecideNow(q) \/ PutFile(q) \/ CallFails(q)
    BY <2>3 DEF ListFiles, ReadFile, DecideNow, PutFile, CallFails
  <2> QED
    BY <1>4, <2>1, <2>2, <2>3 DEF Step
<1> QED
  BY <1>2, <1>3, <1>4 DEF Next

(* However many requests race, at most one is told that it created a path.   *)
THEOREM OneWinner == Spec => []OneWinnerPerPath
<1>1. Init => Settled /\ OneWinnerPerPath
  BY GateAssumption DEF Init, Settled, OneWinnerPerPath, Phase
<1>2. Settled /\ OneWinnerPerPath /\ [Next]_vars => Settled' /\ OneWinnerPerPath'
  <2> SUFFICES ASSUME Settled, OneWinnerPerPath, [Next]_vars
               PROVE  OneWinnerPerPath'
    BY SettledStep
  <2> SUFFICES ASSUME NEW q \in Request, NEW r \in Request,
                      answer'[q] = "ok", answer'[r] = "ok",
                      job'[q].path = job'[r].path,
                      sha'[q] = NoFile, sha'[r] = NoFile, q # r
               PROVE  FALSE
    BY DEF OneWinnerPerPath
  <2>1. ASSUME NEW x \in Request, NEW y \in Request, x # y,
               answer'[x] = "ok", answer'[y] = "ok", answer[x] # "ok",
               job'[x].path = job'[y].path, sha'[x] = NoFile
        PROVE  FALSE
    <3>1. /\ files[job[x].path] = sha[x]
          /\ answer'[y] = answer[y]
          /\ job' = job /\ sha' = sha
      BY <2>1, OkOnlyByPut
    <3>2. files[job[y].path] # NoFile
      BY <2>1, <3>1 DEF Settled
    <3> QED
      BY <2>1, <3>1, <3>2
  <2>2. answer[q] = "ok" /\ answer[r] = "ok"
    BY <2>1
  <2>3. job'[q] = job[q] /\ sha'[q] = sha[q] /\ job'[r] = job[r] /\ sha'[r] = sha[r]
    BY <2>2, AnsweredStays
  <2> QED
    BY <2>2, <2>3 DEF OneWinnerPerPath
<1> QED
  BY <1>1, <1>2, PTL DEF Spec

-----------------------------------------------------------------------------
(* WHAT A COMMIT IS GATED ON *)

(* What r has read is the first part of the repository as it is, and what it *)
(* has yet to read is the rest.                                              *)
ReadSoFar(r) ==
  \E i \in 0 .. Len(Listing(files)) :
    /\ got[r] = SubSeq(Snapshot(files), 1, i)
    /\ todo[r] = SubSeq(Listing(files), i + 1, Len(Listing(files)))

Acceptable(r) == \E t \in 0 .. now : Decide(job[r], Snapshot(files), t)

(* The invariant: so it is for every request that nobody has overtaken, and  *)
(* once it has decided, the repository still says what it decided on.        *)
GateInv ==
  /\ now \in Nat /\ IsFiniteSet({p \in Path : files[p] # NoFile})
  /\ DOMAIN got = Request /\ DOMAIN todo = Request
  /\ \A r \in Request : phase[r] \in {"idle", "list"} => got[r] = <<>>
  /\ \A r \in Request \ overtaken :
       /\ phase[r] = "read" => ReadSoFar(r)
       /\ phase[r] \in {"sha", "put"} => Acceptable(r)

-----------------------------------------------------------------------------
(* The listing of finitely many files is a sequence, and so is a snapshot. *)
LEMMA ListingIsSequence ==
  ASSUME NEW fs, IsFiniteSet({p \in Path : fs[p] # NoFile})
  PROVE  /\ Len(Listing(fs)) \in Nat
         /\ \E S : Listing(fs) \in Seq(S)
         /\ \E S : Snapshot(fs) \in Seq(S)
         /\ Len(Snapshot(fs)) = Len(Listing(fs))
         /\ \A k \in 1 .. Len(Listing(fs)) :
              Snapshot(fs)[k] = [path |-> Listing(fs)[k], envelope |-> fs[Listing(fs)[k]]]
<1> DEFINE there == {p \in Path : fs[p] # NoFile /\ p.dir # Outside}
           n == Cardinality(there)
           list == Listing(fs)
           snap == Snapshot(fs)
<1>1. n \in Nat
  <2>1. there \in SUBSET {p \in Path : fs[p] # NoFile}
    OBVIOUS
  <2> HIDE DEF there
  <2> QED
    BY <2>1, FS_Subset, FS_CardinalityType
<1>2. DOMAIN list = 1 .. n /\ list = [k \in 1 .. n |-> list[k]]
  <2> DEFINE place == [p \in there |-> Cardinality({q \in there : q.name <= p.name})]
  <2>1. list = [k \in 1 .. n |-> CHOOSE p \in there : place[p] = k]
    BY DEF Listing
  <2> HIDE DEF list, n, place, there
  <2> QED
    BY <2>1
<1> HIDE DEF list, n
<1>3. list \in Seq({list[k] : k \in 1 .. n}) /\ Len(list) = n
  <2>1. list \in [1 .. n -> {list[k] : k \in 1 .. n}]
    BY <1>2
  <2> QED
    BY <1>1, <2>1
<1>4. snap = [k \in 1 .. n |-> [path |-> list[k], envelope |-> fs[list[k]]]]
  BY <1>2 DEF Snapshot, list
<1> HIDE DEF snap
<1>5. snap \in Seq({snap[k] : k \in 1 .. n}) /\ Len(snap) = n
  <2>1. snap \in [1 .. n -> {snap[k] : k \in 1 .. n}]
    BY <1>4
  <2> QED
    BY <1>1, <2>1
<1> QED
  BY <1>1, <1>3, <1>4, <1>5 DEF list, snap

(* Reading the next of a sequence. *)
LEMMA OneMore ==
  ASSUME NEW S, NEW s \in Seq(S), NEW i \in Nat, i < Len(s)
  PROVE  /\ SubSeq(s, i + 1, Len(s)) # <<>>
         /\ Head(SubSeq(s, i + 1, Len(s))) = s[i + 1]
         /\ Tail(SubSeq(s, i + 1, Len(s))) = SubSeq(s, (i + 1) + 1, Len(s))
         /\ Append(SubSeq(s, 1, i), s[i + 1]) = SubSeq(s, 1, i + 1)
<1> DEFINE n == Len(s)
           rest == SubSeq(s, i + 1, n)
<1>1. n \in Nat /\ i + 1 \in 1 .. n /\ n \in i + 1 .. n
  OBVIOUS
<1>2. Head(rest) = s[i + 1] /\ Tail(rest) = SubSeq(s, (i + 1) + 1, n)
  BY <1>1, HeadTailOfSubSeq
<1>3. Len(rest) = n - i
  BY <1>1
<1>4. rest # <<>>
  <2> HIDE DEF rest, n
  <2>1. Len(rest) # Len(<<>>)
    BY <1>1, <1>3
  <2> QED
    BY <2>1
<1>5. Append(SubSeq(s, 1, i), s[i + 1]) = SubSeq(s, 1, i + 1)
  BY <1>1
<1> QED
  BY <1>2, <1>4, <1>5

LEMMA GateInvStep ==
  ASSUME Settled, GateInv, [Next]_vars
  PROVE  GateInv'
<1>1. /\ now \in Nat /\ DOMAIN phase = Request /\ DOMAIN job = Request
      /\ DOMAIN got = Request /\ DOMAIN todo = Request
      /\ \A r \in Request : phase[r] \in {"idle", "list"} => got[r] = <<>>
      /\ \E S : Listing(files) \in Seq(S)
      /\ \E S : Snapshot(files) \in Seq(S)
      /\ Len(Listing(files)) \in Nat
      /\ Len(Snapshot(files)) = Len(Listing(files))
  BY ListingIsSequence DEF Settled, GateInv
(* A step of r that changes no file. *)
<1>2. ASSUME NEW r \in Request, UNCHANGED <<files, now, overtaken>>,
             DOMAIN got' = Request, DOMAIN todo' = Request,
             \A q \in Request : q # r => /\ phase'[q] = phase[q] /\ job'[q] = job[q]
                                         /\ got'[q] = got[q] /\ todo'[q] = todo[q],
             phase'[r] \in {"idle", "list"} => got'[r] = <<>>,
             phase'[r] = "read" /\ r \notin overtaken => ReadSoFar(r)',
             phase'[r] \in {"sha", "put"} /\ r \notin overtaken => Acceptable(r)'
      PROVE  GateInv'
  <2>1. ASSUME NEW q \in Request \ overtaken, q # r
        PROVE  /\ phase'[q] = "read" => ReadSoFar(q)'
               /\ phase'[q] \in {"sha", "put"} => Acceptable(q)'
    BY <1>2, <2>1 DEF GateInv, ReadSoFar, Acceptable
  <2> QED
    BY <1>1, <1>2, <2>1 DEF GateInv
<1>3. CASE UNCHANGED vars
  BY <1>3 DEF vars, GateInv, ReadSoFar, Acceptable
<1>4. CASE Tick
  <2>1. now' = now + 1 /\ UNCHANGED <<files, phase, job, todo, got, overtaken>>
    BY <1>4 DEF Tick
  <2>2. ASSUME NEW r \in Request, Acceptable(r) PROVE Acceptable(r)'
    <3>1. \A t \in 0 .. now : t \in 0 .. now'
      BY <1>1, <2>1
    <3> QED
      BY <2>1, <2>2, <3>1 DEF Acceptable
  <2> QED
    BY <1>1, <2>1, <2>2 DEF GateInv, ReadSoFar
<1>5. ASSUME NEW r \in Request, NEW j \in Jobs, Arrive(r, j) PROVE GateInv'
  <2>1. /\ phase[r] = "idle" /\ job' = [job EXCEPT ![r] = j]
        /\ UNCHANGED <<files, todo, got, now, overtaken>>
        /\ phase' \in {[phase EXCEPT ![r] = "done"], [phase EXCEPT ![r] = "list"]}
    BY <1>5 DEF Arrive, Finish
  <2> QED
    BY <1>1, <1>2, <2>1
<1>6. ASSUME NEW r \in Request, ListFiles(r) PROVE GateInv'
  <2>1. /\ phase[r] = "list" /\ phase' = [phase EXCEPT ![r] = "read"]
        /\ todo' = [todo EXCEPT ![r] = Listing(files)]
        /\ UNCHANGED <<files, job, got, now, overtaken>>
    BY <1>6 DEF ListFiles
  <2>2. got'[r] = <<>> /\ todo'[r] = Listing(files) /\ phase'[r] = "read"
    BY <1>1, <2>1
  <2>3. got'[r] = SubSeq(Snapshot(files), 1, 0)
        /\ todo'[r] = SubSeq(Listing(files), 0 + 1, Len(Listing(files)))
    BY <1>1, <2>2
  <2>4. ReadSoFar(r)'
    BY <1>1, <2>1, <2>3 DEF ReadSoFar
  <2> QED
    BY <1>1, <1>2, <2>1, <2>2, <2>4
<1>7. ASSUME NEW r \in Request, ReadFile(r) PROVE GateInv'
  <2> DEFINE entry == [path |-> Head(todo[r]), envelope |-> files[Head(todo[r])]]
  <2>1. /\ phase[r] = "read" /\ todo[r] # <<>>
        /\ todo' = [todo EXCEPT ![r] = Tail(@)]
        /\ got' = [got EXCEPT ![r] = Append(@, entry)]
        /\ UNCHANGED <<files, phase, job, now, overtaken>>
    BY <1>7 DEF ReadFile
  <2>2. todo'[r] = Tail(todo[r]) /\ got'[r] = Append(got[r], entry)
    BY <1>1, <2>1
  <2>3. ASSUME r \notin overtaken PROVE ReadSoFar(r)'
    <3> DEFINE all == Listing(files)
               snap == Snapshot(files)
    <3>1. PICK i \in 0 .. Len(all) : /\ got[r] = SubSeq(snap, 1, i)
                                     /\ todo[r] = SubSeq(all, i + 1, Len(all))
      BY <2>1, <2>3 DEF GateInv, ReadSoFar
    <3>2. \A k \in 1 .. Len(all) : snap[k] = [path |-> all[k], envelope |-> files[all[k]]]
      BY ListingIsSequence DEF GateInv
    <3>3. PICK S : all \in Seq(S)
      BY <1>1
    <3>4. PICK U : snap \in Seq(U)
      BY <1>1
    <3>5. Len(all) \in Nat /\ Len(snap) = Len(all)
      BY <1>1
    <3> HIDE DEF all, snap
    <3>6. i < Len(all) /\ i \in Nat
      <4>1. CASE i = Len(all)
        BY <2>1, <3>1, <3>3, <3>5, <4>1
      <4> QED
        BY <3>5, <4>1
    <3>7. /\ Head(todo[r]) = all[i + 1]
          /\ Tail(todo[r]) = SubSeq(all, (i + 1) + 1, Len(all))
      BY <3>1, <3>3, <3>6, OneMore
    <3>8. entry = snap[i + 1]
      BY <3>2, <3>5, <3>6, <3>7
    <3>9. Append(got[r], entry) = SubSeq(snap, 1, i + 1)
      BY <3>1, <3>4, <3>5, <3>6, <3>8, OneMore
    <3>10. i + 1 \in 0 .. Len(all)
      BY <3>5, <3>6
    <3>11. \E k \in 0 .. Len(all) : got'[r] = SubSeq(snap, 1, k)
                                    /\ todo'[r] = SubSeq(all, k + 1, Len(all))
      BY <2>2, <3>7, <3>9, <3>10
    <3> QED
      BY <2>1, <3>11 DEF ReadSoFar, all, snap
  <2> QED
    BY <1>1, <1>2, <2>1, <2>3
<1>8. ASSUME NEW r \in Request, DecideNow(r) PROVE GateInv'
  <2>1. /\ phase[r] = "read" /\ todo[r] = <<>> /\ got' = [got EXCEPT ![r] = <<>>]
        /\ UNCHANGED <<files, job, todo, now, overtaken>>
        /\ IF Decide(job[r], got[r], now) THEN phase' = [phase EXCEPT ![r] = "sha"]
           ELSE phase' = [phase EXCEPT ![r] = "done"]
    BY <1>8 DEF DecideNow, Finish
  <2>2. ASSUME r \notin overtaken, phase'[r] # "done" PROVE Acceptable(r)'
    <3> DEFINE all == Listing(files)
               snap == Snapshot(files)
    <3>1. PICK i \in 0 .. Len(all) : /\ got[r] = SubSeq(snap, 1, i)
                                     /\ todo[r] = SubSeq(all, i + 1, Len(all))
      BY <2>1, <2>2 DEF GateInv, ReadSoFar
    <3>2. PICK S : all \in Seq(S)
      BY <1>1
    <3>3. PICK U : snap \in Seq(U)
      BY <1>1
    <3>4. Len(all) \in Nat /\ Len(snap) = Len(all)
      BY <1>1
    <3> HIDE DEF all, snap
    <3>5. i = Len(snap)
      <4>1. CASE i < Len(all)
        BY <2>1, <3>1, <3>2, <3>4, <4>1, OneMore
      <4> QED
        BY <3>4, <4>1
    <3>6. got[r] = snap
      BY <3>1, <3>3, <3>4, <3>5
    <3>7. Decide(job[r], got[r], now)
      BY <1>1, <2>1, <2>2
    <3>8. now \in 0 .. now
      BY <1>1
    <3>9. \E t \in 0 .. now : Decide(job[r], snap, t)
      BY <3>6, <3>7, <3>8
    <3> QED
      BY <2>1, <3>9 DEF Acceptable, snap
  <2> QED
    BY <1>1, <1>2, <2>1, <2>2
<1>9. ASSUME NEW r \in Request, FetchFileSha(r) PROVE GateInv'
  <2>1. /\ phase[r] = "sha" /\ phase' = [phase EXCEPT ![r] = "put"]
        /\ UNCHANGED <<files, job, todo, got, now, overtaken>>
    BY <1>9 DEF FetchFileSha
  <2>2. r \notin overtaken => Acceptable(r)'
    BY <2>1 DEF GateInv, Acceptable
  <2> QED
    BY <1>1, <1>2, <2>1, <2>2
<1>10. ASSUME NEW r \in Request, CallFails(r) PROVE GateInv'
  <2>1. /\ phase' = [phase EXCEPT ![r] = "done"]
        /\ todo' = [todo EXCEPT ![r] = <<>>] /\ got' = [got EXCEPT ![r] = <<>>]
        /\ UNCHANGED <<files, job, now, overtaken>>
    BY <1>10 DEF CallFails, Finish
  <2> QED
    BY <1>1, <1>2, <2>1
<1>11. ASSUME NEW r \in Request, PutFile(r) PROVE GateInv'
  <2>1. /\ phase[r] = "put" /\ phase' = [phase EXCEPT ![r] = "done"]
        /\ UNCHANGED <<job, todo, got, now>>
    BY <1>11 DEF PutFile, Finish
  <2>2. CASE UNCHANGED <<files, overtaken>>
    BY <1>1, <1>2, <2>1, <2>2
  <2>3. CASE Land(r)
    <3>1. /\ files' = [files EXCEPT ![job[r].path] = job[r].envelope]
          /\ overtaken' = overtaken \cup
               {q \in InFlight \ {r} : phase[q] # "list" \/ job[q].path = job[r].path}
      BY <2>3 DEF Land
    <3>2. IsFiniteSet({p \in Path : files'[p] # NoFile})
      <4> DEFINE before == {p \in Path : files[p] # NoFile}
                 after == {p \in Path : files'[p] # NoFile}
      <4>1. after \in SUBSET (before \cup {job[r].path})
        BY <3>1 DEF Settled
      <4>2. IsFiniteSet(before)
        BY DEF GateInv
      <4> HIDE DEF before, after
      <4>3. IsFiniteSet(before \cup {job[r].path})
        BY <4>2, FS_AddElement
      <4>4. IsFiniteSet(after)
        BY <4>1, <4>3, FS_Subset
      <4> QED
        BY <4>4 DEF after
    <3>3. \A q \in Request \ overtaken' : phase'[q] \notin {"read", "sha", "put"}
      BY <1>1, <2>1, <3>1 DEF InFlight
    <3>4. \A q \in Request : phase'[q] \in {"idle", "list"} => got'[q] = <<>>
      BY <1>1, <2>1
    <3> QED
      BY <1>1, <2>1, <3>2, <3>3, <3>4 DEF GateInv
  <2> QED
    BY <1>11, <2>2, <2>3 DEF PutFile
<1> QED
  BY <1>3, <1>4, <1>5, <1>6, <1>7, <1>8, <1>9, <1>10, <1>11 DEF Next, Step

(* A request that nobody overtook commits only what the policy would accept  *)
(* of the repository it commits to, whatever the others carry and however    *)
(* they interleave (policy.ts 7-9, worker.ts handleCommit).                  *)
THEOREM CommitsAreGated == Spec => GatedUnlessOvertaken
<1>1. Init => Settled /\ GateInv
  <2> SUFFICES ASSUME Init PROVE Settled /\ GateInv
    OBVIOUS
  <2>1. Settled
    BY GateAssumption DEF Init, Settled, Phase
  <2>2. GateInv
    BY GateAssumption DEF Init, GateInv
  <2> QED
    BY <2>1, <2>2
<1>2. Settled /\ GateInv /\ [Next]_vars => Settled' /\ GateInv'
  BY SettledStep, GateInvStep
<1>3. GateInv => \A r \in Request \ overtaken : Gated(r)
  BY DEF GateInv, Gated, Acceptable
<1>4. (\A r \in Request \ overtaken : Gated(r)) => [\A r \in Request \ overtaken : Gated(r)]_vars
  OBVIOUS
<1> QED
  BY <1>1, <1>2, <1>3, <1>4, PTL DEF Spec, GatedUnlessOvertaken
-----------------------------------------------------------------------------
(* THE LOG OF A TRACK *)

(* The repository, and the files that are a track's log.                     *)
Repository(fs) ==
  /\ fs \in [Path -> Envelope \cup {NoFile}]
  /\ IsFiniteSet({p \in Path : fs[p] # NoFile})
Read(fs) == {p \in Path : fs[p] # NoFile /\ p.dir # Outside}
MandatesIn(fs, t) == {p \in Read(fs) : p.dir = t /\ fs[p].kind = "Mandate"}
DatesDiffer(fs, t) ==
  \A p, q \in MandatesIn(fs, t) : fs[p].mandate.issued = fs[q].mandate.issued => p = q

(* One plus the number of mandates of the track that are dated earlier.      *)
DatedBefore(fs, t, p) ==
  {q \in MandatesIn(fs, t) : fs[q].mandate.issued < fs[p].mandate.issued}
PlaceAt(fs, t, p) == Cardinality(DatedBefore(fs, t, p)) + 1

(* Every file that is there is listed once. *)
LEMMA ListingOnto ==
  ASSUME NEW fs, Repository(fs)
  PROVE  /\ IsFiniteSet(Read(fs)) /\ Cardinality(Read(fs)) \in Nat
         /\ Listing(fs) \in [1 .. Cardinality(Read(fs)) -> Read(fs)]
         /\ \A j, k \in 1 .. Cardinality(Read(fs)) : Listing(fs)[j] = Listing(fs)[k] => j = k
         /\ \A p \in Read(fs) : \E k \in 1 .. Cardinality(Read(fs)) : Listing(fs)[k] = p
<1> DEFINE S == Read(fs)
           n == Cardinality(S)
           R == {x \in S \X S : x[1].name < x[2].name}
           place == [p \in S |-> Cardinality({q \in S : q.name <= p.name})]
<1>1. IsFiniteSet(S) /\ n \in Nat
  <2>1. S \in SUBSET {p \in Path : fs[p] # NoFile}
    BY DEF Read
  <2> HIDE DEF S
  <2> QED
    BY <2>1, FS_Subset, FS_CardinalityType DEF Repository
<1>2. \A p \in S : p.name \in Nat
  BY GateAssumption DEF Read
<1>3. \A p, q \in S : p.name = q.name => p = q
  BY GateAssumption DEF Read
<1>4. Listing(fs) = [k \in 1 .. n |-> CHOOSE p \in S : place[p] = k]
  BY DEF Listing, Read
<1> HIDE DEF S, n
<1>5. \A p, q \in S : <<p, q>> \in R <=> p.name < q.name
  OBVIOUS
<1> HIDE DEF R
<1>6. IsOrder(S, R)
  <2>1. \A p, q \in S : p = q \/ p.name < q.name \/ q.name < p.name
    BY <1>2, <1>3
  <2>2. \A p, q, r \in S : p.name < q.name /\ q.name < r.name => p.name < r.name
    BY <1>2
  <2>3. \A p \in S : ~(p.name < p.name)
    BY <1>2
  <2> QED
    BY <1>5, <2>1, <2>2, <2>3 DEF IsOrder
<1>7. place = RankOf(S, R)
  <2> SUFFICES ASSUME NEW p \in S
               PROVE  Cardinality({q \in S : q.name <= p.name})
                        = Cardinality({q \in S : <<q, p>> \in R}) + 1
    BY DEF RankOf
  <2> DEFINE below == {q \in S : <<q, p>> \in R}
             upto == {q \in S : q.name <= p.name}
  <2>1. upto = below \cup {p} /\ p \notin below /\ below \in SUBSET S
    <3>1. \A q \in S : q.name <= p.name <=> q.name < p.name \/ q = p
      BY <1>2, <1>3
    <3>2. ~(p.name < p.name)
      BY <1>2
    <3> QED
      BY <1>5, <3>1, <3>2
  <2> HIDE DEF below, upto
  <2>2. IsFiniteSet(below)
    BY <1>1, <2>1, FS_Subset
  <2> QED
    BY <2>1, <2>2, FS_AddElement DEF below, upto
<1> HIDE DEF place
<1>8. /\ place \in [S -> 1 .. n]
      /\ \A p, q \in S : place[p] = place[q] => p = q
      /\ \A k \in 1 .. n : \E p \in S : place[p] = k
  <2>1. IsRanking(place, S, R)
    BY <1>1, <1>6, <1>7, RankOnto
  <2> QED
    BY <2>1 DEF IsRanking, n
<1>9. \A k \in 1 .. n : Listing(fs)[k] \in S /\ place[Listing(fs)[k]] = k
  BY <1>4, <1>8
<1>10. Listing(fs) \in [1 .. n -> S]
  BY <1>4, <1>9
<1>11. \A p \in S : Listing(fs)[place[p]] = p
  BY <1>8, <1>9
<1> QED
  BY <1>1, <1>8, <1>9, <1>10, <1>11 DEF S, n

(* A track's log is its mandates, each at the place its date gives it.       *)
LEMMA LogOfFiles ==
  ASSUME NEW fs, Repository(fs), NEW t, DatesDiffer(fs, t),
         NEW S, S = MandatesIn(fs, t), NEW log, log = TrackLog(Snapshot(fs), t)
  PROVE  /\ IsFiniteSet(S) /\ Cardinality(S) \in Nat
         /\ log \in Seq(Mandate) /\ Len(log) = Cardinality(S)
         /\ \A p \in S : /\ PlaceAt(fs, t, p) \in 1 .. Len(log)
                         /\ log[PlaceAt(fs, t, p)] = fs[p].mandate
         /\ \A p, q \in S : fs[p].mandate.issued < fs[q].mandate.issued
                              => PlaceAt(fs, t, p) < PlaceAt(fs, t, q)
         /\ \A k \in 1 .. Len(log) : \E p \in S : PlaceAt(fs, t, p) = k
<1> DEFINE n == Cardinality(S)
           M(p) == fs[p].mandate
           R == {x \in S \X S : M(x[1]).issued < M(x[2]).issued}
           rank == RankOf(S, R)
           all == Cardinality(Read(fs))
           list == Listing(fs)
           snap == Snapshot(fs)
           K == {k \in 1 .. all : list[k] \in S}
<1>1. /\ all \in Nat /\ IsFiniteSet(Read(fs)) /\ list \in [1 .. all -> Read(fs)]
      /\ \A j, k \in 1 .. all : list[j] = list[k] => j = k
      /\ \A p \in Read(fs) : \E k \in 1 .. all : list[k] = p
  BY ListingOnto
<1>2. S \in SUBSET Read(fs) /\ IsFiniteSet(S) /\ n \in Nat
  <2>1. S \in SUBSET Read(fs)
    BY DEF MandatesIn
  <2> QED
    BY <1>1, <2>1, FS_Subset, FS_CardinalityType
<1>3. \A p \in S : M(p) \in Mandate /\ M(p).issued \in Nat
  <2> SUFFICES ASSUME NEW p \in S PROVE M(p) \in Mandate /\ M(p).issued \in Nat
    OBVIOUS
  <2>1. fs[p] \in Envelope /\ fs[p].kind = "Mandate"
    BY DEF MandatesIn, Read, Repository
  <2>2. fs[p] \in Wrapped
    BY <2>1 DEF Envelope, Endorsement, Identity
  <2>3. M(p) \in Mandate
    BY <2>2 DEF Wrapped
  <2> QED
    BY <2>3 DEF Mandate
<1>4. \A p, q \in S : M(p).issued = M(q).issued => p = q
  BY DEF DatesDiffer
<1>5. /\ DOMAIN snap = 1 .. all
      /\ \A k \in 1 .. all : snap[k] = [path |-> list[k], envelope |-> fs[list[k]]]
  <2>1. DOMAIN list = 1 .. all
    BY <1>1
  <2> HIDE DEF list, all
  <2> QED
    BY <2>1 DEF Snapshot, list
<1>6. \A p, q \in S : <<p, q>> \in R <=> M(p).issued < M(q).issued
  OBVIOUS
<1>7. {k \in DOMAIN snap : snap[k].path.dir = t /\ snap[k].envelope.kind = "Mandate"} = K
  <2> SUFFICES ASSUME NEW k \in 1 .. all
               PROVE  snap[k].path.dir = t /\ snap[k].envelope.kind = "Mandate" <=> list[k] \in S
    BY <1>5
  <2>1. snap[k].path = list[k] /\ snap[k].envelope = fs[list[k]] /\ list[k] \in Read(fs)
    BY <1>1, <1>5
  <2> QED
    BY <2>1 DEF MandatesIn
<1> DEFINE Before(i, j) == \/ M(list[i]).issued < M(list[j]).issued
                           \/ M(list[i]).issued = M(list[j]).issued /\ i < j
           at == [k \in K |-> Cardinality({j \in K : Before(j, k)}) + 1]
<1>8. log = [p \in 1 .. Cardinality(K) |-> snap[CHOOSE k \in K : at[k] = p].envelope.mandate]
  <2> DEFINE K0 == {k \in DOMAIN snap : snap[k].path.dir = t /\ snap[k].envelope.kind = "Mandate"}
             of(k) == snap[k].envelope.mandate
             InTurn(i, j) == \/ of(i).issued < of(j).issued
                             \/ of(i).issued = of(j).issued /\ i < j
             At(X) == [k \in X |-> Cardinality({j \in X : InTurn(j, k)}) + 1]
             From(X) == [p \in 1 .. Cardinality(X) |-> of(CHOOSE k \in X : At(X)[k] = p)]
  <2>1. log = From(K0)
    BY DEF TrackLog
  <2>2. K0 = K
    BY <1>7
  <2> HIDE DEF K0, K, From
  <2>3. log = From(K)
    BY <2>1, <2>2
  <2> USE DEF K
  <2>4. At(K) = at
    <3>1. \A i, j \in K : InTurn(i, j) <=> Before(i, j)
      <4>1. \A k \in K : of(k) = M(list[k])
        BY <1>5
      <4> QED
        BY <4>1
    <3>2. \A k \in K : {j \in K : InTurn(j, k)} = {j \in K : Before(j, k)}
      BY <3>1
    <3> HIDE DEF InTurn, Before, K
    <3> QED
      BY <3>2
  <2> HIDE DEF At, at, K, of
  <2>5. log = [p \in 1 .. Cardinality(K) |-> of(CHOOSE k \in K : at[k] = p)]
    BY <2>3, <2>4 DEF From
  <2> QED
    BY <2>5 DEF of
<1> HIDE DEF snap, all, list
<1>9. \A p \in S : rank[p] = PlaceAt(fs, t, p)
  <2>1. \A p \in S : {q \in S : <<q, p>> \in R} = DatedBefore(fs, t, p)
    BY <1>6 DEF DatedBefore
  <2> QED
    BY <2>1 DEF RankOf, PlaceAt
<1>10. IsOrder(S, R)
  <2>1. \A p, q, r \in S : M(p).issued < M(q).issued /\ M(q).issued < M(r).issued
                             => M(p).issued < M(r).issued
    BY <1>3
  <2>2. \A p \in S : ~(M(p).issued < M(p).issued)
    BY <1>3
  <2>3. \A p, q \in S : p = q \/ M(p).issued < M(q).issued \/ M(q).issued < M(p).issued
    BY <1>3, <1>4
  <2> HIDE DEF R, M
  <2> QED
    BY <1>6, <2>1, <2>2, <2>3 DEF IsOrder
<1>11. IsRanking(rank, S, R)
  BY <1>2, <1>10, RankOnto
<1>12. \A k \in K : list[k] \in S
  OBVIOUS
<1>13. \A p \in S : \E k \in K : list[k] = p
  BY <1>1, <1>2
<1>14. ASSUME NEW k \in K PROVE at[k] = rank[list[k]]
  <2> DEFINE A == {j \in K : Before(j, k)}
             B == {q \in S : <<q, list[k]>> \in R}
             f == [j \in A |-> list[j]]
  <2>1. \A j \in K : Before(j, k) <=> <<list[j], list[k]>> \in R
    <3> SUFFICES ASSUME NEW j \in K PROVE Before(j, k) <=> <<list[j], list[k]>> \in R
      OBVIOUS
    <3>1. M(list[j]).issued = M(list[k]).issued => j = k
      BY <1>1, <1>4, <1>12
    <3>2. ~(k < k)
      BY <1>1
    <3> QED
      BY <1>6, <1>12, <3>1, <3>2
  <2> HIDE DEF Before, R, K
  <2>2. f \in Bijection(A, B)
    <3>1. \A j \in A : f[j] \in B
      BY <1>12, <2>1
    <3>2. \A i, j \in A : f[i] = f[j] => i = j
      BY <1>1 DEF K
    <3>3. \A q \in B : \E j \in A : f[j] = q
      BY <1>13, <2>1
    <3> HIDE DEF A, B
    <3>4. f \in [A -> B]
      BY <3>1
    <3> QED
      BY <3>2, <3>3, <3>4 DEF Bijection, Injection, Surjection, IsInjective
  <2>3. IsFiniteSet(A)
    <3>1. A \in SUBSET (1 .. all)
      BY DEF K
    <3> HIDE DEF A
    <3> QED
      BY <1>1, <3>1, Numbers, FS_Subset
  <2>4. Cardinality(B) = Cardinality(A)
    <3> HIDE DEF A, B, f
    <3>1. ExistsBijection(A, B)
      BY <2>2 DEF ExistsBijection
    <3> QED
      BY <2>3, <3>1, FS_Bijection
  <2> QED
    BY <2>4, <1>12 DEF RankOf
<1>15. Cardinality(K) = n
  <2> DEFINE f == [k \in K |-> list[k]]
  <2>1. f \in Bijection(K, S)
    <3>1. \A i, j \in K : f[i] = f[j] => i = j
      BY <1>1
    <3>2. \A p \in S : \E k \in K : f[k] = p
      BY <1>13
    <3> HIDE DEF K
    <3>3. f \in [K -> S]
      BY <1>12
    <3> QED
      BY <3>1, <3>2, <3>3 DEF Bijection, Injection, Surjection, IsInjective
  <2>2. IsFiniteSet(K)
    <3>1. K \in SUBSET (1 .. all)
      OBVIOUS
    <3> HIDE DEF K
    <3> QED
      BY <1>1, <3>1, Numbers, FS_Subset
  <2> HIDE DEF K, f
  <2>3. ExistsBijection(K, S)
    BY <2>1 DEF ExistsBijection
  <2> QED
    BY <2>2, <2>3, FS_Bijection
<1> HIDE DEF K, at, rank, n, R
<1>16. /\ rank \in [S -> 1 .. n]
       /\ \A p, q \in S : rank[p] = rank[q] => p = q
       /\ \A k \in 1 .. n : \E p \in S : rank[p] = k
       /\ \A p, q \in S : M(p).issued < M(q).issued => rank[p] < rank[q]
  BY <1>6, <1>11 DEF IsRanking, n
<1>17. /\ \A j, k \in K : at[j] = at[k] => j = k
       /\ \A p \in 1 .. n : \E k \in K : at[k] = p
       /\ \A k \in K : snap[k].envelope.mandate = M(list[k])
  <2>1. \A j, k \in K : list[j] = list[k] => j = k
    BY <1>1 DEF K
  <2>2. \A k \in K : snap[k].envelope.mandate = M(list[k])
    BY <1>5 DEF K
  <2> QED
    BY <1>12, <1>13, <1>14, <1>16, <2>1, <2>2
<1>18. \A k \in 1 .. n : \E j \in K : at[j] = k /\ log[k] = M(list[j])
  <2> SUFFICES ASSUME NEW k \in 1 .. n PROVE \E j \in K : at[j] = k /\ log[k] = M(list[j])
    OBVIOUS
  <2> DEFINE j == CHOOSE i \in K : at[i] = k
  <2>1. j \in K /\ at[j] = k
    BY <1>17
  <2>2. log[k] = snap[j].envelope.mandate
    BY <1>8, <1>15
  <2> HIDE DEF j
  <2> QED
    BY <1>17, <2>1, <2>2
<1>19. log \in Seq(Mandate) /\ Len(log) = n
  <2>1. \A k \in 1 .. n : log[k] \in Mandate
    BY <1>3, <1>12, <1>18
  <2>2. log = [k \in 1 .. n |-> log[k]]
    BY <1>8, <1>15
  <2>3. log \in [1 .. n -> Mandate]
    BY <2>1, <2>2
  <2> QED
    BY <1>2, <2>3
<1>20. ASSUME NEW p \in S PROVE log[rank[p]] = M(p)
  <2>1. PICK j \in K : at[j] = rank[p] /\ log[rank[p]] = M(list[j])
    BY <1>16, <1>18
  <2>2. list[j] = p
    BY <1>12, <1>14, <1>16, <2>1
  <2> QED
    BY <2>1, <2>2
<1> QED
  BY <1>2, <1>9, <1>16, <1>19, <1>20 DEF n

(* Files of other directories and other kinds do not touch a track's log.    *)
LEMMA OtherFiles ==
  ASSUME NEW fs, Repository(fs), NEW gs, Repository(gs), NEW t, DatesDiffer(fs, t),
         MandatesIn(gs, t) = MandatesIn(fs, t),
         \A p \in MandatesIn(fs, t) : gs[p] = fs[p]
  PROVE  TrackLog(Snapshot(gs), t) = TrackLog(Snapshot(fs), t)
<1> DEFINE S == MandatesIn(fs, t)
           old == TrackLog(Snapshot(fs), t)
           new == TrackLog(Snapshot(gs), t)
<1>1. DatesDiffer(gs, t)
  BY DEF DatesDiffer
<1>2. \A p \in S : PlaceAt(gs, t, p) = PlaceAt(fs, t, p)
  <2>1. \A p \in S : DatedBefore(gs, t, p) = DatedBefore(fs, t, p)
    BY DEF DatedBefore
  <2> QED
    BY <2>1 DEF PlaceAt
<1>3. /\ old \in Seq(Mandate) /\ Len(old) = Cardinality(S)
      /\ \A p \in S : old[PlaceAt(fs, t, p)] = fs[p].mandate
      /\ \A k \in 1 .. Len(old) : \E p \in S : PlaceAt(fs, t, p) = k
  BY LogOfFiles
<1>4. /\ new \in Seq(Mandate) /\ Len(new) = Cardinality(S)
      /\ \A p \in S : new[PlaceAt(gs, t, p)] = gs[p].mandate
  BY <1>1, LogOfFiles
<1> HIDE DEF S, old, new
<1>5. \A k \in 1 .. Len(old) : new[k] = old[k]
  BY <1>2, <1>3, <1>4 DEF S
<1> HIDE DEF Mandate
<1>6. new = old
  BY <1>3, <1>4, <1>5
<1> QED
  BY <1>6 DEF old, new

(* A mandate that is dated after all others is appended. *)
LEMMA LaterFile ==
  ASSUME NEW fs, Repository(fs), NEW gs, Repository(gs), NEW t,
         DatesDiffer(fs, t), DatesDiffer(gs, t), NEW p, p \notin MandatesIn(fs, t),
         MandatesIn(gs, t) = MandatesIn(fs, t) \cup {p},
         \A q \in MandatesIn(fs, t) :
           gs[q] = fs[q] /\ fs[q].mandate.issued < gs[p].mandate.issued
  PROVE  TrackLog(Snapshot(gs), t) = Append(TrackLog(Snapshot(fs), t), gs[p].mandate)
<1> DEFINE S == MandatesIn(fs, t)
           old == TrackLog(Snapshot(fs), t)
           new == TrackLog(Snapshot(gs), t)
           n == Cardinality(S)
           m == gs[p].mandate
<1>1. /\ IsFiniteSet(S) /\ n \in Nat /\ old \in Seq(Mandate) /\ Len(old) = n
      /\ \A q \in S : PlaceAt(fs, t, q) \in 1 .. n /\ old[PlaceAt(fs, t, q)] = fs[q].mandate
      /\ \A k \in 1 .. n : \E q \in S : PlaceAt(fs, t, q) = k
  BY LogOfFiles
<1>2. /\ new \in Seq(Mandate) /\ Len(new) = Cardinality(S \cup {p})
      /\ \A q \in S \cup {p} : new[PlaceAt(gs, t, q)] = gs[q].mandate
  <2>1. PICK T, u : T = MandatesIn(gs, t) /\ u = TrackLog(Snapshot(gs), t)
    OBVIOUS
  <2>2. /\ u \in Seq(Mandate) /\ Len(u) = Cardinality(T)
        /\ \A q \in T : u[PlaceAt(gs, t, q)] = gs[q].mandate
    BY ONLY <2>1, Repository(gs), DatesDiffer(gs, t), LogOfFiles
  <2>3. T = S \cup {p} /\ u = new
    BY <2>1
  <2> QED
    BY <2>2, <2>3
<1>3. Cardinality(S \cup {p}) = n + 1
  <2> HIDE DEF S
  <2> QED
    BY <1>1, FS_AddElement DEF S
<1>4. \A q \in S \cup {p} : gs[q].mandate.issued \in Nat
  <2> SUFFICES ASSUME NEW q \in S \cup {p} PROVE gs[q].mandate.issued \in Nat
    OBVIOUS
  <2>1. gs[q] \in Envelope /\ gs[q].kind = "Mandate"
    BY DEF MandatesIn, Read, Repository
  <2>2. gs[q] \in Wrapped
    BY <2>1 DEF Envelope, Endorsement, Identity
  <2> QED
    BY <2>2 DEF Wrapped, Mandate
<1>5. \A q \in S : PlaceAt(gs, t, q) = PlaceAt(fs, t, q)
  <2> SUFFICES ASSUME NEW q \in S PROVE DatedBefore(gs, t, q) = DatedBefore(fs, t, q)
    BY DEF PlaceAt
  <2>1. ~(gs[p].mandate.issued < gs[q].mandate.issued)
    BY <1>4
  <2>2. \A r \in S : gs[r] = fs[r]
    OBVIOUS
  <2> QED
    BY <2>1, <2>2 DEF DatedBefore
<1>6. PlaceAt(gs, t, p) = n + 1
  <2>1. DatedBefore(gs, t, p) = S
    <3>1. ~(m.issued < m.issued)
      BY <1>4
    <3> QED
      BY <3>1 DEF DatedBefore
  <2> QED
    BY <2>1 DEF PlaceAt
<1>7. m \in Mandate
  <2>1. gs[p] \in Envelope /\ gs[p].kind = "Mandate"
    BY DEF MandatesIn, Read, Repository
  <2>2. gs[p] \in Wrapped
    BY <2>1 DEF Envelope, Endorsement, Identity
  <2> QED
    BY <2>2 DEF Wrapped
<1>8. ASSUME NEW k \in 1 .. n PROVE new[k] = old[k]
  <2>1. PICK q \in S : PlaceAt(fs, t, q) = k
    BY <1>1
  <2>2. gs[q].mandate = fs[q].mandate
    OBVIOUS
  <2> QED
    BY <1>1, <1>2, <1>5, <2>1, <2>2
<1>9. new[n + 1] = m
  BY <1>2, <1>6
<1> HIDE DEF Mandate, old, new, n, m, S
<1>10. Len(new) = n + 1
  BY <1>2, <1>3
<1>11. new = Append(old, m)
  <2>1. /\ n \in Nat /\ old \in Seq(Mandate) /\ Len(old) = n /\ new \in Seq(Mandate)
    BY <1>1, <1>2
  <2> QED
    BY <2>1, <1>7, <1>8, <1>9, <1>10
<1> QED
  BY <1>11 DEF old, new, m

(* No mandate of a track is dated after the last of its log. *)
LEMMA LastIsLatest ==
  ASSUME NEW fs, Repository(fs), NEW t, DatesDiffer(fs, t),
         NEW log, log = TrackLog(Snapshot(fs), t), NEW p \in MandatesIn(fs, t)
  PROVE  /\ log # <<>> /\ Last(log).issued \in Nat /\ fs[p].mandate.issued \in Nat
         /\ fs[p].mandate.issued <= Last(log).issued
<1> DEFINE S == MandatesIn(fs, t)
           n == Len(log)
<1>1. /\ n \in Nat /\ log \in Seq(Mandate)
      /\ \A q \in S : PlaceAt(fs, t, q) \in 1 .. n /\ log[PlaceAt(fs, t, q)] = fs[q].mandate
      /\ \A q, r \in S : fs[q].mandate.issued < fs[r].mandate.issued
                           => PlaceAt(fs, t, q) < PlaceAt(fs, t, r)
      /\ \A k \in 1 .. n : \E q \in S : PlaceAt(fs, t, q) = k
  BY LogOfFiles
<1>2. n \in 1 .. n
  BY <1>1
<1>3. PICK q \in S : PlaceAt(fs, t, q) = n
  BY <1>1, <1>2
<1>4. ~(fs[q].mandate.issued < fs[p].mandate.issued)
  BY <1>1, <1>3
<1>5. log # <<>> /\ Last(log) = fs[q].mandate
  BY <1>1, <1>2, <1>3 DEF Last
<1>6. fs[q].mandate.issued \in Nat /\ fs[p].mandate.issued \in Nat
  <2>1. \A m \in Mandate : m.issued \in Nat
    BY DEF Mandate
  <2>2. \A r \in S : fs[r].mandate \in Mandate
    BY <1>1
  <2> QED
    BY <2>1, <2>2
<1> QED
  BY <1>4, <1>5, <1>6

-----------------------------------------------------------------------------
(* WHAT THE POLICY DECIDES *)

(* A candidate that is let through passed the rule on mandates. *)
LEMMA MandateIsJudged ==
  ASSUME NEW j, NEW reads, NEW t, j.envelope.kind = "Mandate", Decide(j, reads, t),
         NEW m, m = j.envelope.mandate, NEW log, log = TrackLog(reads, m.track)
  PROVE  m.id \in AcceptedIds(IF log = <<>> THEN OnRepoChain(<<m>>)
                              ELSE OnRepoChain(Append(log, m)))
<1> DEFINE rules == AuthorityRules(j.envelope, reads, t)
           before == << Rule("path-outside-maintainers", j.path.dir # Outside),
                        Rule("envelope-shape", DefectOf(j.envelope) # "shape"),
                        Rule("canonical-bytes-error", DefectOf(j.envelope) # "bytes"),
                        Rule("canonical-bytes-mismatch", j.bytes) >>
           signing == SigningRules(j.envelope)
           ok == m.id \in AcceptedIds(IF log = <<>> THEN OnRepoChain(<<m>>)
                                      ELSE OnRepoChain(Append(log, m)))
           verdict == Rule("mandate-rejected", ok)
<1>1. rules = << verdict >>
  BY DEF AuthorityRules, MandateRules
<1>2. PolicyRules(j, reads, t) = (before \o signing) \o rules
  BY DEF PolicyRules
<1> HIDE DEF verdict, ok
<1>3. \E a, b, c, d : before = << a, b, c, d >>
  OBVIOUS
<1>4. \E a, b, c : signing = << a, b, c >>
  BY DEF SigningRules
<1> HIDE DEF before, signing, rules
<1>5. ((before \o signing) \o rules)[8] = verdict
      /\ 8 \in DOMAIN ((before \o signing) \o rules)
  BY <1>1, <1>3, <1>4
<1>6. verdict = "ok"
  BY <1>2, <1>5 DEF Decide, Passes
<1> QED
  BY <1>6 DEF verdict, Rule, ok

(* To a log that is accepted as a whole, a mandate of a new id that is let   *)
(* through adds itself to the chain, and nothing else.                       *)
LetThrough(log, more, m) ==
  /\ log \in Seq(Mandate) /\ Verifies(log) /\ m \in Mandate /\ more = Append(log, m)
  /\ \A k \in DOMAIN log : log[k].id # m.id
  /\ m.id \in AcceptedIds(IF log = <<>> THEN OnRepoChain(<<m>>) ELSE OnRepoChain(more))

LEMMA DecidedExtends ==
  ASSUME NEW log, NEW more, NEW m, LetThrough(log, more, m),
         NEW before, before = OnRepoChain(log), NEW after, after = OnRepoChain(more)
  PROVE  /\ before \in VerifiedChain /\ after \in VerifiedChain
         /\ after.accepted = more /\ after.rejections = before.rejections
         /\ after.rootError \in {"none", before.rootError}
         /\ log = <<>> => after.rootError = "none"
         /\ log # <<>> => after.rootError = before.rootError /\ Last(log).issued <= m.issued
<1>0. /\ log \in Seq(Mandate) /\ Verifies(log) /\ m \in Mandate /\ more = Append(log, m)
      /\ \A k \in DOMAIN log : log[k].id # m.id
      /\ m.id \in AcceptedIds(IF log = <<>> THEN OnRepoChain(<<m>>) ELSE OnRepoChain(more))
  BY DEF LetThrough
<1>1. more \in Seq(Mandate) /\ more # <<>> /\ (log = <<>> => more = <<m>> /\ more[1] = m)
      /\ (log # <<>> => more[1] = log[1])
  <2>1. more \in Seq(Mandate) /\ Len(more) = Len(log) + 1 /\ Len(log) \in Nat
    BY <1>0
  <2>2. more # <<>>
    BY <2>1
  <2>3. log = <<>> => more = <<m>> /\ more[1] = m
    BY <1>0
  <2>4. log # <<>> => more[1] = log[1]
    BY <1>0
  <2> QED
    BY <2>1, <2>2, <2>3, <2>4
<1>2. m.id \in AcceptedIds(after)
  BY <1>0, <1>1
<1> DEFINE pin == PinHash(more[1])
<1>3. after = VerifyMandateChainFromPin(pin, more)
  BY <1>1 DEF OnRepoChain
<1>4. CASE log = <<>>
  <2>1. before = EmptyChain(NoPin)
    BY <1>4 DEF OnRepoChain
  <2>2. PICK c : c = EmptyChain(pin)
    OBVIOUS
  <2>3. after = Consume(pin, c, m)
    <3>1. VerifyMandateChainFromPin(pin, <<>>) = EmptyChain(pin)
      BY VerifyEmpty
    <3>2. <<>> \in Seq(Mandate)
      OBVIOUS
    <3>3. VerifyMandateChainFromPin(pin, Append(<<>>, m))
            = Consume(pin, VerifyMandateChainFromPin(pin, <<>>), m)
      BY <1>0, <3>2, VerifyAppend
    <3> QED
      BY <1>0, <1>3, <1>4, <2>2, <3>1, <3>3
  <2>4. c \in VerifiedChain /\ before \in VerifiedChain
        /\ c.accepted = <<>> /\ c.rejections = <<>> /\ before.rejections = <<>>
    BY <2>1, <2>2 DEF EmptyChain, VerifiedChain, V2RootFailReason
  <2> HIDE DEF pin
  <2>5. after.accepted # <<>>
    BY <1>2 DEF AcceptedIds
  <2>6. after \in VerifiedChain
    BY <1>0, <2>3, <2>4, ConsumeType
  <2>7. after = SeekRoot(pin, c, m)
    BY <2>3, <2>4, <2>5 DEF Consume
  <2>8. after.accepted = <<m>> /\ after.rejections = <<>> /\ after.rootError = "none"
    <3>1. HasHash(m) /\ PinHash(m) = pin
      BY <2>4, <2>5, <2>7 DEF SeekRoot
    <3>2. Passes(RootRules(m))
      BY <2>4, <2>5, <2>7, <3>1 DEF SeekRoot, VerifiedChain
    <3> QED
      BY <2>4, <2>7, <3>1, <3>2 DEF SeekRoot, VerifiedChain
  <2> QED
    BY <1>1, <1>4, <2>4, <2>6, <2>8
<1>5. CASE log # <<>>
  <2>1. before = VerifyMandateChainFromPin(pin, log)
    BY <1>1, <1>5 DEF OnRepoChain
  <2>2. before \in VerifiedChain /\ after = Consume(pin, before, m)
    BY <1>0, <1>3, <2>1, VerifyAppend
  <2> HIDE DEF pin
  <2>3. after \in VerifiedChain
    BY <1>0, <2>2, ConsumeType
  <2>4. before.accepted = log
    BY <1>0 DEF Verifies
  <2>5. after.accepted # before.accepted
    BY <1>0, <1>2, <2>4 DEF AcceptedIds
  <2>6. after.accepted = more /\ Passes(ForwardRules(Last(log), m))
    <3>1. PICK h : h = pin /\ after = Consume(h, before, m)
      BY <2>2
    <3>2. before \in VerifiedChain /\ m \in Mandate
      BY <1>0, <2>2
    <3> HIDE DEF VerifiedChain, Mandate
    <3>3. \/ after.accepted = before.accepted
          \/ before.accepted = <<>>
          \/ /\ after.accepted = Append(before.accepted, m)
             /\ Passes(ForwardRules(Last(before.accepted), m))
      BY ONLY <3>1, <3>2, ConsumeCases
    <3> QED
      BY <1>0, <1>5, <2>4, <2>5, <3>3
  <2>7. Last(log).issued <= m.issued
    BY <2>6, ForwardPasses
  <2>8. after = WalkForward(before, m)
    BY <1>5, <2>2, <2>4 DEF Consume
  <2>9. after.rejections = before.rejections /\ after.rootError = before.rootError
    <3>1. CASE m.defect = "shape" \/ m.track # Head(before.accepted).track
      BY <2>5, <2>8, <3>1 DEF WalkForward
    <3>2. CASE m.id \in AcceptedIds(before)
      BY <1>0, <1>2, <2>4, <2>5, <2>8, <3>2 DEF AcceptedIds
    <3>3. CASE ~(m.defect = "shape" \/ m.track # Head(before.accepted).track)
               /\ m.id \notin AcceptedIds(before)
      BY <2>2, <2>4, <2>6, <2>8, <3>3 DEF WalkForward, VerifiedChain
    <3> QED
      BY <3>1, <3>2, <3>3
  <2> QED
    BY <1>5, <2>2, <2>3, <2>6, <2>7, <2>9
<1> QED
  BY <1>4, <1>5

-----------------------------------------------------------------------------
(* WHAT IS ACKNOWLEDGED *)

(* The invariant: as long as nobody was overtaken, a request under way finds *)
(* its path free or holding its own envelope, an acknowledged envelope stays *)
(* where it is, and every track verifies as a whole.                         *)
PathFree(r) == files[job[r].path] \in {NoFile, job[r].envelope}
EffectInv ==
  /\ \A p \in Path : files[p] \in MayHold(p)
  /\ \A r \in Request : r \in InFlight \/ answer[r] = "ok" =>
       /\ job[r].path.dir # Outside
       /\ job[r].envelope.kind = "Mandate" => job[r].path.dir = job[r].envelope.mandate.track
  /\ overtaken = {} =>
       /\ \A r \in InFlight : PathFree(r)
       /\ \A r \in Request : answer[r] = "ok" => files[job[r].path] = job[r].envelope
       /\ \A t \in Track : Verifies(TrackLog(Snapshot(files), t))

(* Under these hypotheses two mandates of a track never share a date. *)
LEMMA DatesAlwaysDiffer ==
  ASSUME NamedApart, NEW fs, \A p \in Path : fs[p] \in MayHold(p), NEW t
  PROVE  DatesDiffer(fs, t)
BY DEF NamedApart, DatesDiffer, MandatesIn, Read

(* What a mandate that lands does to the log of its track. *)
Landing(fs, gs, j, m) ==
  /\ Repository(fs) /\ \A p \in Path : fs[p] \in MayHold(p)
  /\ j \in Jobs /\ fs[j.path] = NoFile /\ j.path.dir # Outside
  /\ gs = [fs EXCEPT ![j.path] = j.envelope]
  /\ j.envelope.kind = "Mandate" /\ m = j.envelope.mandate /\ j.path.dir = m.track
  /\ Verifies(TrackLog(Snapshot(fs), m.track))
  /\ \E c \in 0 .. now : Decide(j, Snapshot(fs), c)

LEMMA LandingExtends ==
  ASSUME NamedApart, NEW fs, NEW gs, NEW j, NEW m, Landing(fs, gs, j, m),
         NEW log, log = TrackLog(Snapshot(fs), m.track)
  PROVE  LetThrough(log, TrackLog(Snapshot(gs), m.track), m)
<1> DEFINE t == m.track
           p == j.path
           S == MandatesIn(fs, t)
<1> USE DEF Landing
<1>1. p \in Path /\ j.envelope \in Envelope /\ j.envelope # NoFile
  BY GateAssumption DEF Job
<1>2. j.envelope \in Wrapped /\ m \in Mandate
  <2>1. j.envelope \in Wrapped
    BY <1>1 DEF Envelope, Endorsement, Identity
  <2> QED
    BY <2>1 DEF Wrapped
<1>3. DatesDiffer(fs, t)
  BY DatesAlwaysDiffer
<1>4. /\ log \in Seq(Mandate)
      /\ \A q \in S : fs[q].mandate \in ToSet(log)
      /\ \A k \in DOMAIN log : \E q \in S : log[k] = fs[q].mandate
  <2>1. /\ log \in Seq(Mandate)
        /\ \A q \in S : PlaceAt(fs, t, q) \in 1 .. Len(log)
                        /\ log[PlaceAt(fs, t, q)] = fs[q].mandate
        /\ \A k \in 1 .. Len(log) : \E q \in S : PlaceAt(fs, t, q) = k
    BY <1>3, LogOfFiles
  <2>2. DOMAIN log = 1 .. Len(log)
    BY <2>1
  <2> QED
    BY <2>1, <2>2 DEF ToSet
<1>5. p \notin S
  BY DEF MandatesIn, Read
<1>6. \A q \in S : /\ fs[q].mandate.id # m.id /\ fs[q].mandate.issued # m.issued
  <2> SUFFICES ASSUME NEW q \in S
               PROVE  fs[q].mandate.id # m.id /\ fs[q].mandate.issued # m.issued
    OBVIOUS
  <2>1. q \in Path /\ q # p /\ q.dir = p.dir /\ fs[q].kind = "Mandate" /\ fs[q] # NoFile
    BY <1>5 DEF MandatesIn, Read
  <2>2. j.envelope \in MayHold(p) \ {NoFile} /\ fs[q] \in MayHold(q) \ {NoFile}
    BY <1>1, <2>1 DEF MayHold
  <2> QED
    BY <1>1, <2>1, <2>2 DEF NamedApart
<1>7. \A k \in DOMAIN log : log[k].id # m.id
  BY <1>4, <1>6
<1>8. m.id \in AcceptedIds(IF log = <<>> THEN OnRepoChain(<<m>>)
                           ELSE OnRepoChain(Append(log, m)))
  BY MandateIsJudged
<1>9. LetThrough(log, Append(log, m), m)
  BY <1>2, <1>4, <1>7, <1>8 DEF LetThrough
<1>10. log # <<>> => Last(log).issued <= m.issued
  <2>1. PICK u, v, w : u = Append(log, m) /\ v = OnRepoChain(log) /\ w = OnRepoChain(u)
    OBVIOUS
  <2>2. LetThrough(log, u, m)
    BY <1>9, <2>1
  <2> QED
    BY ONLY <2>1, <2>2, DecidedExtends
<1>11. \A q \in S : fs[q].mandate.issued < m.issued
  <2> SUFFICES ASSUME NEW q \in S PROVE fs[q].mandate.issued < m.issued
    OBVIOUS
  <2>1. /\ log # <<>> /\ Last(log).issued \in Nat /\ fs[q].mandate.issued \in Nat
        /\ fs[q].mandate.issued <= Last(log).issued
    BY <1>3, LastIsLatest
  <2>2. m.issued \in Nat
    BY <1>2 DEF Mandate
  <2> QED
    BY <1>6, <1>10, <2>1, <2>2
<1>12. Repository(gs) /\ \A q \in Path : gs[q] \in MayHold(q)
  <2>1. gs \in [Path -> Envelope \cup {NoFile}]
    BY <1>1 DEF Repository
  <2>2. IsFiniteSet({q \in Path : gs[q] # NoFile})
    <3> DEFINE A == {q \in Path : fs[q] # NoFile}
               B == {q \in Path : gs[q] # NoFile}
    <3>1. B \in SUBSET (A \cup {p}) /\ IsFiniteSet(A)
      BY DEF Repository
    <3> HIDE DEF A, B
    <3>2. IsFiniteSet(A \cup {p})
      BY <3>1, FS_AddElement
    <3>3. IsFiniteSet(B)
      BY <3>1, <3>2, FS_Subset
    <3> QED
      BY <3>3 DEF B
  <2>3. j.envelope \in MayHold(p)
    BY DEF MayHold
  <2>4. \A q \in Path : gs[q] \in MayHold(q)
    <3> HIDE DEF p
    <3> QED
      BY <2>3 DEF Repository, p
  <2> QED
    BY <2>1, <2>2, <2>4 DEF Repository
<1>13. MandatesIn(gs, t) = S \cup {p} /\ gs[p] = j.envelope /\ \A q \in S : gs[q] = fs[q]
  <2>1. gs[p] = j.envelope /\ \A q \in Path : q # p => gs[q] = fs[q]
    BY <1>1 DEF Repository
  <2> QED
    BY <1>1, <1>5, <2>1 DEF MandatesIn, Read
<1>14. DatesDiffer(gs, t)
  BY <1>12, DatesAlwaysDiffer
<1>15. TrackLog(Snapshot(gs), t) = Append(log, m)
  <2>1. \A q \in MandatesIn(fs, t) :
          gs[q] = fs[q] /\ fs[q].mandate.issued < gs[p].mandate.issued
    BY <1>11, <1>13
  <2>2. PICK h, q, u : h = gs /\ q = p /\ u = t
    OBVIOUS
  <2>3. /\ Repository(h) /\ DatesDiffer(fs, u) /\ DatesDiffer(h, u)
        /\ q \notin MandatesIn(fs, u) /\ MandatesIn(h, u) = MandatesIn(fs, u) \cup {q}
        /\ \A r \in MandatesIn(fs, u) :
             h[r] = fs[r] /\ fs[r].mandate.issued < h[q].mandate.issued
    BY <1>3, <1>5, <1>12, <1>13, <1>14, <2>1, <2>2
  <2>4. TrackLog(Snapshot(h), u) = Append(TrackLog(Snapshot(fs), u), h[q].mandate)
    BY ONLY Repository(fs), <2>3, LaterFile
  <2> QED
    BY <1>13, <2>2, <2>4
<1> QED
  BY <1>9, <1>15

(* The repository is a repository at every moment. *)
LEMMA AlwaysRepository ==
  ASSUME Settled, GateInv
  PROVE  Repository(files)
BY DEF Settled, GateInv, Repository

(* What the landing of a request that nobody overtook does to a track: it    *)
(* leaves its log alone, or appends a mandate that its chain accepts.        *)
LandsOn(log, more, r, m) ==
  /\ LetThrough(log, more, m)
  /\ job[r].envelope.kind = "Mandate" /\ m = job[r].envelope.mandate
  /\ files'[job[r].path] = job[r].envelope /\ files[job[r].path] = NoFile

LEMMA LandingOutcome ==
  ASSUME NamedApart, Settled, Settled', GateInv, GateInv', EffectInv,
         NEW r \in Request, PutFile(r), Land(r), overtaken = {}, NEW t \in Track,
         NEW log, log = TrackLog(Snapshot(files), t),
         NEW more, more = TrackLog(Snapshot(files'), t)
  PROVE  more = log \/ \E m \in Mandate : m.track = t /\ LandsOn(log, more, r, m)
<1> DEFINE j == job[r]
<1>1. /\ phase[r] = "put" /\ r \in InFlight /\ j \in Jobs
      /\ files' = [files EXCEPT ![j.path] = j.envelope]
  BY DEF PutFile, Land, InFlight, Settled
<1>2. j.path \in Path /\ j.envelope \in Envelope /\ j.envelope # NoFile
  BY <1>1, GateAssumption DEF Job
<1>3. Repository(files) /\ Repository(files')
  <2>1. Repository(files)
    BY AlwaysRepository
  <2>2. Repository(files')
    BY DEF Settled, GateInv, Repository
  <2> QED
    BY <2>1, <2>2
<1>4. /\ \A p \in Path : files[p] \in MayHold(p)
      /\ j.path.dir # Outside
      /\ j.envelope.kind = "Mandate" => j.path.dir = j.envelope.mandate.track
      /\ files[j.path] \in {NoFile, j.envelope}
      /\ Verifies(log)
  BY <1>1 DEF EffectInv, PathFree
<1>5. CASE files[j.path] = j.envelope
  <2>1. files' = files
    BY <1>1, <1>3, <1>5 DEF Repository
  <2> QED
    BY <2>1
<1>6. CASE files[j.path] = NoFile /\ ~(j.envelope.kind = "Mandate" /\ j.envelope.mandate.track = t)
  <2>1. \A p \in Path : p # j.path => files'[p] = files[p]
    BY <1>1, <1>3 DEF Repository
  <2>2. files'[j.path] = j.envelope
    BY <1>1, <1>2, <1>3 DEF Repository
  <2>3. j.path \notin MandatesIn(files, t) /\ j.path \notin MandatesIn(files', t)
    BY <1>4, <1>6, <2>2 DEF MandatesIn, Read
  <2>4. /\ MandatesIn(files', t) = MandatesIn(files, t)
        /\ \A p \in MandatesIn(files, t) : files'[p] = files[p]
    BY <2>1, <2>3 DEF MandatesIn, Read
  <2>5. DatesDiffer(files, t)
    BY <1>4, DatesAlwaysDiffer
  <2>6. PICK fs, gs : fs = files /\ gs = files'
    OBVIOUS
  <2>7. TrackLog(Snapshot(gs), t) = TrackLog(Snapshot(fs), t)
    <3>1. /\ Repository(fs) /\ Repository(gs) /\ DatesDiffer(fs, t)
          /\ MandatesIn(gs, t) = MandatesIn(fs, t)
          /\ \A p \in MandatesIn(fs, t) : gs[p] = fs[p]
      BY <1>3, <2>4, <2>5, <2>6
    <3> QED
      BY ONLY <3>1, OtherFiles
  <2> QED
    BY <2>6, <2>7
<1>7. CASE files[j.path] = NoFile /\ j.envelope.kind = "Mandate" /\ j.envelope.mandate.track = t
  <2>1. \E c \in 0 .. now : Decide(j, Snapshot(files), c)
    BY <1>1 DEF GateInv, Acceptable
  <2>2. PICK m, fs, gs, job0 : m = j.envelope.mandate /\ fs = files /\ gs = files' /\ job0 = j
    OBVIOUS
  <2>3. Landing(fs, gs, job0, m)
    BY <1>1, <1>3, <1>4, <1>7, <2>1, <2>2 DEF Landing
  <2>4. log = TrackLog(Snapshot(fs), m.track) /\ more = TrackLog(Snapshot(gs), m.track)
    BY <1>7, <2>2
  <2>5. LetThrough(log, more, m)
    BY ONLY NamedApart, <2>3, <2>4, LandingExtends
  <2>6. m \in Mandate
    BY <2>5 DEF LetThrough
  <2>7. files'[j.path] = j.envelope
    BY <1>1, <1>2, <1>3 DEF Repository
  <2> QED
    BY <1>7, <2>2, <2>5, <2>6, <2>7 DEF LandsOn
<1> QED
  BY <1>4, <1>5, <1>6, <1>7

(* So a track that verified still does. *)
LEMMA LandingVerifies ==
  ASSUME NEW log, NEW more, NEW r, NEW m, LandsOn(log, more, r, m)
  PROVE  Verifies(more)
<1>1. PICK before, after : before = OnRepoChain(log) /\ after = OnRepoChain(more)
  OBVIOUS
<1>2. LetThrough(log, more, m)
  BY DEF LandsOn
<1>3. after.accepted = more
  BY ONLY <1>1, <1>2, DecidedExtends
<1> QED
  BY <1>1, <1>3 DEF Verifies

(* A request that is not overtaken leaves everybody else on their way, and   *)
(* what it has been told stays true.                                         *)
LEMMA EffectInvStep ==
  ASSUME Careful, NamedApart, Settled, Settled', GateInv, GateInv', EffectInv, [Next]_vars
  PROVE  EffectInv'
<1>1. /\ DOMAIN phase = Request /\ DOMAIN job = Request /\ DOMAIN answer = Request
      /\ \A r \in Request : phase[r] # "idle" => job[r] \in Jobs
      /\ \A r \in Request : answer[r] = "ok" => phase[r] = "done"
  BY DEF Settled
(* A step of r that changes no file and answers nobody "ok". *)
<1>2. ASSUME NEW r \in Request, UNCHANGED <<files, overtaken>>,
             \A q \in Request : q # r => /\ phase'[q] = phase[q] /\ job'[q] = job[q]
                                         /\ answer'[q] = answer[q],
             answer'[r] # "ok",
             r \in InFlight' => /\ PathFree(r)' /\ job'[r].path.dir # Outside
                                /\ job'[r].envelope.kind = "Mandate" =>
                                     job'[r].path.dir = job'[r].envelope.mandate.track
      PROVE  EffectInv'
  <2>1. \A q \in Request : q # r /\ q \in InFlight' => q \in InFlight /\ job'[q] = job[q]
    BY <1>2 DEF InFlight
  <2>2. \A q \in Request : q # r /\ PathFree(q) => PathFree(q)'
    BY <1>2 DEF PathFree
  <2>3. InFlight' \subseteq Request
    BY DEF InFlight
  <2> QED
    BY <1>2, <2>1, <2>2, <2>3 DEF EffectInv
<1>3. CASE UNCHANGED vars
  <2>1. InFlight' = InFlight /\ \A r \in Request : PathFree(r)' <=> PathFree(r)
    BY <1>3 DEF vars, InFlight, PathFree
  <2>2. InFlight \subseteq Request
    BY DEF InFlight
  <2> QED
    BY <1>3, <2>1, <2>2 DEF vars, EffectInv
<1>4. CASE Tick
  <2>1. InFlight' = InFlight /\ \A r \in Request : PathFree(r)' <=> PathFree(r)
    BY <1>4 DEF Tick, InFlight, PathFree
  <2>2. InFlight \subseteq Request
    BY DEF InFlight
  <2> QED
    BY <1>4, <2>1, <2>2 DEF Tick, EffectInv
<1>5. ASSUME NEW r \in Request, NEW j \in Jobs, Arrive(r, j) PROVE EffectInv'
  <2>1. /\ phase[r] = "idle" /\ job' = [job EXCEPT ![r] = j] /\ ChosenWithCare(j)
        /\ UNCHANGED <<files, overtaken>>
    BY <1>5 DEF Arrive
  <2>2. \/ phase' = [phase EXCEPT ![r] = "done"] /\ answer' = [answer EXCEPT ![r] = "refused"]
        \/ j.path.dir # Outside /\ phase' = [phase EXCEPT ![r] = "list"] /\ UNCHANGED answer
    BY <1>5 DEF Arrive, Finish
  <2>3. job'[r] = j /\ answer'[r] # "ok"
    BY <1>1, <2>1, <2>2
  <2>4. j.path \in Path
    BY GateAssumption DEF Job
  <2>5. /\ j.envelope.kind = "Mandate" => j.path.dir = j.envelope.mandate.track
        /\ files[j.path] \in {NoFile, j.envelope}
    BY <2>1, <2>4 DEF ChosenWithCare
  <2>6. PathFree(r)'
    BY <2>1, <2>3, <2>5 DEF PathFree
  <2>7. r \in InFlight' => j.path.dir # Outside
    BY <1>1, <2>2 DEF InFlight
  <2>8. \A q \in Request : q # r => /\ phase'[q] = phase[q] /\ job'[q] = job[q]
                                    /\ answer'[q] = answer[q]
    BY <1>1, <2>1, <2>2
  <2> QED
    BY <1>2, <2>1, <2>3, <2>5, <2>6, <2>7, <2>8
<1>6. ASSUME NEW r \in Request, phase[r] \notin {"idle", "done"},
             UNCHANGED <<files, job, overtaken>>,
             \/ \E x \in Phase : phase' = [phase EXCEPT ![r] = x] /\ UNCHANGED answer
             \/ \E a \in {"refused", "failed"} : Finish(r, a)
      PROVE  EffectInv'
  <2>1. /\ \A q \in Request : q # r => phase'[q] = phase[q] /\ answer'[q] = answer[q]
        /\ answer'[r] # "ok"
    BY <1>1, <1>6 DEF Finish
  <2>2. r \in InFlight
    BY <1>6 DEF InFlight
  <2>3. overtaken = {} => PathFree(r)'
    BY <1>6, <2>2 DEF EffectInv, PathFree
  <2>4. /\ job[r].path.dir # Outside
        /\ job[r].envelope.kind = "Mandate" => job[r].path.dir = job[r].envelope.mandate.track
    BY <2>2 DEF EffectInv
  <2>5. \A q \in Request : q # r /\ q \in InFlight' => q \in InFlight
    BY <2>1 DEF InFlight
  <2>6. \A q \in Request : PathFree(q) => PathFree(q)'
    BY <1>6 DEF PathFree
  <2>7. InFlight' \subseteq Request
    BY DEF InFlight
  <2> QED
    BY <1>6, <2>1, <2>2, <2>4, <2>5, <2>6, <2>7 DEF EffectInv
<1>7. ASSUME NEW r \in Request, ListFiles(r) PROVE EffectInv'
  BY <1>6, <1>7 DEF ListFiles, Phase
<1>8. ASSUME NEW r \in Request, ReadFile(r) PROVE EffectInv'
  <2>1. phase' = [phase EXCEPT ![r] = "read"]
    BY <1>8 DEF ReadFile, Settled
  <2> QED
    BY <1>6, <1>8, <2>1 DEF ReadFile, Phase
<1>9. ASSUME NEW r \in Request, DecideNow(r) PROVE EffectInv'
  BY <1>6, <1>9 DEF DecideNow, Phase
<1>10. ASSUME NEW r \in Request, FetchFileSha(r) PROVE EffectInv'
  BY <1>6, <1>10 DEF FetchFileSha, Phase
<1>11. ASSUME NEW r \in Request, CallFails(r) PROVE EffectInv'
  BY <1>6, <1>11 DEF CallFails
<1>12. ASSUME NEW r \in Request, PutFile(r), ~Land(r) PROVE EffectInv'
  BY <1>6, <1>12 DEF PutFile
<1>13. ASSUME NEW r \in Request, PutFile(r), Land(r) PROVE EffectInv'
  <2> DEFINE j == job[r]
  <2>1. /\ phase[r] = "put" /\ r \in InFlight /\ j \in Jobs /\ job' = job
        /\ files' = [files EXCEPT ![j.path] = j.envelope]
        /\ overtaken' = overtaken \cup
             {q \in InFlight \ {r} : phase[q] # "list" \/ job[q].path = j.path}
    BY <1>13 DEF PutFile, Land, InFlight, Settled
  <2>2. PICK a : Finish(r, a)
    BY <1>13 DEF PutFile
  <2>3. /\ phase'[r] = "done" /\ answer'[r] = a
        /\ \A q \in Request : q # r => phase'[q] = phase[q] /\ answer'[q] = answer[q]
    BY <1>1, <2>2 DEF Finish
  <2>4. j.path \in Path /\ j.envelope \in Envelope /\ j.envelope # NoFile
    BY <2>1, GateAssumption DEF Job
  <2>5. /\ files'[j.path] = j.envelope /\ \A p \in Path : p # j.path => files'[p] = files[p]
        /\ DOMAIN files = Path
    BY <2>1, <2>4 DEF Settled
  <2>6. j.envelope \in MayHold(j.path)
    BY <2>1 DEF MayHold
  <2>7. \A p \in Path : files'[p] \in MayHold(p)
    BY <2>5, <2>6 DEF EffectInv
  <2>8. \A q \in Request : q \in InFlight' \/ answer'[q] = "ok" =>
          /\ job'[q].path.dir # Outside
          /\ job'[q].envelope.kind = "Mandate" =>
               job'[q].path.dir = job'[q].envelope.mandate.track
    BY <2>1, <2>3 DEF EffectInv, InFlight
  <2>9. ASSUME overtaken' = {}
        PROVE  /\ \A q \in InFlight' : PathFree(q)'
               /\ \A q \in Request : answer'[q] = "ok" =>
                    files'[job'[q].path] = job'[q].envelope
               /\ \A t \in Track : Verifies(TrackLog(Snapshot(files), t))'
    <3>1. /\ overtaken = {}
          /\ \A q \in InFlight \ {r} : phase[q] = "list" /\ job[q].path # j.path
      BY <2>1, <2>9
    <3>2. ASSUME NEW q \in InFlight' PROVE PathFree(q)'
      <4>1. q \in InFlight \ {r}
        BY <2>3, <3>2 DEF InFlight
      <4>2. job[q].path \in Path
        BY <1>1, <4>1, GateAssumption DEF InFlight, Job
      <4> QED
        BY <2>1, <2>5, <3>1, <4>1, <4>2 DEF EffectInv, PathFree
    <3>3. ASSUME NEW q \in Request, answer'[q] = "ok"
          PROVE  files'[job'[q].path] = job'[q].envelope
      <4>1. CASE q = r
        BY <2>1, <2>5, <4>1
      <4>2. CASE q # r
        <5>1. answer[q] = "ok" /\ files[job[q].path] = job[q].envelope
          BY <2>3, <3>1, <3>3, <4>2 DEF EffectInv
        <5>2. job[q].path \in Path /\ job[q].envelope # NoFile
          BY <1>1, <5>1, GateAssumption DEF Job
        <5>3. files[j.path] \in {NoFile, j.envelope}
          BY <2>1, <3>1 DEF EffectInv, PathFree
        <5> QED
          BY <2>1, <2>5, <5>1, <5>2, <5>3
      <4> QED
        BY <4>1, <4>2
    <3>4. ASSUME NEW t \in Track PROVE Verifies(TrackLog(Snapshot(files'), t))
      <4>1. PICK log, more : /\ log = TrackLog(Snapshot(files), t)
                             /\ more = TrackLog(Snapshot(files'), t)
        OBVIOUS
      <4>2. Verifies(log)
        BY <3>1, <4>1 DEF EffectInv
      <4>3. more = log \/ \E m \in Mandate : m.track = t /\ LandsOn(log, more, r, m)
        BY <1>13, <3>1, <4>1, LandingOutcome
      <4>4. Verifies(more)
        BY <4>2, <4>3, LandingVerifies
      <4> QED
        BY <4>1, <4>4
    <3> QED
      BY <3>2, <3>3, <3>4
  <2> QED
    BY <2>7, <2>8, <2>9 DEF EffectInv
<1> QED
  BY <1>3, <1>4, <1>5, <1>7, <1>8, <1>9, <1>10, <1>11, <1>12, <1>13 DEF Next, Step

EffectAlways == Settled /\ GateInv /\ EffectInv

THEOREM EffectInvariant ==
  ASSUME Careful, NamedApart, StartsVerified
  PROVE  Spec => []EffectAlways
<1>1. Init => EffectAlways
  <2> SUFFICES ASSUME Init PROVE Settled /\ GateInv /\ EffectInv
    BY DEF EffectAlways
  <2>1. Settled
    BY GateAssumption DEF Init, Settled, Phase
  <2>2. GateInv
    BY GateAssumption DEF Init, GateInv
  <2>3. EffectInv
    <3>1. files = InitialFiles /\ InFlight = {} /\ \A r \in Request : answer[r] # "ok"
      BY DEF Init, InFlight
    <3> QED
      BY <3>1 DEF EffectInv, MayHold, StartsVerified
  <2> QED
    BY <2>1, <2>2, <2>3
<1>2. EffectAlways /\ [Next]_vars => EffectAlways'
  BY SettledStep, GateInvStep, EffectInvStep DEF EffectAlways
<1> QED
  BY <1>1, <1>2, PTL DEF Spec

(* A mandate whose commit was acknowledged is part of its track's verified   *)
(* chain, and no later commit, retry or failed call puts it out again, until *)
(* somebody is overtaken (policy.ts checkMandateAuthority, worker.ts         *)
(* handleCommit): for clients that name their files with care and a          *)
(* repository that verified to begin with.                                   *)
THEOREM AcknowledgedStays ==
  ASSUME Careful, NamedApart, StartsVerified
  PROVE  Spec => []AcknowledgedIsEffective
<1>1. EffectAlways => AcknowledgedIsEffective
  <2> SUFFICES ASSUME Settled, GateInv, EffectInv, overtaken = {}, NEW r \in Request,
                      answer[r] = "ok", job[r].envelope.kind = "Mandate",
                      NEW m, m = job[r].envelope.mandate
               PROVE  m \in ToSet(ChainOf(files, m.track).accepted)
    BY DEF EffectAlways, AcknowledgedIsEffective
  <2> DEFINE p == job[r].path
             t == m.track
  <2>1. job[r] \in Jobs
    BY DEF Settled
  <2>2. p \in Path /\ job[r].envelope \in Wrapped /\ job[r].envelope # NoFile
    <3>1. p \in Path /\ job[r].envelope \in Envelope
      BY <2>1, GateAssumption DEF Job
    <3> QED
      BY <3>1, GateAssumption DEF Envelope, Endorsement, Identity
  <2>3. m \in Mandate /\ t \in Track
    BY <2>2 DEF Wrapped, Mandate
  <2>4. files[p] = job[r].envelope /\ p.dir = t /\ p.dir # Outside
    BY DEF EffectInv
  <2>5. p \in MandatesIn(files, t)
    BY <2>2, <2>4 DEF MandatesIn, Read
  <2>6. Repository(files) /\ DatesDiffer(files, t)
    BY AlwaysRepository, DatesAlwaysDiffer DEF EffectInv
  <2>7. PICK log : log = TrackLog(Snapshot(files), t)
    OBVIOUS
  <2>8. /\ log \in Seq(Mandate) /\ PlaceAt(files, t, p) \in 1 .. Len(log)
        /\ log[PlaceAt(files, t, p)] = m
    BY <2>4, <2>5, <2>6, <2>7, LogOfFiles
  <2>9. m \in ToSet(log)
    BY <2>8 DEF ToSet
  <2>10. ChainOf(files, t).accepted = log
    BY <2>3, <2>7 DEF EffectInv, Verifies, ChainOf
  <2> QED
    BY <2>9, <2>10
<1> QED
  BY <1>1, EffectInvariant, PTL

-----------------------------------------------------------------------------
(* WHAT GET /verify REPORTS *)

(* The newest mandate, if it is live, has the authority; if it is not, the   *)
(* one that had it before.                                                   *)
LEMMA NewestHolds ==
  ASSUME NEW c \in VerifiedChain, NEW d \in VerifiedChain, NEW m \in Mandate, NEW t \in Nat,
         d.accepted = Append(c.accepted, m)
  PROVE  IF LiveAt(m, t)
         THEN HasAuthority(d, t) /\ CurrentAuthority(d, t) = m
         ELSE /\ HasAuthority(d, t) <=> HasAuthority(c, t)
              /\ HasAuthority(c, t) => CurrentAuthority(d, t) = CurrentAuthority(c, t)
<1> DEFINE n == Len(c.accepted)
<1>1. /\ c.accepted \in Seq(Mandate) /\ n \in Nat /\ DOMAIN c.accepted = 1 .. n
      /\ DOMAIN d.accepted = 1 .. (n + 1) /\ d.accepted[n + 1] = m
      /\ \A k \in 1 .. n : d.accepted[k] = c.accepted[k]
  BY DEF VerifiedChain
<1>2. CASE LiveAt(m, t)
  <2>1. n + 1 \in LivePositions(d, t) /\ \A k \in LivePositions(d, t) : k <= n + 1
    BY <1>1, <1>2 DEF LivePositions
  <2>2. HasAuthority(d, t)
    BY <2>1 DEF HasAuthority
  <2>3. AuthorityPosition(d, t) = n + 1
    <3>1. /\ AuthorityPosition(d, t) \in LivePositions(d, t)
          /\ \A j \in LivePositions(d, t) : j <= AuthorityPosition(d, t)
      BY <2>2, AuthorityIsNewest
    <3>2. AuthorityPosition(d, t) \in 1 .. (n + 1)
      BY <1>1, <3>1 DEF LivePositions
    <3> QED
      BY <1>1, <2>1, <3>1, <3>2
  <2> QED
    BY <1>1, <1>2, <2>2, <2>3 DEF CurrentAuthority
<1>3. CASE ~LiveAt(m, t)
  <2>1. LivePositions(d, t) = LivePositions(c, t)
    <3>1. \A k \in 1 .. (n + 1) : k = n + 1 \/ k \in 1 .. n
      BY <1>1
    <3>2. \A k \in 1 .. n : k \in 1 .. (n + 1)
      BY <1>1
    <3> QED
      BY <1>1, <1>3, <3>1, <3>2 DEF LivePositions
  <2>2. HasAuthority(d, t) <=> HasAuthority(c, t)
    BY <2>1 DEF HasAuthority
  <2>3. AuthorityPosition(d, t) = AuthorityPosition(c, t)
    BY <2>1 DEF AuthorityPosition
  <2>4. HasAuthority(c, t) => AuthorityPosition(c, t) \in 1 .. n
    BY <1>1, AuthorityIsNewest DEF LivePositions
  <2> QED
    BY <1>1, <1>3, <2>2, <2>3, <2>4 DEF CurrentAuthority
<1> QED
  BY <1>2, <1>3

(* What one commit may change in the summary of a track. *)
Kept(before, after) ==
  /\ after.count >= before.count /\ after.rejected <= before.rejected
  /\ before.alarms \subseteq after.alarms

(* A commit that lands on a track only adds to its summary. *)
LEMMA SummaryGrows ==
  ASSUME NEW t \in Track, NEW time \in Nat, NEW log, log = TrackLog(Snapshot(files), t),
         NEW more, more = TrackLog(Snapshot(files'), t), NEW m, LetThrough(log, more, m),
         NEW before, before = Summary(files, t, time),
         NEW after, after = Summary(files', t, time)
  PROVE  /\ Kept(before, after)
         /\ after.holder # before.holder => after.holder = {m.holder}
         /\ before.count > 0 =>
              Head(ChainOf(files', t).accepted) = Head(ChainOf(files, t).accepted)
<1>1. PICK c, d : c = OnRepoChain(log) /\ d = OnRepoChain(more)
  OBVIOUS
<1>2. /\ c \in VerifiedChain /\ d \in VerifiedChain
      /\ d.accepted = more /\ d.rejections = c.rejections
      /\ log = <<>> => d.rootError = "none"
      /\ log # <<>> => d.rootError = c.rootError
  BY ONLY LetThrough(log, more, m), <1>1, DecidedExtends
<1>3. /\ log \in Seq(Mandate) /\ m \in Mandate /\ c.accepted = log /\ more = Append(log, m)
  BY <1>1 DEF LetThrough, Verifies
<1>4. d.accepted = Append(c.accepted, m)
  BY <1>2, <1>3
<1> DEFINE Rootless(l, ch) == IF l # <<>> /\ ch.rootError # "none" THEN 1 ELSE 0
           Of(l, ch) ==
             [holder |-> IF HasAuthority(ch, time) THEN {CurrentAuthority(ch, time).holder} ELSE {},
              count |-> Len(ch.accepted), rejected |-> Len(ch.rejections) + Rootless(l, ch),
              alarms |-> Takeovers(ch)]
<1>5. before = Of(log, c) /\ after = Of(more, d)
  BY <1>1 DEF Summary
<1>6. after.count >= before.count
  <2>1. Len(d.accepted) = Len(c.accepted) + 1 /\ Len(c.accepted) \in Nat
    BY <1>3, <1>4
  <2>2. before.count = Len(c.accepted) /\ after.count = Len(d.accepted)
    BY <1>5
  <2> QED
    BY <2>1, <2>2
<1>7. after.rejected <= before.rejected
  <2>1. before.rejected = Len(c.rejections) + Rootless(log, c)
        /\ after.rejected = Len(d.rejections) + Rootless(more, d)
    BY <1>5
  <2>2. Len(c.rejections) \in Nat
    BY <1>2 DEF VerifiedChain
  <2>3. Rootless(more, d) <= Rootless(log, c) /\ Rootless(more, d) \in Nat
        /\ Rootless(log, c) \in Nat
    BY <1>2
  <2> HIDE DEF Rootless
  <2> QED
    BY <1>2, <2>1, <2>2, <2>3
<1>8. before.alarms \subseteq after.alarms
  <2>1. \A k \in 1 .. Len(c.accepted) : d.accepted[k] = c.accepted[k]
    BY <1>3, <1>4
  <2>2. Len(c.accepted) \in Nat /\ Len(d.accepted) = Len(c.accepted) + 1
    BY <1>3, <1>4
  <2>3. \A k \in 2 .. Len(c.accepted) : /\ k \in 2 .. Len(d.accepted)
                                        /\ k \in 1 .. Len(c.accepted)
                                        /\ k - 1 \in 1 .. Len(c.accepted)
    BY <2>2
  <2>4. Takeovers(c) \subseteq Takeovers(d)
    BY <2>1, <2>3 DEF Takeovers
  <2> QED
    BY <1>5, <2>4
<1>9. after.holder # before.holder => after.holder = {m.holder}
  <2>1. /\ before.holder = IF HasAuthority(c, time) THEN {CurrentAuthority(c, time).holder} ELSE {}
        /\ after.holder = IF HasAuthority(d, time) THEN {CurrentAuthority(d, time).holder} ELSE {}
    BY <1>5
  <2>2. IF LiveAt(m, time)
        THEN HasAuthority(d, time) /\ CurrentAuthority(d, time) = m
        ELSE /\ HasAuthority(d, time) <=> HasAuthority(c, time)
             /\ HasAuthority(c, time) => CurrentAuthority(d, time) = CurrentAuthority(c, time)
    BY <1>2, <1>3, <1>4, NewestHolds
  <2> QED
    BY <2>1, <2>2
<1>10. before.count > 0 =>
         Head(ChainOf(files', t).accepted) = Head(ChainOf(files, t).accepted)
  <2>1. ChainOf(files, t) = c /\ ChainOf(files', t) = d
    BY <1>1 DEF ChainOf
  <2>2. before.count = Len(log)
    BY <1>3, <1>5
  <2>3. Len(log) > 0 => Head(more) = Head(log)
    BY <1>3
  <2> QED
    BY <1>2, <1>3, <2>1, <2>2, <2>3
<1> QED
  BY <1>6, <1>7, <1>8, <1>9, <1>10 DEF Kept

(* Only a PUT changes a file. *)
LEMMA FilesChangeByPut ==
  ASSUME [Next]_vars, files' # files
  PROVE  \E r \in Request : PutFile(r) /\ Land(r)
<1>1. ~UNCHANGED vars /\ ~Tick
  BY DEF vars, Tick
<1>2. ASSUME NEW r \in Request, Step(r) PROVE PutFile(r) /\ Land(r)
  <2>1. \A j \in Jobs : ~Arrive(r, j)
    BY DEF Arrive
  <2>2. ~ListFiles(r) /\ ~ReadFile(r) /\ ~DecideNow(r) /\ ~FetchFileSha(r) /\ ~CallFails(r)
    BY DEF ListFiles, ReadFile, DecideNow, FetchFileSha, CallFails
  <2>3. PutFile(r)
    BY <1>2, <2>1, <2>2 DEF Step
  <2> QED
    BY <2>3 DEF PutFile
<1> QED
  BY <1>1, <1>2 DEF Next

(* A commit takes nothing back from what GET /verify reports of any track -  *)
(* the count, the alarms, the anchor - rejects no mandate of it, and passes  *)
(* authority only to the holder that the new file names, until somebody is   *)
(* overtaken (policy.ts summarizeState): under the same hypotheses.          *)
THEOREM ReportsAreKept ==
  ASSUME Careful, NamedApart, StartsVerified
  PROVE  Spec => ReportStays
<1> DEFINE Stays(t) ==
             LET before == Summary(files, t, now)
                 after == Summary(files', t, now)
             IN  overtaken' = {} =>
                   /\ after.count >= before.count /\ after.rejected <= before.rejected
                   /\ before.alarms \subseteq after.alarms
                   /\ after.holder # before.holder =>
                        \E p \in Path :
                          /\ files'[p] # files[p] /\ files'[p].kind = "Mandate"
                          /\ files'[p].mandate.track = t
                          /\ after.holder = {files'[p].mandate.holder}
                   /\ before.count > 0 =>
                        Head(ChainOf(files', t).accepted) = Head(ChainOf(files, t).accepted)
<1>1. EffectAlways /\ EffectAlways' /\ [Next]_vars => [\A t \in Track : Stays(t)]_files
  <2> SUFFICES ASSUME EffectAlways, EffectAlways', [Next]_vars, files' # files,
                      overtaken' = {}, NEW t \in Track
               PROVE  Stays(t)
    OBVIOUS
  <2>1. PICK r \in Request : PutFile(r) /\ Land(r)
    BY FilesChangeByPut
  <2>2. overtaken = {}
    BY <2>1 DEF Land
  <2>3. PICK log, more : /\ log = TrackLog(Snapshot(files), t)
                         /\ more = TrackLog(Snapshot(files'), t)
    OBVIOUS
  <2>4. more = log \/ \E m \in Mandate : m.track = t /\ LandsOn(log, more, r, m)
    BY <2>1, <2>2, <2>3, LandingOutcome DEF EffectAlways
  <2>5. PICK before, after : before = Summary(files, t, now) /\ after = Summary(files', t, now)
    OBVIOUS
  <2>6. now \in Nat
    BY DEF EffectAlways, GateInv
  <2>7. CASE more = log
    <3>1. after = before
      BY <2>3, <2>5, <2>7 DEF Summary
    <3>2. ChainOf(files', t) = ChainOf(files, t)
      BY <2>3, <2>7 DEF ChainOf
    <3>3. before.count \in Nat /\ before.rejected \in Nat
      <4>1. log \in Seq(Mandate)
        <5>1. Repository(files) /\ DatesDiffer(files, t)
          BY AlwaysRepository, DatesAlwaysDiffer DEF EffectAlways, EffectInv
        <5> QED
          BY <2>3, <5>1, LogOfFiles
      <4>2. OnRepoChain(log) \in VerifiedChain
        <5>1. EmptyChain(NoPin) \in VerifiedChain
          BY DEF EmptyChain, VerifiedChain, V2RootFailReason
        <5> QED
          BY <4>1, <5>1, VerifyType DEF OnRepoChain
      <4>3. PICK c : c = OnRepoChain(log)
        OBVIOUS
      <4>4. /\ before.count = Len(c.accepted)
            /\ \E x \in {0, 1} : before.rejected = Len(c.rejections) + x
        BY <2>3, <2>5, <4>3 DEF Summary
      <4>5. Len(c.accepted) \in Nat /\ Len(c.rejections) \in Nat
        BY <4>2, <4>3 DEF VerifiedChain
      <4> QED
        BY <4>4, <4>5
    <3> QED
      BY <2>5, <3>1, <3>2, <3>3
  <2>8. ASSUME NEW m \in Mandate, m.track = t, LandsOn(log, more, r, m) PROVE Stays(t)
    <3>1. LetThrough(log, more, m)
      BY <2>8 DEF LandsOn
    <3>2. /\ Kept(before, after)
          /\ after.holder # before.holder => after.holder = {m.holder}
          /\ before.count > 0 =>
               Head(ChainOf(files', t).accepted) = Head(ChainOf(files, t).accepted)
      BY <2>3, <2>5, <2>6, <3>1, SummaryGrows
    <3>3. job[r] \in Jobs
      BY <2>1 DEF EffectAlways, Settled, PutFile
    <3>4. job[r].path \in Path /\ job[r].envelope # NoFile
      BY <3>3, GateAssumption DEF Job
    <3>5. \E p \in Path : /\ files'[p] # files[p] /\ files'[p].kind = "Mandate"
                          /\ files'[p].mandate.track = t /\ files'[p].mandate.holder = m.holder
      BY <2>8, <3>4 DEF LandsOn
    <3> QED
      BY <2>5, <3>2, <3>5 DEF Kept
  <2> QED
    BY <2>4, <2>7, <2>8
<1> QED
  BY <1>1, EffectInvariant, PTL DEF Spec, ReportStays
=============================================================================
