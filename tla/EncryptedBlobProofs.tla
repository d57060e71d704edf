------------------------ MODULE EncryptedBlobProofs ------------------------
(***************************************************************************)
(* Two results on the encrypted-blob adapter.  As long as the calls of one *)
(* adapter are orderly, it implements the abstract storage, for every      *)
(* folder and every sequence of calls and resets.  And however the calls   *)
(* of one adapter overlap and fail, the log stays ordered.                 *)
(***************************************************************************)
EXTENDS EncryptedBlob, FiniteSetTheorems, TLAPS

TypeInv ==
  /\ blob \in Folder \cup {NoBlob}
  /\ loaded \in [Adapter -> BOOLEAN]
  /\ entries \in [Adapter -> Folder]
  /\ counter \in [Adapter -> Nat]
  /\ phase \in [Call -> Phase]
  /\ job \in [Call -> Job \cup {NoJob}]
  /\ got \in [Call -> Folder \cup {NoBlob}]
  /\ plain \in [Call -> Folder]
  /\ \A c \in Call : phase[c] \in InFlight => job[c] \in Job
  /\ orderly \in BOOLEAN

LEMMA EmptyFolder == Empty \in Folder /\ Stored \in Folder \cup {blob}
  BY DEF Empty, Folder, Stored

(* n is the last position of a folder. *)
Top(es, n) ==
  /\ n \in {0} \cup Positions(es)
  /\ \A m \in Positions(es) : m <= n

LEMMA TopUnique ==
  ASSUME NEW es \in Folder, NEW n, NEW k \in Nat, Top(es, n), k <= n
  PROVE  n \in Nat /\ Max({k} \cup Positions(es)) = n
<1>1. Positions(es) \subseteq Nat
  BY DEF Positions, Folder, Entry
<1>2. n \in Nat
  BY <1>1 DEF Top
<1> DEFINE S == {k} \cup Positions(es)
<1>3. n \in S /\ S \subseteq Nat /\ \A m \in S : n >= m
  BY <1>1, <1>2 DEF Top
<1> HIDE DEF S
<1>4. \A x \in S : (\A m \in S : x >= m) => x = n
  BY <1>3
<1>5. (CHOOSE x \in S : \A m \in S : x >= m) = n
  BY <1>3, <1>4
<1> QED
  BY <1>2, <1>5 DEF Max, S

(* Types are kept; the count after a merge is the business of each theorem.  *)
LEMMA TypeStep ==
  ASSUME TypeInv, [Next]_vars, \A c \in Call : Merge(c) => counter' \in [Adapter -> Nat]
  PROVE  TypeInv'
<1> USE DEF TypeInv, Phase, InFlight
<1>1. CASE UNCHANGED vars
  BY <1>1 DEF vars
<1>2. ASSUME NEW c \in Call, NEW j \in Job, Start(c, j) PROVE TypeInv'
  <2>1. orderly' \in BOOLEAN
    BY <1>2 DEF Start
  <2> QED
    BY <1>2, <2>1 DEF Start, GoTo
<1>3. ASSUME NEW c \in Call, FetchBlob(c) PROVE TypeInv'
  BY <1>3 DEF FetchBlob, GoTo
<1>4. ASSUME NEW c \in Call, Merge(c) PROVE TypeInv'
  <2> DEFINE a == job[c].adapter
             merged == [p \in Path |-> IF got[c][p] # NoEntry THEN got[c][p] ELSE entries[a][p]]
  <2>1. a \in Adapter
    BY <1>4 DEF Merge, Job
  <2>2. got[c] # NoBlob => merged \in Folder
    BY <2>1 DEF Folder
  <2>3. entries' \in [Adapter -> Folder]
    BY <1>4, <2>2 DEF Merge
  <2>4. UNCHANGED <<blob, job, got, plain, orderly>> /\ phase' = [phase EXCEPT ![c] = "ready"]
        /\ loaded' = [loaded EXCEPT ![a] = TRUE] /\ phase[c] = "merge"
    BY <1>4 DEF Merge, GoTo
  <2> QED
    BY <1>4, <2>3, <2>4
<1>5. ASSUME NEW c \in Call, Read(c) PROVE TypeInv'
  BY <1>5, EmptyFolder DEF Read, End, GoTo
<1>6. ASSUME NEW c \in Call, Write(c) PROVE TypeInv'
  <2> DEFINE a == job[c].adapter
             e == [bytes |-> c, insertedAt |-> counter[a] + 1]
  <2>1. a \in Adapter /\ job[c].path \in Path
    BY <1>6 DEF Write, Job
  <2>2. e \in Entry
    BY <2>1 DEF Entry
  <2>3. entries' = [entries EXCEPT ![a][job[c].path] = e]
        /\ counter' = [counter EXCEPT ![a] = @ + 1]
        /\ phase' = [phase EXCEPT ![c] = "flush"] /\ phase[c] = "ready"
        /\ UNCHANGED <<blob, loaded, job, got, plain, orderly>>
    BY <1>6 DEF Write, GoTo
  <2> HIDE DEF e
  <2>4. entries' \in [Adapter -> Folder]
    BY <2>1, <2>2, <2>3 DEF Folder
  <2> QED
    BY <2>1, <2>3, <2>4
<1>7. ASSUME NEW c \in Call, Flush(c) PROVE TypeInv'
  <2>1. job[c].adapter \in Adapter
    BY <1>7 DEF Flush, Job
  <2> QED
    BY <1>7, <2>1 DEF Flush, GoTo
<1>8. ASSUME NEW c \in Call, StoreBlob(c) PROVE TypeInv'
  BY <1>8, EmptyFolder DEF StoreBlob, End, GoTo
<1>9. ASSUME NEW c \in Call, Fail(c) PROVE TypeInv'
  BY <1>9, EmptyFolder DEF Fail, End, GoTo
<1>10. ASSUME NEW a \in Adapter, Reset(a) PROVE TypeInv'
  <2>1. orderly' \in BOOLEAN
    BY <1>10 DEF Reset
  <2> QED
    BY <1>10, <2>1, EmptyFolder DEF Reset
<1> QED
  BY <1>1, <1>2, <1>3, <1>4, <1>5, <1>6, <1>7, <1>8, <1>9, <1>10 DEF Next, Step

-----------------------------------------------------------------------------
(* ORDERLY CALLS *)

(* The only copies of the folder are the blob and memory, and memory is at   *)
(* most one write ahead.                                                     *)
Alone == \A c, d \in Call : phase[c] \in InFlight /\ phase[d] \in InFlight => c = d

InSync(a) ==
  IF loaded[a] THEN entries[a] = Stored /\ counter[a] = LastPosition
  ELSE entries[a] = Empty /\ counter[a] = 0

Ahead(a, c) ==
  /\ loaded[a]
  /\ counter[a] = LastPosition + 1
  /\ entries[a] = Folders!Put(Stored, job[c].path, c, LastPosition + 1)

SeqInv(a) ==
  /\ Top(Stored, LastPosition)
  /\ Alone
  /\ (\A c \in Call : phase[c] \notin {"flush", "store"}) => InSync(a)
  /\ \A c \in Call :
       /\ phase[c] \in {"fetch", "merge"} => ~loaded[a]
       /\ phase[c] = "ready" => loaded[a]
       /\ phase[c] = "merge" => got[c] = blob
       /\ phase[c] \in {"flush", "store"} => Ahead(a, c)
       /\ phase[c] = "store" => plain[c] = entries[a]

(* A step after which the calls are still orderly found them so. *)
LEMMA OrderlyStep ==
  ASSUME [Next]_vars, orderly'
  PROVE  orderly
BY DEF Next, Step, vars, Start, FetchBlob, Merge, Read, Write, Flush, StoreBlob, Fail, Reset, End, GoTo

(* What a write makes of a folder, and its last position. *)
LEMMA PutTop ==
  ASSUME NEW es \in Folder, NEW n \in Nat, Top(es, n), NEW p \in Path, NEW c \in Call
  PROVE  /\ Folders!Put(es, p, c, n + 1) \in Folder
         /\ Top(Folders!Put(es, p, c, n + 1), n + 1)
<1> DEFINE e == [bytes |-> c, insertedAt |-> n + 1]
           f == [es EXCEPT ![p] = e]
<1>1. e \in Entry /\ e.insertedAt = n + 1 /\ e # NoEntry
  <2>1. n + 1 \in Nat \ {0}
    OBVIOUS
  <2>2. e \in Entry /\ e.insertedAt = n + 1
    BY <2>1 DEF Entry
  <2> QED
    BY <2>2, BlobAssumption, Zenon
<1>2. Folders!Put(es, p, c, n + 1) = f
  BY DEF Folders!Put
<1> HIDE DEF e
<1>3. f \in Folder
  BY <1>1 DEF Folder
<1>4. n + 1 \in Positions(f)
  BY <1>1 DEF Positions, Folder
<1>5. ASSUME NEW m \in Positions(f) PROVE m <= n + 1
  <2>1. PICK q \in Path : f[q] # NoEntry /\ m = f[q].insertedAt
    BY <1>5 DEF Positions
  <2>2. CASE q = p
    BY <1>1, <2>1, <2>2 DEF Folder
  <2>3. CASE q # p
    <3>1. m \in Positions(es)
      BY <2>1, <2>3 DEF Positions, Folder
    <3>2. m <= n /\ m \in Nat
      BY <3>1 DEF Top, Positions, Folder, Entry
    <3> QED
      BY <3>2
  <2> QED
    BY <2>2, <2>3
<1> QED
  BY <1>2, <1>3, <1>4, <1>5 DEF Top

LEMMA SeqInit ==
  ASSUME NEW a, Adapter = {a}, Init
  PROVE  TypeInv /\ SeqInv(a)
<1>1. TypeInv
  BY EmptyFolder DEF Init, TypeInv, Phase, InFlight
<1>2. Stored = Empty /\ Positions(Stored) = {}
  BY DEF Init, Stored, Empty, Positions
<1>3. LastPosition = 0 /\ Top(Stored, 0)
  <2>1. Top(Stored, 0)
    BY <1>2 DEF Top
  <2> QED
    BY <1>2, <2>1, TopUnique, EmptyFolder DEF LastPosition
<1> QED
  BY <1>1, <1>2, <1>3 DEF Init, SeqInv, Alone, InSync, InFlight

LEMMA StoredType ==
  ASSUME NEW a, TypeInv, SeqInv(a)
  PROVE  /\ Stored \in Folder /\ LastPosition \in Nat
         /\ Top(Stored, LastPosition)
         /\ Max({0} \cup Positions(Stored)) = LastPosition
<1>1. Stored \in Folder
  BY EmptyFolder DEF TypeInv, Stored
<1>2. Positions(Stored) \subseteq Nat
  BY <1>1 DEF Positions, Folder, Entry
<1> QED
  BY <1>1, <1>2 DEF SeqInv, Top, LastPosition

(* Loading makes memory a copy of the blob, with the count where it was.     *)
LEMMA MergeLoads ==
  ASSUME NEW a, Adapter = {a}, TypeInv, SeqInv(a), NEW c \in Call, Merge(c)
  PROVE  /\ loaded' = [loaded EXCEPT ![a] = TRUE]
         /\ entries' = [entries EXCEPT ![a] = Stored]
         /\ counter' = [counter EXCEPT ![a] = LastPosition]
         /\ phase[c] = "merge" /\ phase' = [phase EXCEPT ![c] = "ready"]
         /\ UNCHANGED <<blob, job, got, plain>>
<1>1. phase[c] = "merge" /\ phase' = [phase EXCEPT ![c] = "ready"]
      /\ UNCHANGED <<blob, job, got, plain>>
  BY DEF Merge, GoTo
<1>2. job[c].adapter = a /\ got[c] = blob /\ ~loaded[a]
  BY <1>1 DEF TypeInv, InFlight, Job, SeqInv
<1>3. entries[a] = Empty /\ counter[a] = 0
  <2>1. \A d \in Call : phase[d] \notin {"flush", "store"}
    BY <1>1 DEF SeqInv, Alone, InFlight
  <2> QED
    BY <1>2, <2>1 DEF SeqInv, InSync
<1>4. loaded' = [loaded EXCEPT ![a] = TRUE]
  BY <1>2 DEF Merge
<1>5. CASE blob = NoBlob
  <2>1. Stored = Empty /\ LastPosition = 0
    <3>1. Stored = Empty
      BY <1>5 DEF Stored
    <3>2. Positions(Empty) = {}
      BY DEF Positions, Empty
    <3> QED
      BY <3>1, <3>2 DEF SeqInv, Top
  <2>2. UNCHANGED <<entries, counter>>
    BY <1>2, <1>5 DEF Merge
  <2> QED
    BY <1>1, <1>3, <1>4, <2>1, <2>2 DEF TypeInv
<1>6. CASE blob # NoBlob
  <2> DEFINE merged == [p \in Path |-> IF blob[p] # NoEntry THEN blob[p] ELSE entries[a][p]]
  <2>1. Stored = blob /\ blob \in Folder
    BY <1>6 DEF Stored, TypeInv
  <2>2. merged = blob
    <3>1. \A p \in Path : entries[a][p] = NoEntry
      BY <1>3 DEF Empty
    <3> QED
      BY <2>1, <3>1 DEF Folder
  <2>3. entries' = [entries EXCEPT ![a] = merged]
    BY <1>2, <1>6 DEF Merge
  <2>4. counter' = [counter EXCEPT ![a] = Max({@} \cup Positions(blob))]
    BY <1>2, <1>6 DEF Merge
  <2>5. Max({counter[a]} \cup Positions(blob)) = LastPosition
    BY <1>3, <2>1, StoredType
  <2> QED
    BY <1>1, <1>4, <2>1, <2>2, <2>3, <2>4, <2>5
<1> QED
  BY <1>5, <1>6

(* A step either stores nothing, or is one write of the abstract folder.     *)
LEMMA SeqStep ==
  ASSUME NEW a, Adapter = {a}, TypeInv, SeqInv(a), [Next]_vars, orderly'
  PROVE  TypeInv' /\ SeqInv(a)' /\ [Folders!Next]_<<Stored, LastPosition>>
<1> USE DEF InFlight
<1>1. Stored \in Folder /\ LastPosition \in Nat /\ Top(Stored, LastPosition)
  BY StoredType
<1>2. blob' = blob => /\ UNCHANGED <<Stored, LastPosition>>
                      /\ Top(Stored, LastPosition)'
                      /\ [Folders!Next]_<<Stored, LastPosition>>
  BY <1>1 DEF Stored, LastPosition, Positions, Top
<1>3. TypeInv'
  <2>1. ASSUME NEW c \in Call, Merge(c) PROVE counter' \in [Adapter -> Nat]
    BY <1>1, <2>1, MergeLoads DEF TypeInv
  <2> QED
    BY <2>1, TypeStep
<1>4. ASSUME NEW c \in Call PROVE phase[c] \in InFlight => job[c].adapter = a /\ job[c] \in Job
  BY DEF TypeInv, Job
<1> DEFINE Goal == SeqInv(a)' /\ [Folders!Next]_<<Stored, LastPosition>>
<1> USE DEF TypeInv
<1>5. CASE UNCHANGED vars
  BY <1>2, <1>5 DEF vars, SeqInv, Alone, InSync, Ahead
<1>6. ASSUME NEW c \in Call, NEW j \in Job, Start(c, j) PROVE Goal
  <2>1. \A d \in Call : phase[d] \notin InFlight
    BY <1>6 DEF Start
  <2>2. phase' = [phase EXCEPT ![c] = IF loaded[a] THEN "ready" ELSE "fetch"]
        /\ UNCHANGED <<blob, loaded, entries, counter, got, plain>>
    BY <1>6 DEF Start, GoTo, Job
  <2>3. \A d \in Call : d # c => phase'[d] \notin InFlight
    BY <2>1, <2>2
  <2>4. phase'[c] = IF loaded[a] THEN "ready" ELSE "fetch"
    BY <2>2
  <2>5. InSync(a)
    BY <2>1 DEF SeqInv
  <2> QED
    BY <1>2, <2>2, <2>3, <2>4, <2>5 DEF SeqInv, Alone, InSync
<1>7. ASSUME NEW c \in Call, FetchBlob(c) PROVE Goal
  <2>1. phase[c] = "fetch" /\ phase' = [phase EXCEPT ![c] = "merge"]
        /\ got' = [got EXCEPT ![c] = blob]
        /\ UNCHANGED <<blob, loaded, entries, counter, job, plain>>
    BY <1>7 DEF FetchBlob, GoTo
  <2>2. InSync(a) /\ ~loaded[a] /\ \A d \in Call : d # c => phase[d] \notin InFlight
    BY <2>1 DEF SeqInv, Alone
  <2>3. \A d \in Call : d # c => phase'[d] \notin InFlight
    BY <2>1, <2>2
  <2> QED
    BY <1>2, <2>1, <2>2, <2>3 DEF SeqInv, Alone, InSync
<1>8. ASSUME NEW c \in Call, Merge(c) PROVE Goal
  <2>1. /\ loaded' = [loaded EXCEPT ![a] = TRUE]
        /\ entries' = [entries EXCEPT ![a] = Stored]
        /\ counter' = [counter EXCEPT ![a] = LastPosition]
        /\ phase[c] = "merge" /\ phase' = [phase EXCEPT ![c] = "ready"]
        /\ UNCHANGED <<blob, job, got, plain>>
    BY <1>8, MergeLoads
  <2>2. \A d \in Call : d # c => phase[d] \notin InFlight /\ phase'[d] \notin InFlight
    BY <2>1 DEF SeqInv, Alone
  <2>3. InSync(a)'
    BY <1>2, <2>1 DEF InSync
  <2>4. loaded'[a] /\ phase'[c] = "ready"
    BY <2>1
  <2> QED
    BY <1>2, <2>1, <2>2, <2>3, <2>4 DEF SeqInv, Alone
<1>9. ASSUME NEW c \in Call, Read(c) PROVE Goal
  <2>1. phase[c] = "ready" /\ phase' = [phase EXCEPT ![c] = "done"]
        /\ UNCHANGED <<blob, loaded, entries, counter>>
    BY <1>9 DEF Read, End, GoTo
  <2>2. InSync(a) /\ \A d \in Call : phase'[d] \notin InFlight
    BY <2>1 DEF SeqInv, Alone
  <2> QED
    BY <1>2, <2>1, <2>2 DEF SeqInv, Alone, InSync
<1>10. ASSUME NEW c \in Call, Write(c) PROVE Goal
  <2>1. phase[c] = "ready" /\ phase' = [phase EXCEPT ![c] = "flush"]
        /\ counter' = [counter EXCEPT ![a] = @ + 1]
        /\ entries' = [entries EXCEPT ![a][job[c].path] = [bytes |-> c, insertedAt |-> counter[a] + 1]]
        /\ UNCHANGED <<blob, loaded, job, got, plain>>
    BY <1>4, <1>10 DEF Write, GoTo
  <2>2. InSync(a) /\ loaded[a] /\ \A d \in Call : d # c => phase[d] \notin InFlight
    BY <2>1 DEF SeqInv, Alone
  <2>3. \A d \in Call : d # c => phase'[d] \notin InFlight
    BY <2>1, <2>2
  <2>4. Ahead(a, c)'
    <3>1. entries[a] = Stored /\ counter[a] = LastPosition /\ a \in Adapter
      BY <2>2 DEF InSync
    <3>2. entries'[a] = Folders!Put(Stored, job[c].path, c, LastPosition + 1)
          /\ counter'[a] = LastPosition + 1
      BY <2>1, <3>1 DEF Folders!Put
    <3>3. UNCHANGED <<Stored, LastPosition, job, loaded>>
      BY <1>2, <2>1
    <3> QED
      BY <2>2, <3>2, <3>3 DEF Ahead, Folders!Put
  <2>5. phase'[c] = "flush"
    BY <2>1
  <2> QED
    BY <1>2, <2>1, <2>3, <2>4, <2>5 DEF SeqInv, Alone
<1>11. ASSUME NEW c \in Call, Flush(c) PROVE Goal
  <2>1. phase[c] = "flush" /\ phase' = [phase EXCEPT ![c] = "store"]
        /\ plain' = [plain EXCEPT ![c] = entries[a]]
        /\ UNCHANGED <<blob, loaded, entries, counter, job, got>>
    BY <1>4, <1>11 DEF Flush, GoTo
  <2>2. Ahead(a, c) /\ \A d \in Call : d # c => phase[d] \notin InFlight
    BY <2>1 DEF SeqInv, Alone
  <2>3. \A d \in Call : d # c => phase'[d] \notin InFlight
    BY <2>1, <2>2
  <2>4. Ahead(a, c)'
    BY <1>2, <2>1, <2>2 DEF Ahead, Folders!Put
  <2>5. phase'[c] = "store" /\ plain'[c] = entries'[a]
    BY <2>1
  <2> QED
    BY <1>2, <2>1, <2>3, <2>4, <2>5 DEF SeqInv, Alone
<1>12. ASSUME NEW c \in Call, StoreBlob(c) PROVE Goal
  <2>1. phase[c] = "store" /\ phase' = [phase EXCEPT ![c] = "done"]
        /\ blob' = plain[c] /\ UNCHANGED <<loaded, entries, counter>>
    BY <1>12 DEF StoreBlob, End, GoTo
  <2>2. Ahead(a, c) /\ plain[c] = entries[a] /\ job[c].path \in Path
        /\ \A d \in Call : phase'[d] \notin InFlight
    BY <1>4, <2>1 DEF SeqInv, Alone, Job
  <2> DEFINE new == Folders!Put(Stored, job[c].path, c, LastPosition + 1)
  <2>3. blob' = new /\ entries[a] = new /\ counter[a] = LastPosition + 1 /\ loaded[a]
    BY <2>1, <2>2 DEF Ahead
  <2>4. new \in Folder /\ Top(new, LastPosition + 1)
    BY <1>1, <2>2, PutTop
  <2> HIDE DEF new
  <2>5. Stored' = new
    BY <2>3, <2>4, BlobAssumption DEF Stored
  <2>6. LastPosition' = LastPosition + 1
    <3>1. Max({0} \cup Positions(new)) = LastPosition + 1
      <4>1. 0 \in Nat /\ 0 <= LastPosition + 1
        BY <1>1
      <4> QED
        BY <2>4, <4>1, TopUnique, Zenon
    <3> QED
      BY <2>5, <3>1 DEF LastPosition, Positions
  <2>7. Top(Stored, LastPosition)'
    BY <2>4, <2>5, <2>6 DEF Top, Positions
  <2>8. Folders!Next
    <3>1. Folders!Write(job[c].path, c)
      BY <2>5, <2>6 DEF Folders!Write, new
    <3> QED
      BY <2>2, <3>1 DEF Folders!Next
  <2>9. InSync(a)'
    BY <2>1, <2>3, <2>5, <2>6 DEF InSync
  <2> QED
    BY <2>2, <2>7, <2>8, <2>9 DEF SeqInv, Alone
<1>13. ASSUME NEW c \in Call, Fail(c) PROVE Goal
  BY <1>13 DEF Fail
<1>14. ASSUME NEW b \in Adapter, Reset(b) PROVE Goal
  <2>1. b = a /\ Busy(a) = {} /\ loaded' = [loaded EXCEPT ![a] = FALSE]
        /\ entries' = [entries EXCEPT ![a] = Empty] /\ counter' = [counter EXCEPT ![a] = 0]
        /\ UNCHANGED <<blob, job, phase, got, plain>>
    BY <1>14 DEF Reset
  <2>2. \A d \in Call : phase'[d] \notin InFlight
    BY <1>4, <2>1 DEF Busy
  <2>3. InSync(a)'
    BY <2>1 DEF InSync
  <2> QED
    BY <1>2, <2>1, <2>2, <2>3 DEF SeqInv, Alone
<1> QED
  BY <1>3, <1>5, <1>6, <1>7, <1>8, <1>9, <1>10, <1>11, <1>12, <1>13, <1>14 DEF Next, Step

(* While its calls are orderly, the stored folder of one adapter behaves as  *)
(* the in-memory adapter does, for any folder, any calls and any resets.     *)
THEOREM Implements ==
  ASSUME NEW a, Adapter = {a}
  PROVE  Spec => ImplementsStorage
<1>1. Init => TypeInv /\ SeqInv(a)
  BY SeqInit
<1>2. (orderly => TypeInv /\ SeqInv(a)) /\ [Next]_vars =>
        /\ orderly' => TypeInv' /\ SeqInv(a)'
        /\ [orderly' => Folders!Next]_<<Stored, LastPosition>>
  BY SeqStep, OrderlyStep
<1>3. Init => Folders!Init
  <2> SUFFICES ASSUME Init PROVE Stored = Empty /\ LastPosition = 0
    BY DEF Folders!Init, Folders!Empty, Empty
  <2>1. Stored = Empty
    BY DEF Init, Stored
  <2>2. Positions(Stored) = {}
    BY <2>1 DEF Positions, Empty
  <2>3. LastPosition \in {0}
    BY <1>1, <2>2 DEF SeqInv, Top
  <2> QED
    BY <2>1, <2>3
<1> QED
  BY <1>1, <1>2, <1>3, PTL DEF Spec, ImplementsStorage

(* ... and memory, between calls, is what is stored.                         *)
THEOREM MemoryIsACache ==
  ASSUME NEW a, Adapter = {a}
  PROVE  Spec => []CacheIsCurrent
<1>1. Init => TypeInv /\ SeqInv(a)
  BY SeqInit
<1>2. (orderly => TypeInv /\ SeqInv(a)) /\ [Next]_vars => (orderly' => TypeInv' /\ SeqInv(a)')
  BY SeqStep, OrderlyStep
<1>3. (orderly => TypeInv /\ SeqInv(a)) => CacheIsCurrent
  <2> SUFFICES ASSUME TypeInv, SeqInv(a), loaded[a], Busy(a) = {} PROVE entries[a] = Stored
    BY DEF CacheIsCurrent
  <2>1. \A c \in Call : phase[c] \notin {"flush", "store"}
    BY DEF TypeInv, Busy, InFlight, Job
  <2> QED
    BY <2>1 DEF SeqInv, InSync
<1> QED
  BY <1>1, <1>2, <1>3, PTL DEF Spec

-----------------------------------------------------------------------------
(* MANY CALLS AT A TIME *)

(* Some copy of the folder, wherever it is, has entry e at path p.           *)
Known(a, p, e) ==
  /\ e # NoEntry
  /\ \/ Stored[p] = e
     \/ entries[a][p] = e
     \/ \E c \in Call : plain[c][p] = e
     \/ \E c \in Call : got[c] # NoBlob /\ got[c][p] = e

(* All copies agree on which path has a position, and the adapter's count    *)
(* is past every one of them.                                                *)
PositionsAgree(a) ==
  \A p, q \in Path : \A e, f \in Entry :
    Known(a, p, e) /\ Known(a, q, f) =>
      e.insertedAt <= counter[a] /\ (e.insertedAt = f.insertedAt => p = q)

(* A step that makes no entry keeps the agreement. *)
LEMMA NothingNew ==
  ASSUME NEW a, PositionsAgree(a), counter'[a] = counter[a],
         \A p \in Path, e \in Entry : Known(a, p, e)' => Known(a, p, e)
  PROVE  PositionsAgree(a)'
  BY DEF PositionsAgree

(* Merging an older copy of the folder leaves the count alone. *)
LEMMA MergeCount ==
  ASSUME NEW a, Adapter = {a}, TypeInv, PositionsAgree(a), NEW c \in Call, Merge(c)
  PROVE  counter'[a] = counter[a] /\ counter' \in [Adapter -> Nat]
<1>1. phase[c] = "merge"
  BY DEF Merge
<1>2. job[c].adapter = a /\ counter[a] \in Nat
  BY <1>1 DEF TypeInv, InFlight, Job
<1>3. CASE got[c] = NoBlob
  BY <1>2, <1>3 DEF Merge, TypeInv
<1>4. CASE got[c] # NoBlob
  <2> DEFINE S == {counter[a]} \cup Positions(got[c])
  <2>1. ASSUME NEW m \in Positions(got[c]) PROVE m \in Nat /\ m <= counter[a]
    <3>1. PICK p \in Path : got[c][p] # NoEntry /\ m = got[c][p].insertedAt
      BY DEF Positions
    <3>2. got[c][p] \in Entry
      BY <1>4, <3>1 DEF TypeInv, Folder
    <3>3. Known(a, p, got[c][p])
      BY <1>4, <3>1 DEF Known
    <3> QED
      BY <3>1, <3>2, <3>3 DEF PositionsAgree, Entry
  <2>2. counter[a] \in S /\ S \subseteq Nat /\ \A m \in S : counter[a] >= m
    BY <1>2, <2>1
  <2> HIDE DEF S
  <2>3. ASSUME NEW x \in S, \A m \in S : x >= m PROVE x = counter[a]
    <3>1. x \in Nat /\ counter[a] \in Nat /\ x >= counter[a] /\ counter[a] >= x
      BY <1>2, <2>2, <2>3
    <3> QED
      BY <3>1
  <2>4. (CHOOSE x \in S : \A m \in S : x >= m) = counter[a]
    BY <2>2, <2>3
  <2>5. counter' = [counter EXCEPT ![a] = Max({@} \cup Positions(got[c]))]
    BY <1>2, <1>4 DEF Merge
  <2> QED
    BY <1>2, <2>4, <2>5 DEF Max, S, TypeInv
<1> QED
  BY <1>3, <1>4

LEMMA OrderStep ==
  ASSUME NEW a, Adapter = {a}, Resets = "never", TypeInv, PositionsAgree(a), [Next]_vars
  PROVE  TypeInv' /\ PositionsAgree(a)'
<1>1. TypeInv'
  <2>1. \A c \in Call : Merge(c) => counter' \in [Adapter -> Nat]
    BY MergeCount
  <2> QED
    BY <2>1, TypeStep
<1>2. ASSUME NEW c \in Call PROVE phase[c] \in InFlight => job[c].adapter = a /\ job[c] \in Job
  BY DEF TypeInv, Job
<1>3. blob' = blob => Stored' = Stored
  BY DEF Stored
<1>4. \A p \in Path, e \in Entry : Empty[p] # e
  BY BlobAssumption DEF Empty
<1> USE DEF TypeInv
<1>5. CASE UNCHANGED vars
  BY <1>3, <1>5, NothingNew DEF vars, Known
<1>6. ASSUME NEW c \in Call, NEW j \in Job, Start(c, j) PROVE PositionsAgree(a)'
  BY <1>3, <1>6, NothingNew DEF Start, Known
<1>7. ASSUME NEW c \in Call, FetchBlob(c) PROVE PositionsAgree(a)'
  <2>1. got' = [got EXCEPT ![c] = blob] /\ UNCHANGED <<blob, entries, counter, plain>>
    BY <1>7 DEF FetchBlob
  <2>2. ASSUME NEW p \in Path, NEW e \in Entry, Known(a, p, e)' PROVE Known(a, p, e)
    BY <1>3, <2>1, <2>2 DEF Known, Stored
  <2> QED
    BY <2>1, <2>2, NothingNew
<1>8. ASSUME NEW c \in Call, Merge(c) PROVE PositionsAgree(a)'
  <2>1. phase[c] = "merge" /\ job[c].adapter = a /\ UNCHANGED <<blob, got, plain>>
    BY <1>2, <1>8 DEF Merge, InFlight
  <2>2. ASSUME NEW p \in Path
        PROVE  entries'[a][p] = entries[a][p] \/ (got[c] # NoBlob /\ entries'[a][p] = got[c][p])
    BY <1>8, <2>1 DEF Merge
  <2>3. ASSUME NEW p \in Path, NEW e \in Entry, Known(a, p, e)' PROVE Known(a, p, e)
    BY <1>3, <2>1, <2>2, <2>3 DEF Known
  <2> QED
    BY <1>8, <2>3, MergeCount, NothingNew
<1>9. ASSUME NEW c \in Call, Read(c) PROVE PositionsAgree(a)'
  <2>1. got' = [got EXCEPT ![c] = NoBlob] /\ plain' = [plain EXCEPT ![c] = Empty]
        /\ UNCHANGED <<blob, entries, counter>>
    BY <1>9 DEF Read, End
  <2>2. ASSUME NEW p \in Path, NEW e \in Entry, Known(a, p, e)' PROVE Known(a, p, e)
    BY <1>3, <1>4, <2>1, <2>2 DEF Known
  <2> QED
    BY <2>1, <2>2, NothingNew
<1>10. ASSUME NEW c \in Call, Write(c) PROVE PositionsAgree(a)'
  <2> DEFINE w == job[c].path
             new == [bytes |-> c, insertedAt |-> counter[a] + 1]
  <2>1. job[c].adapter = a /\ w \in Path /\ counter[a] \in Nat
        /\ entries' = [entries EXCEPT ![a][w] = new]
        /\ counter' = [counter EXCEPT ![a] = @ + 1]
        /\ UNCHANGED <<blob, got, plain>>
    BY <1>2, <1>10 DEF Write, InFlight, Job
  <2>2. new.insertedAt = counter[a] + 1
    OBVIOUS
  <2> HIDE DEF new
  <2>3. counter'[a] = counter[a] + 1
    BY <2>1
  <2>4. ASSUME NEW p \in Path, NEW e \in Entry, Known(a, p, e)'
        PROVE  Known(a, p, e) \/ (p = w /\ e = new)
    BY <1>3, <2>1, <2>4 DEF Known, Folder
  <2>5. ASSUME NEW p \in Path, NEW e \in Entry, Known(a, p, e)
        PROVE  e.insertedAt \in Nat /\ e.insertedAt <= counter[a]
    BY <2>5 DEF PositionsAgree, Entry
  <2> SUFFICES ASSUME NEW p \in Path, NEW q \in Path, NEW e \in Entry, NEW f \in Entry,
                      Known(a, p, e)', Known(a, q, f)'
               PROVE  e.insertedAt <= counter'[a] /\ (e.insertedAt = f.insertedAt => p = q)
    BY DEF PositionsAgree
  <2>6. e.insertedAt <= counter[a] + 1
    BY <2>1, <2>2, <2>4, <2>5
  <2>7. e.insertedAt = f.insertedAt => p = q
    <3>1. CASE Known(a, p, e) /\ Known(a, q, f)
      BY <3>1 DEF PositionsAgree
    <3>2. CASE p = w /\ q = w
      BY <3>2
    <3>3. CASE Known(a, p, e) /\ f = new
      BY <2>1, <2>2, <2>5, <3>3
    <3>4. CASE e = new /\ Known(a, q, f)
      BY <2>1, <2>2, <2>5, <3>4
    <3> QED
      BY <2>4, <3>1, <3>2, <3>3, <3>4
  <2> QED
    BY <2>3, <2>6, <2>7
<1>11. ASSUME NEW c \in Call, Flush(c) PROVE PositionsAgree(a)'
  <2>1. plain' = [plain EXCEPT ![c] = entries[a]] /\ UNCHANGED <<blob, entries, counter, got>>
    BY <1>2, <1>11 DEF Flush, InFlight
  <2>2. ASSUME NEW p \in Path, NEW e \in Entry, Known(a, p, e)' PROVE Known(a, p, e)
    BY <1>3, <2>1, <2>2 DEF Known
  <2> QED
    BY <2>1, <2>2, NothingNew
<1>12. ASSUME NEW c \in Call, StoreBlob(c) PROVE PositionsAgree(a)'
  <2>1. blob' = plain[c] /\ got' = [got EXCEPT ![c] = NoBlob]
        /\ plain' = [plain EXCEPT ![c] = Empty] /\ UNCHANGED <<entries, counter>>
    BY <1>12 DEF StoreBlob, End
  <2>2. Stored' = plain[c]
    BY <2>1, BlobAssumption DEF Stored
  <2>3. ASSUME NEW p \in Path, NEW e \in Entry, Known(a, p, e)' PROVE Known(a, p, e)
    BY <1>4, <2>1, <2>2, <2>3 DEF Known
  <2> QED
    BY <2>1, <2>3, NothingNew
<1>13. ASSUME NEW c \in Call, Fail(c) PROVE PositionsAgree(a)'
  <2>1. got' = [got EXCEPT ![c] = NoBlob] /\ plain' = [plain EXCEPT ![c] = Empty]
        /\ UNCHANGED <<blob, entries, counter>>
    BY <1>13 DEF Fail, End
  <2>2. ASSUME NEW p \in Path, NEW e \in Entry, Known(a, p, e)' PROVE Known(a, p, e)
    BY <1>3, <1>4, <2>1, <2>2 DEF Known
  <2> QED
    BY <2>1, <2>2, NothingNew
<1>14. \A b \in Adapter : ~Reset(b)
  BY DEF Reset
<1> QED
  BY <1>1, <1>5, <1>6, <1>7, <1>8, <1>9, <1>10, <1>11, <1>12, <1>13, <1>14 DEF Next, Step

(* One adapter that is never reset: whatever overlaps and fails, no two      *)
(* paths share a position, so insertedAt orders the log.                     *)
THEOREM LogStaysOrdered ==
  ASSUME NEW a, Adapter = {a}, Resets = "never"
  PROVE  Spec => []LogIsOrdered
<1>1. Init => TypeInv /\ PositionsAgree(a)
  <2> SUFFICES ASSUME Init PROVE TypeInv /\ PositionsAgree(a)
    OBVIOUS
  <2>1. TypeInv
    BY EmptyFolder DEF Init, TypeInv, Phase, InFlight
  <2>2. ASSUME NEW p \in Path, NEW e \in Entry PROVE ~Known(a, p, e)
    BY BlobAssumption DEF Init, Known, Stored, Empty
  <2> QED
    BY <2>1, <2>2 DEF PositionsAgree
<1>2. TypeInv /\ PositionsAgree(a) /\ [Next]_vars => TypeInv' /\ PositionsAgree(a)'
  BY OrderStep
<1>3. TypeInv /\ PositionsAgree(a) => LogIsOrdered
  <2> SUFFICES ASSUME TypeInv, PositionsAgree(a) PROVE LogIsOrdered
    OBVIOUS
  <2>1. Stored \in Folder /\ entries[a] \in Folder
    BY EmptyFolder DEF TypeInv, Stored
  <2>2. ASSUME NEW p \in Path, Stored[p] # NoEntry PROVE Stored[p] \in Entry /\ Known(a, p, Stored[p])
    BY <2>1, <2>2 DEF Known, Folder
  <2>3. ASSUME NEW p \in Path, entries[a][p] # NoEntry
        PROVE  entries[a][p] \in Entry /\ Known(a, p, entries[a][p])
    BY <2>1, <2>3 DEF Known, Folder
  <2>4. OnePerPosition(Stored)
    BY <2>2 DEF OnePerPosition, PositionsAgree
  <2>5. OnePerPosition(entries[a])
    BY <2>3 DEF OnePerPosition, PositionsAgree
  <2> QED
    BY <2>4, <2>5 DEF LogIsOrdered
<1> QED
  BY <1>1, <1>2, <1>3, PTL DEF Spec
=============================================================================
