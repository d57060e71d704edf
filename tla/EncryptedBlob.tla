--------------------------- MODULE EncryptedBlob ---------------------------
(***************************************************************************)
(* The encrypted-blob adapter of protocol/src/encryptedBlobAdapter.ts: a   *)
(* folder kept as one encrypted blob on a server.  An adapter loads the    *)
(* blob into memory on first use and stores all of it on every write.      *)
(* Each call is split at its awaits: the blob is fetched, then merged into *)
(* memory; a write changes memory, then snapshots it, then stores it.      *)
(* Encryption is the identity on entries; a key or a blob that does not    *)
(* decrypt is one of the failures of a call.                               *)
(***************************************************************************)
EXTENDS Naturals, FiniteSets, FiniteSetsExt

CONSTANTS
  Adapter,      \* adapters that share the blob
  Call,         \* calls of read and write; a write's bytes are named by it
  Path,
  NoEntry,      \* the entry of a path that was never written
  NoBlob,       \* what the server has for a fresh user
  NoJob,        \* the job of a call that is not under way
  MaxInFlight,  \* calls of one adapter that overlap
  Failures,     \* TRUE: deriveKey, fetchBlob, decryption and storeBlob may fail
  Resets        \* when reset() is called: "never", "between calls", "any time"

VARIABLES
  blob,     \* the blob the server has
  loaded,   \* per adapter
  entries,  \* per adapter
  counter,  \* per adapter
  job,      \* what each call does
  phase,    \* where it is
  got,      \* the blob it fetched
  plain,    \* the entries it is about to store
  orderly   \* history: no call failed, overlapped another or was reset under way

vars == <<blob, loaded, entries, counter, job, phase, got, plain, orderly>>

Entry == [bytes : Call, insertedAt : Nat \ {0}]
Folder == [Path -> Entry \cup {NoEntry}]
Job == [adapter : Adapter, kind : {"read", "write"}, path : Path]
InFlight == {"fetch", "merge", "ready", "flush", "store"}
Phase == {"idle", "done"} \cup InFlight

ASSUME BlobAssumption ==
  /\ NoEntry \notin Entry /\ NoBlob \notin Folder /\ NoJob \notin Job
  /\ IsFiniteSet(Call) /\ MaxInFlight \in Nat /\ Failures \in BOOLEAN
  /\ Resets \in {"never", "between calls", "any time"}

Empty == [p \in Path |-> NoEntry]
Busy(a) == {c \in Call : phase[c] \in InFlight /\ job[c].adapter = a}

TypeOK ==
  /\ blob \in Folder \cup {NoBlob}
  /\ loaded \in [Adapter -> BOOLEAN]
  /\ entries \in [Adapter -> Folder]
  /\ counter \in [Adapter -> Nat]
  /\ phase \in [Call -> Phase]
  /\ job \in [Call -> Job \cup {NoJob}]
  /\ got \in [Call -> Folder \cup {NoBlob}]
  /\ plain \in [Call -> Folder]
  /\ orderly \in BOOLEAN

-----------------------------------------------------------------------------
Init ==
  /\ blob = NoBlob
  /\ loaded = [a \in Adapter |-> FALSE]
  /\ entries = [a \in Adapter |-> Empty]
  /\ counter = [a \in Adapter |-> 0]
  /\ job = [c \in Call |-> NoJob]
  /\ phase = [c \in Call |-> "idle"]
  /\ got = [c \in Call |-> NoBlob]
  /\ plain = [c \in Call |-> Empty]
  /\ orderly = TRUE

GoTo(c, ph) == phase' = [phase EXCEPT ![c] = ph]

(* The call returns or throws; its locals are gone. *)
End(c) ==
  /\ GoTo(c, "done")
  /\ job' = [job EXCEPT ![c] = NoJob]
  /\ got' = [got EXCEPT ![c] = NoBlob]
  /\ plain' = [plain EXCEPT ![c] = Empty]

(* read, list, log and write all start with ensureLoaded. *)
Start(c, j) ==
  /\ phase[c] = "idle" /\ Cardinality(Busy(j.adapter)) < MaxInFlight
  /\ job' = [job EXCEPT ![c] = j]
  /\ GoTo(c, IF loaded[j.adapter] THEN "ready" ELSE "fetch")
  /\ orderly' = (orderly /\ \A d \in Call : phase[d] \notin InFlight)
  /\ UNCHANGED <<blob, loaded, entries, counter, got, plain>>

FetchBlob(c) ==
  /\ phase[c] = "fetch"
  /\ got' = [got EXCEPT ![c] = blob]
  /\ GoTo(c, "merge")
  /\ UNCHANGED <<blob, loaded, entries, counter, job, plain, orderly>>

Positions(es) == {es[p].insertedAt : p \in {q \in Path : es[q] # NoEntry}}

(* Defect: loading does not resume the count. *)
Merge_CountsAfresh(c) ==
  LET a == job[c].adapter
      Merged == [p \in Path |-> IF got[c][p] # NoEntry THEN got[c][p] ELSE entries[a][p]]
  IN  /\ phase[c] = "merge"
      /\ loaded' = [loaded EXCEPT ![a] = TRUE]
      /\ IF got[c] = NoBlob THEN UNCHANGED entries
         ELSE entries' = [entries EXCEPT ![a] = Merged]
      /\ GoTo(c, "ready")
      /\ UNCHANGED <<blob, counter, job, got, plain, orderly>>

(* The blob's entries replace those in memory, and the count resumes after   *)
(* the last position of either.                                              *)
Merge(c) ==
  LET a == job[c].adapter
      Merged == [p \in Path |-> IF got[c][p] # NoEntry THEN got[c][p] ELSE entries[a][p]]
  IN  /\ phase[c] = "merge"
      /\ loaded' = [loaded EXCEPT ![a] = TRUE]
      /\ IF got[c] = NoBlob THEN UNCHANGED <<entries, counter>>
         ELSE /\ entries' = [entries EXCEPT ![a] = Merged]
              /\ counter' = [counter EXCEPT ![a] = Max({@} \cup Positions(got[c]))]
      /\ GoTo(c, "ready")
      /\ UNCHANGED <<blob, job, got, plain, orderly>>

Read(c) ==
  /\ phase[c] = "ready" /\ job[c].kind = "read"
  /\ End(c)
  /\ UNCHANGED <<blob, loaded, entries, counter, orderly>>

(* Defect: the position is the number of entries. *)
Write_Numbered(c) ==
  LET a == job[c].adapter IN
  /\ phase[c] = "ready" /\ job[c].kind = "write"
  /\ counter' = [counter EXCEPT ![a] = Cardinality({p \in Path : entries[a][p] # NoEntry}) + 1]
  /\ entries' = [entries EXCEPT ![a][job[c].path] = [bytes |-> c, insertedAt |-> counter'[a]]]
  /\ GoTo(c, "flush")
  /\ UNCHANGED <<blob, loaded, job, got, plain, orderly>>

(* The entry takes the next position, in memory first. *)
Write(c) ==
  LET a == job[c].adapter IN
  /\ phase[c] = "ready" /\ job[c].kind = "write"
  /\ counter' = [counter EXCEPT ![a] = @ + 1]
  /\ entries' = [entries EXCEPT ![a][job[c].path] = [bytes |-> c, insertedAt |-> counter[a] + 1]]
  /\ GoTo(c, "flush")
  /\ UNCHANGED <<blob, loaded, job, got, plain, orderly>>

(* flush: when the key is there, all of memory is what will be stored. *)
Flush(c) ==
  /\ phase[c] = "flush"
  /\ plain' = [plain EXCEPT ![c] = entries[job[c].adapter]]
  /\ GoTo(c, "store")
  /\ UNCHANGED <<blob, loaded, entries, counter, job, got, orderly>>

(* storeBlob overwrites.  (Whether its answer arrives makes no difference.)  *)
StoreBlob(c) ==
  /\ phase[c] = "store"
  /\ blob' = plain[c]
  /\ End(c)
  /\ UNCHANGED <<loaded, entries, counter, orderly>>

(* Something the call awaits is rejected; what it did to memory stays. *)
Fail(c) ==
  /\ Failures /\ phase[c] \in {"fetch", "merge", "flush", "store"}
  /\ End(c)
  /\ orderly' = FALSE
  /\ UNCHANGED <<blob, loaded, entries, counter>>

(* Defect: the entries are dropped but count as loaded. *)
Reset_StillLoaded(a) ==
  /\ Resets # "never" /\ (Resets = "any time" \/ Busy(a) = {})
  /\ entries' = [entries EXCEPT ![a] = Empty]
  /\ counter' = [counter EXCEPT ![a] = 0]
  /\ orderly' = (orderly /\ Busy(a) = {})
  /\ UNCHANGED <<blob, loaded, job, phase, got, plain>>

Reset(a) ==
  /\ Resets # "never" /\ (Resets = "any time" \/ Busy(a) = {})
  /\ loaded' = [loaded EXCEPT ![a] = FALSE]
  /\ entries' = [entries EXCEPT ![a] = Empty]
  /\ counter' = [counter EXCEPT ![a] = 0]
  /\ orderly' = (orderly /\ Busy(a) = {})
  /\ UNCHANGED <<blob, job, phase, got, plain>>

Step(c) ==
  \/ \E j \in Job : Start(c, j)
  \/ FetchBlob(c) \/ Merge(c) \/ Read(c) \/ Write(c) \/ Flush(c) \/ StoreBlob(c) \/ Fail(c)

Next ==
  \/ \E c \in Call : Step(c)
  \/ \E a \in Adapter : Reset(a)

Spec == Init /\ [][Next]_vars

-----------------------------------------------------------------------------
(* PROPERTIES *)

(* The folder that is stored. *)
Stored == IF blob = NoBlob THEN Empty ELSE blob
LastPosition == Max({0} \cup Positions(Stored))

(* The adapter exposes "the same StorageAdapter surface": as long as its     *)
(* calls are orderly, the stored folder behaves as the in-memory adapter.    *)
Folders == INSTANCE Storage WITH
  Bytes <- Call, entries <- Stored, counter <- LastPosition
ImplementsStorage ==
  Folders!Init /\ [][orderly' => Folders!Next]_<<Stored, LastPosition>>

(* Memory is a cache: when no call is under way, and all were orderly, an    *)
(* adapter that has loaded serves what is stored, no more and no less.       *)
CacheIsCurrent ==
  orderly => \A a \in Adapter : loaded[a] /\ Busy(a) = {} => entries[a] = Stored

(* insertedAt orders the log: no two paths of a folder share a position, in  *)
(* memory or in the blob, whatever overlaps and fails.                       *)
OnePerPosition(es) ==
  \A p, q \in Path :
    es[p] # NoEntry /\ es[q] # NoEntry /\ p # q => es[p].insertedAt # es[q].insertedAt
LogIsOrdered ==
  OnePerPosition(Stored) /\ \A a \in Adapter : OnePerPosition(entries[a])
=============================================================================
