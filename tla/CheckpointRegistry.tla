------------------------- MODULE CheckpointRegistry -------------------------
(***************************************************************************)
(* The checkpoint registry: projects ask a bot to witness the hash of      *)
(* their current mandate; the bot appends a row to the project's CSV file  *)
(* if the rules of protocol/src/checkpointBot.ts hold.  A run of the bot   *)
(* (server-adapters/checkpoints-bot) takes its clock first, then clones    *)
(* the project at the commit the submitter names, then reads the rows,     *)
(* then decides and appends; runs for different submissions may overlap.   *)
(* Maintainers of the registry may prune rows.                             *)
(***************************************************************************)
EXTENDS Verifier, Integers

CONSTANTS
  Run,          \* runs of the bot
  MaxRunning,   \* how many of them overlap
  ProjectPin,   \* CHECKPOINT_PROJECT_PIN
  Submissions,  \* what is submitted
  Nothing,      \* the submission of a run that has none
  RateCap,      \* maxPerWindow
  Window,       \* windowDays
  Prunable,     \* TRUE: rows may be pruned
  MaxTime       \* bound on the clock

(* A submission names a track, the hash to witness, what its signed request  *)
(* binds and who signed it, and a source commit, that is, the mandates of    *)
(* the track there; claimed is the date the submitter would like.            *)
Submission ==
  [track : Track, hash : Mandate, bound : BOOLEAN, signers : SUBSET Key,
   defect : {"none", "payload", "hash", "envelope", "bytes", "signature"},
   source : Seq(Mandate), claimed : Nat]

Row == [observed : Nat, track : Track, hash : Mandate, flagged : BOOLEAN]

(* What is cloned has dates that parse: the sort by date is then an order.   *)
ASSUME RegistryAssumption ==
  /\ IsFiniteSet(Run) /\ MaxRunning \in Nat /\ RateCap \in Nat /\ Window \in Nat /\ MaxTime \in Nat
  /\ Prunable \in BOOLEAN
  /\ Submissions \subseteq Submission /\ Nothing \notin Submissions
  /\ \A s \in Submissions : \A k \in DOMAIN s.source : s.source[k].defect # "dates"

VARIABLES
  rows,     \* the project's CSV file
  phase,    \* where each run is
  sub,      \* its submission
  clock,    \* the time it started
  fetched,  \* what cloning the project showed
  read,     \* the rows it read
  verdict,  \* what it decided
  now       \* the time

vars == <<rows, phase, sub, clock, fetched, read, verdict, now>>

Fetched == {"none", "ok", "repo-unreachable", "maintainers-path-missing", "path-mismatch"}
Reason ==
  {"payload-malformed", "repo-unreachable", "maintainers-path-missing", "path-mismatch",
   "hash-format-invalid", "request-repo-mismatch", "chain-invalid", "hash-not-in-history",
   "authority-invalid", "no-op", "continuity-broken", "not-append-only"}

TypeOK ==
  /\ rows \in Seq(Row)
  /\ phase \in [Run -> {"idle", "fetch", "rows", "decide", "append", "done"}]
  /\ sub \in [Run -> Submissions \cup {Nothing}]
  /\ clock \in [Run -> Nat]
  /\ fetched \in [Run -> Fetched]
  /\ read \in [Run -> Seq(Row)]
  /\ verdict \in [Run -> Reason \cup {"none", "ok"}]
  /\ now \in Nat

-----------------------------------------------------------------------------
(* THE RULES *)

SourceChain(s) == VerifyMandateChainFromPin(ProjectPin, SortedByIssue(s.source))
ValidHashes(s) == {PinHash(m) : m \in ToSet(SourceChain(s).accepted)}

(* verifyCheckpointRequest: the holder at the bot's clock is among the signers. *)
RequestRules(s, t) ==
  << Rule("authority-invalid", s.defect # "envelope"),
     Rule("authority-invalid", s.signers # {} /\ s.defect \notin {"bytes", "signature"}),
     Rule("authority-invalid", HasAuthority(SourceChain(s), t)),
     Rule("authority-invalid",
          HasAuthority(SourceChain(s), t) =>
            CurrentAuthority(SourceChain(s), t).holder \in s.signers) >>

(* The rules that do not look at earlier rows, in their order. *)
SubmissionRules(s, f, t) ==
  << Rule("payload-malformed", s.defect # "payload"),
     Rule(f, f = "ok"),
     Rule("hash-format-invalid", s.defect # "hash"),
     Rule("request-repo-mismatch", s.bound),
     Rule("chain-invalid", SourceChain(s).accepted # <<>>),
     Rule("hash-not-in-history", s.hash \in ValidHashes(s)) >>
  \o RequestRules(s, t)

(* The rows of a track, and the latest hash among them. *)
RowsOf(rs, track) == {k \in DOMAIN rs : rs[k].track = track}

(* Defect: the first row of the track is taken for the latest. *)
LatestHash_First(rs, track) ==
  rs[CHOOSE k \in RowsOf(rs, track) : \A j \in RowsOf(rs, track) : k <= j].hash

LatestHash(rs, track) ==
  rs[CHOOSE k \in RowsOf(rs, track) : \A j \in RowsOf(rs, track) : j <= k].hash

(* Defect: a row of this very second counts as one from the future. *)
FromTheFuture_Now(row, t) == row.observed >= t

FromTheFuture(row, t) == row.observed > t

(* The rules that compare with what was witnessed; none for the first row.   *)
WitnessRules(s, rs, t) ==
  IF RowsOf(rs, s.track) = {} THEN <<>>
  ELSE << Rule("no-op", s.hash # LatestHash(rs, s.track)),
          Rule("continuity-broken", LatestHash(rs, s.track) \in ValidHashes(s)),
          Rule("not-append-only", \A k \in RowsOf(rs, s.track) : ~FromTheFuture(rs[k], t)) >>

CheckpointRules(s, f, rs, t) == SubmissionRules(s, f, t) \o WitnessRules(s, rs, t)

InWindow(row, t) == t - Window < row.observed /\ row.observed <= t

(* Defect: the submission itself is not counted. *)
OverCap_ExistingOnly(rs, track, t) ==
  Cardinality({k \in RowsOf(rs, track) : InWindow(rs[k], t)}) > RateCap

OverCap(rs, track, t) ==
  Cardinality({k \in RowsOf(rs, track) : InWindow(rs[k], t)}) + 1 > RateCap

(* Defect: the date is the submitter's. *)
AcceptRow_Claimed(s, rs, t) ==
  [observed |-> s.claimed, track |-> s.track, hash |-> s.hash,
   flagged |-> OverCap(rs, s.track, t)]

(* acceptRow: over the cap the row is flagged, never refused. *)
AcceptRow(s, rs, t) ==
  [observed |-> t, track |-> s.track, hash |-> s.hash, flagged |-> OverCap(rs, s.track, t)]

-----------------------------------------------------------------------------
(* A RUN OF THE BOT *)

Init ==
  /\ rows = <<>>
  /\ phase = [r \in Run |-> "idle"]
  /\ sub = [r \in Run |-> Nothing]
  /\ clock = [r \in Run |-> 0]
  /\ fetched = [r \in Run |-> "none"]
  /\ read = [r \in Run |-> <<>>]
  /\ verdict = [r \in Run |-> "none"]
  /\ now = 0

(* The run ends; its variables are gone. *)
End(r) ==
  /\ phase' = [phase EXCEPT ![r] = "done"]
  /\ sub' = [sub EXCEPT ![r] = Nothing]
  /\ clock' = [clock EXCEPT ![r] = 0]
  /\ fetched' = [fetched EXCEPT ![r] = "none"]
  /\ read' = [read EXCEPT ![r] = <<>>]

Running == {r \in Run : phase[r] \notin {"idle", "done"}}

Start(r, s) ==
  /\ phase[r] = "idle" /\ Cardinality(Running) < MaxRunning
  /\ phase' = [phase EXCEPT ![r] = "fetch"]
  /\ sub' = [sub EXCEPT ![r] = s]
  /\ clock' = [clock EXCEPT ![r] = now]
  /\ UNCHANGED <<rows, fetched, read, verdict, now>>

FetchProjectChain(r, f) ==
  /\ phase[r] = "fetch"
  /\ fetched' = [fetched EXCEPT ![r] = f]
  /\ phase' = [phase EXCEPT ![r] = "rows"]
  /\ UNCHANGED <<rows, sub, clock, read, verdict, now>>

ReadExistingRows(r) ==
  /\ phase[r] = "rows"
  /\ read' = [read EXCEPT ![r] = rows]
  /\ phase' = [phase EXCEPT ![r] = "decide"]
  /\ UNCHANGED <<rows, sub, clock, fetched, verdict, now>>

Validate(r) ==
  LET rules == CheckpointRules(sub[r], fetched[r], read[r], clock[r]) IN
  /\ phase[r] = "decide"
  /\ verdict' = [verdict EXCEPT ![r] = Verdict(rules)]
  /\ IF Passes(rules)
     THEN phase' = [phase EXCEPT ![r] = "append"] /\ UNCHANGED <<sub, clock, fetched, read>>
     ELSE End(r)
  /\ UNCHANGED <<rows, now>>

AppendCsvLine(r) ==
  /\ phase[r] = "append"
  /\ rows' = Append(rows, AcceptRow(sub[r], read[r], clock[r]))
  /\ End(r)
  /\ UNCHANGED <<verdict, now>>

(* The registry prunes a row, while no run is under way. *)
Prune(k) ==
  /\ Prunable /\ Running = {}
  /\ rows' = RemoveAt(rows, k)
  /\ UNCHANGED <<phase, sub, clock, fetched, read, verdict, now>>

Tick ==
  /\ now < MaxTime
  /\ now' = now + 1
  /\ UNCHANGED <<rows, phase, sub, clock, fetched, read, verdict>>

Step(r) ==
  \/ \E s \in Submissions : Start(r, s)
  \/ \E f \in Fetched \ {"none"} : FetchProjectChain(r, f)
  \/ ReadExistingRows(r) \/ Validate(r) \/ AppendCsvLine(r)

Next ==
  \/ Tick
  \/ \E k \in DOMAIN rows : Prune(k)
  \/ \E r \in Run : Step(r)

Spec == Init /\ [][Next]_vars

-----------------------------------------------------------------------------
(* PROPERTIES *)

Appended == Len(rows') > Len(rows)

(* "The registry records only changes" (checkpointBot.ts, rule 10): a row    *)
(* never repeats the latest hash witnessed for its track.                    *)
RecordsOnlyChanges ==
  [][Appended =>
       \A k \in RowsOf(rows, Last(rows').track) :
         \/ \E j \in RowsOf(rows, Last(rows').track) : k < j
         \/ rows[k].hash # Last(rows').hash]_rows

(* The rows of a track are in the order of the dates the bot gave them,      *)
(* pruned or not (rules 7 and 8).                                            *)
DatesInOrder ==
  \A j, k \in DOMAIN rows :
    j < k /\ rows[j].track = rows[k].track => rows[j].observed <= rows[k].observed

(* When a row is appended it is flagged exactly if it is more than the cap   *)
(* allows among the rows of its track in the window that ends with it        *)
(* (rule 11), over the file as it then is.                                   *)
FlaggedOverCap ==
  [][Appended =>
       LET new == Last(rows')
           window == {k \in DOMAIN rows' : /\ rows'[k].track = new.track
                                           /\ new.observed - Window < rows'[k].observed}
       IN  new.flagged <=> Cardinality(window) > RateCap]_rows

(* A row dated later than the bot's clock "means the existing file was       *)
(* tampered" (checkpointBot.ts 396-401): where nobody tampers, no submission *)
(* is refused for it.                                                        *)
NoFalseTamperAlarm == \A r \in Run : verdict[r] # "not-append-only"
=============================================================================
