----------------------------- MODULE CommitGate -----------------------------
(***************************************************************************)
(* The Model A worker (server-adapters/cloudflare-worker): it holds the    *)
(* token that can push to the repository and commits an envelope only if   *)
(* policy.ts accepts it against the .maintainers/ files.  A request reads  *)
(* those files one call at a time, decides, looks up the sha of the one    *)
(* path it writes and puts it; requests interleave at every call, and      *)
(* GitHub compares nothing but that sha.  GET /verify only reports.        *)
(*                                                                         *)
(* The repository is external: a PUT is refused when the path holds other  *)
(* content than the sha names, and any call may fail, also after its PUT   *)
(* took effect.  The rate limit is the bound RATE_LIMITER, which may say   *)
(* no to anybody.                                                          *)
(***************************************************************************)
EXTENDS Verifier, Integers

CONSTANTS
  Request,        \* the requests of a behaviour
  MaxInFlight,    \* how many of them the worker handles at the same time
  Path,           \* [dir, name]: files of the repository, names are ordered
  Outside,        \* a directory that is not under .maintainers/
  KeysDir,        \* .maintainers/keys
  ReleaseTrack,   \* the track called "release"
  NoFile,         \* where there is no file; also "no sha"
  InitialFiles,   \* the repository to begin with
  Jobs,           \* what clients submit
  Careful,        \* TRUE: clients take a new path in the right directory
  Skew,           \* SKEW_MS
  MaxTime         \* bound on the clock

(* The other envelopes a worker knows, reduced to what decides them. *)
Endorsement ==
  [kind : {"ReleaseEndorsement", "CaEndorsement"}, track : Track,
   signedBy : Key, signers : SUBSET Key, issued : Nat,
   notBefore : Nat, notAfter : Nat, defect : Defect]
Identity ==
  [kind : {"KeyFile", "KeyRedirect", "EmailRotation", "KeyIntroductionRequest"},
   pubkey : Key, defect : Defect]
Wrapped == [kind : {"Mandate"}, mandate : Mandate]
Envelope == Endorsement \cup Identity \cup Wrapped

(* What a request carries; bytes: its envelopeBytes are the canonical ones. *)
Job == [path : Path, envelope : Envelope, bytes : BOOLEAN]

ASSUME GateAssumption ==
  /\ MaxInFlight \in Nat \ {0} /\ Skew \in Nat /\ MaxTime \in Nat
  /\ Careful \in BOOLEAN
  /\ Jobs \subseteq Job
  /\ InitialFiles \in [Path -> Envelope \cup {NoFile}]
  /\ IsFiniteSet({p \in Path : InitialFiles[p] # NoFile})
  /\ NoFile \notin Envelope
  /\ \A p \in Path : p.name \in Nat
  /\ \A p, q \in Path : p.name = q.name => p = q
  /\ \A p, q \in Path : p.dir # KeysDir /\ q.dir = KeysDir => p.name < q.name

(* Every mandate has a date that parses: next to one that has none, the sort *)
(* by date is not an order (ReleaseLog models what may come of it).          *)
ASSUME DatedAssumption ==
  \A e \in {InitialFiles[p] : p \in Path} \cup {j.envelope : j \in Jobs} :
    e \in Wrapped => e.mandate.defect # "dates"

VARIABLES
  files,    \* the repository
  phase,    \* where each request is
  job,      \* what it carries
  todo,     \* the files it has listed and not yet read
  got,      \* the files it has read
  sha,      \* the content whose sha it looked up
  answer,   \* what its client was told
  now,      \* the clock
  overtaken \* history: requests for which another one's file landed too late

vars == <<files, phase, job, todo, got, sha, answer, now, overtaken>>

Phase == {"idle", "list", "read", "decide", "sha", "put", "done"}

TypeOK ==
  /\ files \in [Path -> Envelope \cup {NoFile}]
  /\ phase \in [Request -> Phase]
  /\ \A r \in Request :
       /\ phase[r] # "idle" => job[r] \in Jobs
       /\ todo[r] \in Seq(Path)
       /\ got[r] \in Seq([path : Path, envelope : Envelope])
       /\ sha[r] \in Envelope \cup {NoFile}
       /\ answer[r] \in {"none", "ok", "refused", "failed"}
  /\ now \in Nat
  /\ overtaken \subseteq Request

-----------------------------------------------------------------------------
(* READING THE REPOSITORY *)

(* The order in which files are listed: by name, the keys after the tracks. *)
Listing(fs) ==
  LET there == {p \in Path : fs[p] # NoFile /\ p.dir # Outside}
      place == [p \in there |-> Cardinality({q \in there : q.name <= p.name})]
  IN  [k \in 1 .. Cardinality(there) |-> CHOOSE p \in there : place[p] = k]

(* state.tracks: the mandates of a directory, sorted by date; those of one   *)
(* date stay in the order they were read in.                                 *)
TrackLog(reads, t) ==
  LET in == {k \in DOMAIN reads :
               reads[k].path.dir = t /\ reads[k].envelope.kind = "Mandate"}
      of(k) == reads[k].envelope.mandate
      Before(i, j) == \/ of(i).issued < of(j).issued
                      \/ of(i).issued = of(j).issued /\ i < j
      place == [k \in in |-> Cardinality({j \in in : Before(j, k)}) + 1]
  IN  [p \in 1 .. Cardinality(in) |-> of(CHOOSE k \in in : place[k] = p)]

(* state.keyFiles: by pubkey. *)
KnownKeys(reads) ==
  {x.envelope.pubkey : x \in {y \in ToSet(reads) :
     y.path.dir = KeysDir /\ y.envelope.kind = "KeyFile"}}

(* The repository as it is, read at once. *)
Snapshot(fs) ==
  LET ps == Listing(fs) IN [k \in DOMAIN ps |-> [path |-> ps[k], envelope |-> fs[ps[k]]]]

(* What a track's log is worth: it is anchored at its own first mandate. *)
OnRepoChain(log) ==
  IF log = <<>> THEN EmptyChain(NoPin)
  ELSE VerifyMandateChainFromPin(PinHash(log[1]), log)

-----------------------------------------------------------------------------
(* POLICY *)

(* Defect: a root is accepted whatever the track already holds. *)
MandateRules_RootsAnywhere(m, log) ==
  << Rule("mandate-rejected", m.id \in AcceptedIds(OnRepoChain(<<m>>))) >>

(* checkMandateAuthority: a root for an empty track; otherwise, appended to  *)
(* the log, the candidate's ID must be among the accepted ones.              *)
MandateRules(m, log) ==
  << Rule("mandate-rejected",
          m.id \in AcceptedIds(IF log = <<>> THEN OnRepoChain(<<m>>)
                               ELSE OnRepoChain(Append(log, m)))) >>

HeldBy(log, t, k) ==
  /\ HasAuthority(OnRepoChain(log), t)
  /\ CurrentAuthority(OnRepoChain(log), t).holder = k

(* checkEndorsementAuthority: who held the release track at issuedAt. *)
ReleaseRules(e, log) ==
  << Rule("release-track-not-declared", log # <<>>),
     Rule("endorsement-signer-not-holder",
          e.defect # "dates" /\ HeldBy(log, e.issued, e.signedBy)) >>

(* checkCaEndorsementAuthority: who holds the track now, within the window. *)
CaRules(e, log, t) ==
  << Rule("ca-endorsement-window-malformed", e.defect # "dates" /\ e.notBefore < e.notAfter),
     Rule("ca-endorsement-lease-not-yet", e.notBefore - Skew <= t),
     Rule("ca-endorsement-lease-expired", t < e.notAfter + Skew),
     Rule("ca-track-not-declared", log # <<>>),
     Rule("ca-endorsement-signer-not-holder", HeldBy(log, t, e.signedBy)) >>

(* checkKeyEnvelopeAuthority *)
IdentityRules(e, keys) ==
  << Rule("unknown-pubkey", e.kind \in {"KeyRedirect", "EmailRotation"} => e.pubkey \in keys) >>

AuthorityRules(e, reads, t) ==
  CASE e.kind = "Mandate" -> MandateRules(e.mandate, TrackLog(reads, e.mandate.track))
    [] e.kind = "ReleaseEndorsement" -> ReleaseRules(e, TrackLog(reads, ReleaseTrack))
    [] e.kind = "CaEndorsement" -> CaRules(e, TrackLog(reads, e.track), t)
    [] OTHER -> IdentityRules(e, KnownKeys(reads))

(* checkSignatures: signatures are required of mandates and endorsements;    *)
(* an identity envelope is signed by its own pubkey.                         *)
SigningRules(e) ==
  LET b == IF e.kind = "Mandate" THEN e.mandate ELSE e
      many == e.kind \in {"Mandate", "ReleaseEndorsement", "CaEndorsement"}
  IN  << Rule("no-signatures", many => b.signers # {}),
         Rule("signedBy-not-in-signatures", many => b.signedBy \in b.signers),
         Rule("signature-invalid", b.defect # "signature") >>

DefectOf(e) == IF e.kind = "Mandate" THEN e.mandate.defect ELSE e.defect

(* decide, in its order. *)
PolicyRules(j, reads, t) ==
  << Rule("path-outside-maintainers", j.path.dir # Outside),
     Rule("envelope-shape", DefectOf(j.envelope) # "shape"),
     Rule("canonical-bytes-error", DefectOf(j.envelope) # "bytes"),
     Rule("canonical-bytes-mismatch", j.bytes) >>
  \o SigningRules(j.envelope) \o AuthorityRules(j.envelope, reads, t)

Decide(j, reads, t) == Passes(PolicyRules(j, reads, t))

-----------------------------------------------------------------------------
(* THE WORKER *)

Init ==
  /\ files = InitialFiles
  /\ phase = [r \in Request |-> "idle"]
  /\ job = [r \in Request |-> NoFile]
  /\ todo = [r \in Request |-> <<>>]
  /\ got = [r \in Request |-> <<>>]
  /\ sha = [r \in Request |-> NoFile]
  /\ answer = [r \in Request |-> "none"]
  /\ now = 0
  /\ overtaken = {}

InFlight == {r \in Request : phase[r] \notin {"idle", "done"}}

Finish(r, a) ==
  /\ phase' = [phase EXCEPT ![r] = "done"]
  /\ answer' = [answer EXCEPT ![r] = a]

(* How the project's own clients choose: a mandate goes into the directory   *)
(* of its track, no id and no path is used twice except to retry.            *)
IdOf(e) == IF e.kind = "Mandate" THEN e.mandate.id ELSE NoFile
ChosenWithCare(j) ==
  /\ j.envelope.kind = "Mandate" => j.path.dir = j.envelope.mandate.track
  /\ \A p \in Path : files[p] # NoFile /\ files[p] # j.envelope =>
       p # j.path /\ (j.envelope.kind = "Mandate" => IdOf(files[p]) # IdOf(j.envelope))

(* A request arrives; a bad path and a caller over the limit go no further.  *)
Arrive(r, j) ==
  /\ phase[r] = "idle"
  /\ Cardinality(InFlight) < MaxInFlight
  /\ Careful => ChosenWithCare(j)
  /\ job' = [job EXCEPT ![r] = j]
  /\ \/ Finish(r, "refused")
     \/ /\ j.path.dir # Outside
        /\ phase' = [phase EXCEPT ![r] = "list"]
        /\ UNCHANGED answer
  /\ UNCHANGED <<files, todo, got, sha, now, overtaken>>

(* List the directories, ... *)
ListFiles(r) ==
  /\ phase[r] = "list"
  /\ todo' = [todo EXCEPT ![r] = Listing(files)]
  /\ phase' = [phase EXCEPT ![r] = "read"]
  /\ UNCHANGED <<files, job, got, sha, answer, now, overtaken>>

(* ... read the files one by one ... *)
ReadFile(r) ==
  /\ phase[r] = "read" /\ todo[r] # <<>>
  /\ todo' = [todo EXCEPT ![r] = Tail(@)]
  /\ got' = [got EXCEPT ![r] =
               Append(@, [path |-> Head(todo[r]), envelope |-> files[Head(todo[r])]])]
  /\ UNCHANGED <<files, phase, job, sha, answer, now, overtaken>>

(* Defect: the decision is made without the files that were read. *)
DecideNow_OnNothing(r) ==
  /\ phase[r] = "read" /\ todo[r] = <<>>
  /\ IF Decide(job[r], <<>>, now)
     THEN phase' = [phase EXCEPT ![r] = "sha"] /\ UNCHANGED answer
     ELSE Finish(r, "refused")
  /\ got' = [got EXCEPT ![r] = <<>>]
  /\ UNCHANGED <<files, job, todo, sha, now, overtaken>>

(* ... and decide on what was read, at the clock of this moment. *)
DecideNow(r) ==
  /\ phase[r] = "read" /\ todo[r] = <<>>
  /\ IF Decide(job[r], got[r], now)
     THEN phase' = [phase EXCEPT ![r] = "sha"] /\ UNCHANGED answer
     ELSE Finish(r, "refused")
  /\ got' = [got EXCEPT ![r] = <<>>]
  /\ UNCHANGED <<files, job, todo, sha, now, overtaken>>

FetchFileSha(r) ==
  /\ phase[r] = "sha"
  /\ sha' = [sha EXCEPT ![r] = files[job[r].path]]
  /\ phase' = [phase EXCEPT ![r] = "put"]
  /\ UNCHANGED <<files, job, todo, got, answer, now, overtaken>>

(* A file lands.  Another request that has listed already will not read it,  *)
(* one that chose its path for a new file is too late: they are overtaken.   *)
Land(r) ==
  /\ files' = [files EXCEPT ![job[r].path] = job[r].envelope]
  /\ overtaken' = overtaken \cup
       {q \in InFlight \ {r} : phase[q] # "list" \/ job[q].path = job[r].path}

(* Defect: the sha is looked up again when the PUT is refused. *)
PutFile_Again(r) ==
  /\ phase[r] = "put"
  /\ Land(r)
  /\ Finish(r, "ok")
  /\ UNCHANGED <<job, todo, got, sha, now>>

(* GitHub writes only over the content the sha names; whether or not it did, *)
(* the worker may see the call fail.                                         *)
PutFile(r) ==
  /\ phase[r] = "put"
  /\ \/ /\ files[job[r].path] = sha[r]
        /\ Land(r)
        /\ \E a \in {"ok", "failed"} : Finish(r, a)
     \/ /\ Finish(r, "failed")
        /\ UNCHANGED <<files, overtaken>>
  /\ UNCHANGED <<job, todo, got, sha, now>>

(* Any of the reading calls fails: nothing is written. *)
CallFails(r) ==
  /\ phase[r] \in {"list", "read", "sha"}
  /\ phase[r] = "read" => todo[r] # <<>>
  /\ Finish(r, "failed")
  /\ todo' = [todo EXCEPT ![r] = <<>>]
  /\ got' = [got EXCEPT ![r] = <<>>]
  /\ UNCHANGED <<files, job, sha, now, overtaken>>

Tick ==
  /\ now < MaxTime
  /\ now' = now + 1
  /\ UNCHANGED <<files, phase, job, todo, got, sha, answer, overtaken>>

Step(r) ==
  \/ \E j \in Jobs : Arrive(r, j)
  \/ ListFiles(r) \/ ReadFile(r) \/ DecideNow(r)
  \/ FetchFileSha(r) \/ PutFile(r) \/ CallFails(r)

Next == Tick \/ \E r \in Request : Step(r)

Spec == Init /\ [][Next]_vars

-----------------------------------------------------------------------------
(* GET /verify *)

(* A takeover: a valid mandate that another than the holder before it signed. *)
Takeovers(chain) ==
  {<<chain.accepted[i - 1], chain.accepted[i]>> :
     i \in {j \in 2 .. Len(chain.accepted) :
            chain.accepted[j].signedBy # chain.accepted[j - 1].holder}}

(* summarizeState, of one track at time t, over files that are read at once. *)
Summary(fs, track, t) ==
  LET log == TrackLog(Snapshot(fs), track)
      chain == OnRepoChain(log)
      rootless == IF log # <<>> /\ chain.rootError # "none" THEN 1 ELSE 0
  IN  [holder |-> IF HasAuthority(chain, t) THEN {CurrentAuthority(chain, t).holder} ELSE {},
       count |-> Len(chain.accepted), rejected |-> Len(chain.rejections) + rootless,
       alarms |-> Takeovers(chain)]

-----------------------------------------------------------------------------
(* PROPERTIES *)

ChainOf(fs, t) == OnRepoChain(TrackLog(Snapshot(fs), t))

(* A mandate the worker acknowledged is part of its track's verified chain,  *)
(* from then on: no later commit, retry or failed call puts it out again,    *)
(* as long as no request is overtaken.                                       *)
AcknowledgedIsEffective ==
  overtaken = {} =>
    \A r \in Request :
      answer[r] = "ok" /\ job[r].envelope.kind = "Mandate" =>
        LET m == job[r].envelope.mandate
        IN  m \in ToSet(ChainOf(files, m.track).accepted)

(* What GET /verify reports of a track is never taken back by a commit: its  *)
(* count does not fall, no mandate comes to be rejected, its alarms stay,    *)
(* its holder changes only to the one the new file names (summarizeState);   *)
(* and the anchor stays, since a root is taken only for an empty track       *)
(* (worker README, "on a first-come basis").                                 *)
ReportStays ==
  [][\A t \in Track :
       LET before == Summary(files, t, now)
           after == Summary(files', t, now)
       IN  overtaken' = {} =>
             /\ after.count >= before.count /\ after.rejected <= before.rejected
             /\ before.alarms \subseteq after.alarms
             /\ after.holder # before.holder =>
                  \E p \in Path :
                    /\ files'[p] # files[p] /\ files'[p].kind = "Mandate"
                    /\ files'[p].mandate.track = t
                    /\ after.holder = {files'[p].mandate.holder}
             /\ before.count > 0 =>
                  Head(ChainOf(files', t).accepted) = Head(ChainOf(files, t).accepted)]_files

(* What the theorems about these two properties ask of Jobs and              *)
(* InitialFiles, besides Careful: the mandates that two paths of a directory *)
(* may come to hold differ in id and in date (a verdict is looked up by id,  *)
(* and mandates of one date are read in the order of their paths), and every *)
(* track verifies as a whole to begin with.                                  *)
MayHold(p) == {InitialFiles[p]} \cup {j.envelope : j \in {k \in Jobs : k.path = p}}
NamedApart ==
  \A p, q \in Path : p # q /\ p.dir = q.dir =>
    \A e \in MayHold(p) \ {NoFile}, f \in MayHold(q) \ {NoFile} :
      e.kind = "Mandate" /\ f.kind = "Mandate" =>
        e.mandate.id # f.mandate.id /\ e.mandate.issued # f.mandate.issued
Verifies(log) == OnRepoChain(log).accepted = log
StartsVerified == \A t \in Track : Verifies(TrackLog(Snapshot(InitialFiles), t))

(* What r commits is what the policy would accept of the repository it is    *)
(* committed to, at a moment between the request's decision and its PUT.     *)
Gated(r) ==
  phase[r] = "put" /\ files' # files /\ phase'[r] = "done" =>
    \E t \in 0 .. now : Decide(job[r], Snapshot(files), t)

(* "every commit is gated on the request's signed envelope verifying         *)
(* against the current on-repo .maintainers/ state" (policy.ts 7-9).         *)
GatedOnCurrentState == [][\A r \in Request : Gated(r)]_vars

(* It is, for each request that nobody overtook between its listing and its  *)
(* PUT, however many others are under way.                                   *)
GatedUnlessOvertaken == [][\A r \in Request \ overtaken : Gated(r)]_vars

(* Two requests that race for a new path are not both told that they won.    *)
OneWinnerPerPath ==
  \A q, r \in Request :
    /\ answer[q] = "ok" /\ answer[r] = "ok"
    /\ job[q].path = job[r].path
    /\ sha[q] = NoFile /\ sha[r] = NoFile
    => q = r
=============================================================================
