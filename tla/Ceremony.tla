------------------------------ MODULE Ceremony ------------------------------
(***************************************************************************)
(* The signing commands of the CLI (cli/src/commands, lib/ceremony.ts and  *)
(* lib/store.ts), one process at a time in one clone of the repository.  A *)
(* command reads the track's log and the signer's public key, assembles    *)
(* the envelope and checks it against the predecessor, shows it and asks   *)
(* for a typed phrase, loads the signer again, signs, and writes a new     *)
(* file.  Files of other maintainers arrive in between, cards are moved,   *)
(* and the process may be killed.                                          *)
(***************************************************************************)
EXTENDS Verifier, PivToken

CONSTANTS
  Piv,      \* a key source yubikey-piv:; any other source is a key in a file
  Signer,   \* --holder omitted: the holder is the signer
  Unset,    \* an option that is not given
  Commands, \* the command lines that are tried
  Foreign,  \* the command lines of other maintainers, with keys in files
  InitialFiles,
  NoCommand, NoDraft,
  Subject,  \* what a statement is about: an address, a release, a CA key, a hash
  ForeignId,\* the random ids that other maintainers draw
  MaxRuns,  \* how many commands are started
  MaxNow    \* how far the clock runs

Verb == {"upsert-mandate", "ca-endorsement", "create-key", "endorsement",
         "checkpoint-submit", "selftest-pin"}
Command ==
  [verb : Verb, source : Key \cup {Piv}, track : Track, holder : Key \cup {Signer},
   successors : Seq(Key) \cup {Unset}, threshold : Nat \cup {Unset},
   minSuccessors : Nat \cup {Unset}, window : Nat \ {0}, maxWindow : Nat \cup {Unset},
   project : BOOLEAN, dryRun : {"absent", "bare", "true", "other"}, yes : BOOLEAN,
   terminal : BOOLEAN, subject : Subject \cup {Unset}]

ASSUME CeremonyAssumption ==
  /\ Token \subseteq Key /\ Piv \notin Key
  /\ Id \subseteq Nat /\ ForeignId \subseteq Id
  /\ MaxRuns \in Nat /\ MaxNow \in Nat
  /\ \A c \in Commands \cup Foreign : c \in Command
  /\ \A c \in Foreign : c.source # Piv

VARIABLES
  files,     \* the files of .maintainers/, and the payloads that were printed
  now,       \* the clock
  started,   \* how many commands were started
  stage,     \* where the command is
  run,       \* its command line
  log,       \* the mandates it read and still needs
  draft,     \* the envelope it assembled
  confirmed, \* history: what was shown and then confirmed, or let pass by --yes
  swapped,   \* history: the signing visit may find another card than the signer's
  raced      \* history: a file came to the name that is about to be written

vars == <<tokenVars, files, now, started, stage, run, log, draft, confirmed, swapped, raced>>
outside == <<slot, moves, now>>

Stage == {"idle", "binding", "confirming", "loading", "pin", "signing", "checking", "creating"}

TypeOK ==
  /\ TokenTypeOK
  /\ stage \in Stage
  /\ stage = "idle" => run = NoCommand /\ draft = NoDraft /\ visit = NoVisit /\ tty = "closed"
  /\ stage # "idle" => run \in Commands
  /\ log \in Seq(Mandate)
  /\ now \in 0 .. MaxNow /\ started \in 0 .. MaxRuns

-----------------------------------------------------------------------------
(* THE FOLDER *)

(* A file: whose directory (by verb), name and content; whole unless the     *)
(* writing process was killed; genuine if its signature verifies.            *)
File(c, name, body) ==
  [verb |-> c.verb, name |-> name, body |-> body, whole |-> TRUE, genuine |-> TRUE]
SameName(f, g) == f.verb = g.verb /\ f.name = g.name
Exists(f) == \E g \in files : SameName(f, g)

MandateFiles(fs, t) == {f \in fs : f.verb = "upsert-mandate" /\ f.body.track = t}

(* readJson throws on a file that does not parse, and the command fails. *)
Readable(fs, t) == \A f \in MandateFiles(fs, t) : f.whole

(* A mandate as its file holds it. *)
Content(f) == [f.body EXCEPT !.defect = IF f.genuine THEN "none" ELSE "signature"]

ReadMandates(fs, t) == InNameOrder({Content(f) : f \in MandateFiles(fs, t)})

(* A log is anchored at its first mandate. *)
TrackChain(ms) ==
  IF ms = <<>> THEN EmptyChain(NoPin) ELSE VerifyMandateChainFromPin(PinHash(ms[1]), ms)

(* What "verify" says of a track: OK, or FAIL. *)
VerifyOk(fs, t) ==
  /\ Readable(fs, t)
  /\ LET c == TrackChain(ReadMandates(fs, t)) IN c.accepted # <<>> /\ c.rejections = <<>>

UsedIds ==
  {f.body.id : f \in {g \in files \cup ({draft} \ {NoDraft}) : g.verb = "upsert-mandate"}}

(* A mandate's file as "upsert-mandate" names it; a quorum is never zero.    *)
Written(f) ==
  /\ f.body \in Mandate /\ f.body.threshold >= 1
  /\ f.name = <<f.body.issued, f.body.id>> /\ f.genuine \in BOOLEAN

ASSUME FolderAssumption ==
  /\ IsFiniteSet(InitialFiles)
  /\ \A f, g \in InitialFiles :
       f.verb = "upsert-mandate" => Written(f) /\ (SameName(f, g) => f = g)

-----------------------------------------------------------------------------
(* ASSEMBLING *)

BoolFlag(v) == v \in {"bare", "true"}
Given(v, default) == IF v = Unset THEN default ELSE v
HolderOf(c, k) == IF c.holder = Signer THEN k ELSE c.holder

(* The mandate that a command describes: a root for an empty log, otherwise  *)
(* what is not given is taken from the predecessor.                          *)
NewMandate(c, ms, k, t, id) ==
  LET root == ms = <<>>
      pred == Last(ms)
  IN  [id |-> id, track |-> c.track, holder |-> HolderOf(c, k),
       issued |-> t, expires |-> t + c.window,
       successors |-> Given(c.successors, IF root THEN <<HolderOf(c, k)>> ELSE pred.successors),
       threshold |-> Given(c.threshold, IF root THEN 1 ELSE pred.threshold),
       minSuccessors |-> Given(c.minSuccessors, IF root THEN 1 ELSE pred.minSuccessors),
       maxDuration |-> Given(c.maxWindow, IF root THEN c.window ELSE pred.maxDuration),
       signedBy |-> k, signers |-> {k}, defect |-> "none"]

FromScratchRules(c, k) ==
  << Rule("not self-signed", HolderOf(c, k) = k), Rule("no project name", c.project) >>

(* Defect: the window is not held against the predecessor's. *)
SuccessionRules_AnyWindow(c, pred, k, t) ==
  << Rule("not a named successor", k \in ToSet(pred.successors)),
     Rule("needs a quorum", pred.threshold <= 1),
     Rule("clock skew", pred.issued <= t) >>

(* The pre-flight against the predecessor. *)
SuccessionRules(c, pred, k, t) ==
  << Rule("not a named successor", k \in ToSet(pred.successors)),
     Rule("needs a quorum", pred.threshold <= 1),
     Rule("window too long", c.window <= pred.maxDuration),
     Rule("clock skew", pred.issued <= t) >>

(* ... and of the new mandate against itself. *)
TermRules(m) ==
  << Rule("threshold", m.threshold >= 1),
     Rule("unrenewable", m.threshold <= Len(m.successors)),
     Rule("below minSuccessors", m.minSuccessors <= Len(m.successors)) >>

AssembleMandate(c, ms, k, t, id) ==
  [ok |-> /\ Passes(IF ms = <<>> THEN FromScratchRules(c, k)
                    ELSE SuccessionRules(c, Last(ms), k, t))
          /\ Passes(TermRules(NewMandate(c, ms, k, t, id))),
   file |-> File(c, <<t, id>>, NewMandate(c, ms, k, t, id))]

(* What the other commands sign; none of them asks whether k may. *)
Statement(c, k, name, subject) == File(c, name, [signedBy |-> k, subject |-> subject])

(* A lease begins now, and its file is named by that time. *)
AssembleCaEndorsement(c, k, t) == Statement(c, k, <<t, 0>>, c.subject)
AssembleCreateKey(c, k) == Statement(c, k, c.subject, k)
BuildEndorsement(c, k) == Statement(c, k, c.subject, c.subject)
AssembleCheckpointRequest(c, k, hash) == Statement(c, k, c.track, hash)

(* The mandate that is current at t in the local store. *)
DerivesMandateHash(ms, t) == HasAuthority(TrackChain(ms), t)
CurrentMandate(ms, t) == CurrentAuthority(TrackChain(ms), t)

-----------------------------------------------------------------------------
(* A COMMAND *)

Init ==
  /\ TokenInit
  /\ files = InitialFiles /\ now = 0 /\ started = 0
  /\ stage = "idle" /\ run = NoCommand /\ log = <<>> /\ draft = NoDraft
  /\ confirmed = {} /\ swapped = FALSE /\ raced = FALSE

(* The command returns, or fails with a CliError: the process is over. *)
End ==
  /\ stage' = "idle" /\ run' = NoCommand /\ log' = <<>> /\ draft' = NoDraft
  /\ visit' = NoVisit

(* The key source is asked for a public key: on a token by a visit. *)
Ask(c) == visit' = IF c.source = Piv THEN Dial("key", c.terminal) ELSE NoVisit
Answers(k) ==
  IF run.source = Piv THEN visit.phase = "answered" /\ k = visit.answer ELSE k = run.source

(* What each command reads before anything else; it fails if it cannot. *)
ReadsItsLog(c) ==
  LET ms == ReadMandates(files, c.track) IN
  CASE c.verb = "upsert-mandate" -> Readable(files, c.track) /\ log' = ms
    [] c.verb = "checkpoint-submit" /\ c.subject = Unset ->
         /\ Readable(files, c.track) /\ DerivesMandateHash(ms, now)
         /\ log' = <<CurrentMandate(ms, now)>>
    [] c.verb = "endorsement" -> Readable(files, c.track) /\ ms # <<>> /\ log' = <<>>
    [] OTHER -> log' = <<>>

(* A command starts; one that fails at once changes nothing.  Only           *)
(* "endorsement" has no preview, "selftest-pin" goes straight to the prompt. *)
Begin(c) ==
  /\ stage = "idle" /\ started < MaxRuns
  /\ started' = started + 1
  /\ ReadsItsLog(c)
  /\ run' = c
  /\ stage' = CASE c.verb = "endorsement" -> "loading"
                [] c.verb = "selftest-pin" -> "pin"
                [] OTHER -> "binding"
  /\ IF c.verb = "selftest-pin" THEN visit' = NoVisit ELSE Ask(c)
  /\ entered' = 0 /\ verified' = 0 /\ swapped' = FALSE /\ raced' = FALSE
  /\ UNCHANGED <<outside, tty, buffer, files, draft, confirmed>>

(* The envelope is assembled and shown; a dry run is over. *)
Preview(f) ==
  /\ IF BoolFlag(run.dryRun) THEN End
     ELSE /\ draft' = f /\ stage' = "confirming" /\ visit' = NoVisit
          /\ UNCHANGED <<run, log>>

(* Whether k is the authority on disk is only remarked upon. *)
AssembleLease(k) ==
  IF Readable(files, run.track) THEN Preview(AssembleCaEndorsement(run, k, now)) ELSE End

(* Phase 1 ends: the public key is known, the pre-flight is run. *)
Assemble(k) ==
  /\ stage = "binding" /\ Answers(k)
  /\ CASE run.verb = "upsert-mandate" ->
            \E id \in Id \ (ForeignId \cup UsedIds) :
              LET a == AssembleMandate(run, log, k, now, id)
              IN  IF a.ok THEN Preview(a.file) ELSE End
       [] run.verb = "ca-endorsement" -> AssembleLease(k)
       [] run.verb = "create-key" -> Preview(AssembleCreateKey(run, k))
       [] run.verb = "checkpoint-submit" ->
            Preview(AssembleCheckpointRequest(run, k, Given(run.subject, PinHash(log[1]))))
  /\ UNCHANGED <<outside, tty, buffer, entered, verified, files, started, confirmed,
                 swapped, raced>>

(* confirmGate: --yes, or the exact phrase typed at a terminal. *)
Confirm ==
  /\ stage = "confirming" /\ (run.yes \/ run.terminal)
  /\ confirmed' = confirmed \cup {draft.body}
  /\ stage' = "loading" /\ Ask(run)
  /\ UNCHANGED <<outside, tty, buffer, entered, verified, files, started, run, log, draft,
                 swapped, raced>>

(* Anything else typed, or no terminal to type at. *)
Decline ==
  /\ stage = "confirming" /\ ~run.yes
  /\ End
  /\ UNCHANGED <<outside, tty, buffer, entered, verified, files, started, confirmed,
                 swapped, raced>>

(* Signed, by whatever key did it: to be written, or printed. *)
Finish(f) ==
  IF run.verb = "checkpoint-submit"
  THEN files' = files \cup {f} /\ End
  ELSE /\ draft' = f /\ stage' = "checking" /\ visit' = NoVisit
       /\ UNCHANGED <<files, run, log>>

(* There is no second card that the next visit could find first. *)
OneToken == \A q, r \in Reader : slot[q] \in Token /\ slot[r] \in Token => q = r

(* Defect: the loaded key is not compared with the one the bytes name. *)
LoadSigner_Unchecked(k) ==
  /\ stage = "loading" /\ Answers(k)
  /\ LET f == IF run.verb = "endorsement" THEN BuildEndorsement(run, k) ELSE draft
     IN  IF run.source = Piv
         THEN /\ draft' = f /\ stage' = "pin" /\ visit' = NoVisit
              /\ UNCHANGED <<files, run, log>>
         ELSE Finish(f)
  /\ swapped' = (swapped \/ ~OneToken)
  /\ UNCHANGED <<outside, tty, buffer, entered, verified, started, confirmed, raced>>

(* signAssembled: the signer is loaded, and must be the one the bytes name;  *)
(* "endorsement" names the one it loads.  A file key signs at once.          *)
LoadSigner(k) ==
  /\ stage = "loading" /\ Answers(k)
  /\ LET f == IF run.verb = "endorsement" THEN BuildEndorsement(run, k) ELSE draft
     IN  IF k # f.body.signedBy THEN End /\ UNCHANGED files
         ELSE IF run.source = Piv
         THEN /\ draft' = f /\ stage' = "pin" /\ visit' = NoVisit
              /\ UNCHANGED <<files, run, log>>
         ELSE Finish(f)
  /\ swapped' = (swapped \/ ~OneToken)
  /\ UNCHANGED <<outside, tty, buffer, entered, verified, started, confirmed, raced>>

(* The PIN is asked for, at a terminal. *)
PromptPin ==
  /\ stage = "pin" /\ run.terminal /\ OpenTty
  /\ UNCHANGED <<now, files, started, stage, run, log, draft, confirmed, swapped, raced>>
TypePin ==
  /\ stage = "pin" /\ Typed
  /\ UNCHANGED <<now, files, started, stage, run, log, draft, confirmed, swapped, raced>>

(* Enter: a new visit signs with this PIN; the self-test only reports it. *)
EnterPin ==
  /\ stage = "pin" /\ CloseTty(TRUE)
  /\ IF run.verb = "selftest-pin" THEN End
     ELSE /\ stage' = "signing" /\ visit' = Dial("sign", run.terminal)
          /\ UNCHANGED <<run, log, draft>>
  /\ UNCHANGED <<now, files, started, confirmed, swapped, raced>>

(* No PIN: cancelled, or no terminal to be asked at. *)
NoPinEntered ==
  /\ stage = "pin"
  /\ CloseTty(FALSE) \/ (tty = "closed" /\ UNCHANGED <<tty, buffer, entered, slot, moves, verified>>)
  /\ End
  /\ UNCHANGED <<now, files, started, confirmed, swapped, raced>>

(* The token answered; nobody verifies the signature. *)
Signed ==
  /\ stage = "signing" /\ visit.phase = "answered"
  /\ Finish([draft EXCEPT !.genuine = visit.answer = draft.body.signedBy])
  /\ UNCHANGED <<outside, tty, buffer, entered, verified, started, confirmed, swapped, raced>>

VisitFailed ==
  /\ visit.phase = "failed"
  /\ End
  /\ UNCHANGED <<outside, tty, buffer, entered, verified, files, started, confirmed,
                 swapped, raced>>

(* Defect: the file is written without a look. *)
CheckName_NoLook ==
  /\ stage = "checking"
  /\ stage' = "creating" /\ UNCHANGED <<run, log, draft, visit>>
  /\ UNCHANGED <<outside, tty, buffer, entered, verified, files, started, confirmed,
                 swapped, raced>>

(* existsSync: an existing file is never overwritten. *)
CheckName ==
  /\ stage = "checking"
  /\ IF Exists(draft) THEN End ELSE stage' = "creating" /\ UNCHANGED <<run, log, draft, visit>>
  /\ UNCHANGED <<outside, tty, buffer, entered, verified, files, started, confirmed,
                 swapped, raced>>

(* writeFileSync, to the end, or cut short by the end of the process. *)
WriteFile(whole) ==
  /\ stage = "creating"
  /\ files' = {f \in files : ~SameName(f, draft)} \cup {[draft EXCEPT !.whole = whole]}
  /\ End
  /\ UNCHANGED <<outside, tty, buffer, entered, verified, started, confirmed, swapped, raced>>

(* The process is killed; its terminal is closed with it. *)
Crash ==
  /\ stage # "idle"
  /\ End /\ tty' = "closed" /\ buffer' = 0
  /\ UNCHANGED <<outside, entered, verified, files, started, confirmed, swapped, raced>>

-----------------------------------------------------------------------------
(* THE WORLD *)

aside == <<now, files, started, stage, run, log, draft, confirmed, raced>>

(* The process gets on with the visit it is waiting for. *)
Visiting == (Connecting \/ Exchanging) /\ UNCHANGED <<swapped, aside>>

(* A person moves a card, or a whole reader. *)
Moving ==
  /\ \E r \in Reader, c \in Token \cup {Empty, Unplugged} : Move(r, c)
  /\ swapped' = (swapped \/ stage \in {"pin", "signing"}
                 \/ (stage = "loading" /\ visit.phase = "answered"))
  /\ UNCHANGED aside

(* Another maintainer's file arrives, made by the same commands. *)
Lands(f) ==
  /\ ~Exists(f)
  /\ files' = files \cup {f}
  /\ raced' = (raced \/ (stage = "creating" /\ SameName(f, draft)))
  /\ UNCHANGED <<tokenVars, now, started, stage, run, log, draft, confirmed, swapped>>
Arrival ==
  \E c \in Foreign :
    \/ /\ c.verb = "upsert-mandate" /\ VerifyOk(files, c.track)
       /\ \E id \in ForeignId \ UsedIds :
            LET a == AssembleMandate(c, ReadMandates(files, c.track), c.source, now, id)
            IN  a.ok /\ VerifyOk(files \cup {a.file}, c.track) /\ Lands(a.file)
    \/ c.verb = "create-key" /\ Lands(AssembleCreateKey(c, c.source))

Tick ==
  /\ now < MaxNow /\ now' = now + 1
  /\ UNCHANGED <<tokenVars, files, started, stage, run, log, draft, confirmed, swapped, raced>>

Proceed ==
  \/ \E k \in Key : Assemble(k) \/ LoadSigner(k)
  \/ Signed \/ VisitFailed \/ CheckName \/ \E whole \in BOOLEAN : WriteFile(whole)

Next ==
  \/ \E c \in Commands : Begin(c)
  \/ Visiting \/ Proceed \/ Confirm \/ Decline
  \/ PromptPin \/ TypePin \/ EnterPin \/ NoPinEntered
  \/ Crash \/ Moving \/ Arrival \/ Tick

(* Timers fire, callbacks come or their timer does, and the program runs on; *)
(* nobody need answer a prompt, move a card or start a command.              *)
Spec == Init /\ [][Next]_vars /\ WF_vars(Visiting) /\ WF_vars(Proceed)

-----------------------------------------------------------------------------
(* A renewal that is written by a command nobody interfered with - the log   *)
(* is the one it read, its name comes last, the token answered with its key  *)
(* - keeps a track that verifies verifying, as long as it names as many      *)
(* successors as the predecessor asks for: the pre-flight of                 *)
(* assembleUpsertMandate leaves nothing else to the verifier.                *)
VerifyStaysOk ==
  [][ \A f \in files' \ files :
        /\ stage = "creating" /\ f.verb = "upsert-mandate" /\ f.whole /\ f.genuine
        /\ VerifyOk(files, f.body.track) /\ log = ReadMandates(files, f.body.track)
        /\ EarlierName(Last(log), f.body)
        /\ Len(f.body.successors) >= Last(log).minSuccessors
        => VerifyOk(files', f.body.track) ]_vars

(* What a command with a preview writes or prints was shown to a person who  *)
(* confirmed it or had said --yes, byte for byte, and carries the signature  *)
(* of the key it names - unless a card was moved after the signer was        *)
(* loaded or a second one is in a reader, since signing opens a connection   *)
(* of its own (signAssembled, previewConfirmSign).                           *)
SignedAsShown ==
  [][ \A f \in files' \ files :
        stage' # stage /\ f.verb # "endorsement"
          => f.body \in confirmed /\ (f.genuine \/ swapped) ]_vars

(* A PIN that was typed is sent to a card at most once, so a flaky reader    *)
(* never uses up the tries of the card; and the terminal is never left in    *)
(* raw mode (withPcscChannel, pivPinFromTty).                                *)
PinDiscipline ==
  /\ verified <= entered
  /\ tty = "raw" => stage = "pin"

(* A command that waits for the token, and not for a person, stops waiting:  *)
(* connectPcscChannelWithPrompt gives up at its deadline.                    *)
NeverHangs == []<>(stage \in {"idle", "confirming", "pin"})

(* What is in the folder stays, unless its name was taken between the look   *)
(* and the write (the "append-only" of store.ts).                            *)
NothingIsOverwritten == [][raced \/ files \subseteq files']_vars

(* "You never tap a YubiKey for a mandate the verifier would reject" (the    *)
(* header of upsertMandate.ts): at the PIN, the draft would be accepted.     *)
NeverTapForARejectedMandate ==
  (/\ stage \in {"pin", "signing"} /\ run.verb = "upsert-mandate"
   /\ VerifyOk(files, run.track) /\ log = ReadMandates(files, run.track)
   /\ log # <<>> /\ EarlierName(Last(log), draft.body))
  => VerifyOk(files \cup {draft}, run.track)
=============================================================================
