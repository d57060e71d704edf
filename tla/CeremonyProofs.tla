--------------------------- MODULE CeremonyProofs ---------------------------
(***************************************************************************)
(* What a signing command may be trusted with - a PIN, a card, the folder, *)
(* what the person was shown, and a track that verifies - for any number   *)
(* of readers and tokens, any command lines, any commands run by others    *)
(* meanwhile and any number of cards moved.                                *)
(***************************************************************************)
EXTENDS Ceremony, VerifierProofs, TLAPS

-----------------------------------------------------------------------------
(* THE INVARIANT *)

(* A connection that was not cut has a token at its other end. *)
TokenInv ==
  /\ slot \in [Reader -> Token \cup {Empty, Unplugged}]
  /\ visit \in Visit \cup {NoVisit}
  /\ visit.phase = "connecting" => visit.reader \in Reader
  /\ visit.phase \in {"exchange", "authenticate"} =>
       visit.reader \in Reader /\ (visit.cut \/ slot[visit.reader] \in Token)

(* Which visit a stage waits for, and where a terminal may be open. *)
StageInv ==
  /\ stage \in Stage /\ (stage # "idle" => run \in Commands)
  /\ stage \in {"idle", "confirming", "pin", "checking", "creating"} => visit = NoVisit
  /\ stage \in {"binding", "loading"} => visit = NoVisit \/ visit.call = "key"
  /\ stage = "signing" => visit \in Visit /\ visit.call = "sign"
  /\ tty \in {"closed", "raw"} /\ (tty = "raw" => stage = "pin")

(* A visit that has not yet sent its VERIFY has a PIN of its own. *)
PinInv ==
  /\ entered \in Nat /\ verified \in Nat /\ verified <= entered
  /\ visit.phase \in {"seeking", "connecting", "sleeping", "exchange"} /\ visit.call = "sign" =>
       verified < entered

IsFile(f) == DOMAIN f = {"verb", "name", "body", "whole", "genuine"}

(* The stages in which the draft is that of this command. *)
HasDraft ==
  \/ stage \in {"confirming", "signing", "checking", "creating"}
  \/ stage = "loading" /\ run.verb # "endorsement"
  \/ stage = "pin" /\ run.verb # "selftest-pin"

(* A draft is what was shown; its signature is good, or a card was swapped. *)
DraftInv ==
  /\ stage \in {"binding", "confirming"} =>
       run.verb \in {"upsert-mandate", "ca-endorsement", "create-key", "checkpoint-submit"}
  /\ stage \in {"loading", "signing", "checking", "creating"} => run.verb # "selftest-pin"
  /\ HasDraft => IsFile(draft) /\ draft.verb = run.verb
  /\ HasDraft /\ stage # "confirming" /\ run.verb # "endorsement" => draft.body \in confirmed
  /\ HasDraft /\ stage \in {"confirming", "loading"} => draft.genuine = TRUE
  /\ stage \in {"checking", "creating"} => draft.genuine = TRUE \/ swapped = TRUE

(* Unless a card was swapped, every token in a reader is the signer's from    *)
(* the moment it was loaded.                                                 *)
CardInv ==
  \/ swapped = TRUE
  \/ /\ stage = "loading" /\ visit.phase = "answered" =>
          visit.answer \in Token /\ \E r \in Reader : slot[r] = visit.answer
     /\ stage \in {"pin", "signing"} /\ HasDraft =>
          \A r \in Reader : slot[r] \in Token => slot[r] = draft.body.signedBy
     /\ stage = "signing" /\ visit.phase = "answered" => visit.answer = draft.body.signedBy

(* The name that is about to be written is free, unless someone took it.     *)
NameInv == stage = "creating" => raced = TRUE \/ ~Exists(draft)

CeremonyInv == TokenInv /\ StageInv /\ PinInv /\ DraftInv /\ CardInv /\ NameInv

LEMMA NoVisitFields == NoVisit.phase = "none" /\ NoVisit.call = "none"
BY DEF NoVisit

-----------------------------------------------------------------------------
(* THE TOKEN *)

(* A visit that gets on keeps its call; it answers with the key of the token *)
(* in its reader; and it sends at most the one VERIFY it has a PIN for.      *)
LEMMA VisitGoesOn ==
  ASSUME TokenInv, PinInv, Connecting \/ Exchanging
  PROVE  /\ visit \in Visit /\ visit' \in Visit /\ visit'.call = visit.call
         /\ TokenInv' /\ PinInv'
         /\ visit'.phase = "answered" =>
              /\ visit.reader \in Reader /\ slot[visit.reader] \in Token
              /\ visit'.answer = slot[visit.reader]
<1> USE NoVisitFields, TokenAssumption
<1>1. visit \in Visit
  BY DEF TokenInv, Connecting, Exchanging, ReaderFound, CardPresent, Connected, NotReady,
         Faulted, WakeUp, Seeking, Waiting, ReadKey, VerifyPin, Authenticate, ExchangeFails
<1>2. ASSUME Connecting
      PROVE  /\ visit' \in Visit /\ visit'.call = visit.call /\ visit'.phase # "answered"
             /\ TokenInv' /\ PinInv'
  <2> USE <1>1 DEF Visit, Phase
  <2>1. slot' = slot /\ entered' = entered /\ verified' = verified
    BY <1>2 DEF Connecting
  <2>2. ASSUME NEW r \in Reader, ReaderFound(r)
        PROVE  /\ visit' \in Visit /\ visit'.call = visit.call
               /\ visit'.phase = "seeking" /\ visit.phase = "seeking"
    BY <2>2 DEF ReaderFound, Seeking
  <2>3. CASE CardPresent
    <3>1. /\ visit' \in Visit /\ visit'.call = visit.call /\ visit'.reader \in Reader
          /\ visit'.phase = "connecting" /\ visit.phase = "seeking"
      BY <2>3 DEF CardPresent, Seeking
    <3> QED
      BY <2>1, <3>1 DEF TokenInv, PinInv
  <2>4. CASE Connected
    <3>1. /\ visit' \in Visit /\ visit'.call = visit.call /\ visit'.reader = visit.reader
          /\ visit'.phase = "exchange" /\ visit.phase = "connecting"
          /\ slot[visit.reader] \in Token
      BY <2>4 DEF Connected
    <3> QED
      BY <2>1, <3>1 DEF TokenInv, PinInv
  <2>5. CASE NotReady \/ Faulted
    <3>1. /\ visit' \in Visit /\ visit'.call = visit.call
          /\ visit'.phase \in {"sleeping", "failed"} /\ visit.phase \in {"seeking", "connecting"}
      BY <2>5 DEF NotReady, Faulted, Waiting
    <3> QED
      BY <2>1, <3>1 DEF TokenInv, PinInv
  <2>6. CASE WakeUp
    <3>1. /\ visit' \in Visit /\ visit'.call = visit.call
          /\ visit'.phase = "seeking" /\ visit.phase = "sleeping"
      <4> DEFINE next == IF visit.attempt < MaxAttempts THEN visit.attempt + 1 ELSE visit.attempt
      <4>1. next \in 1 .. MaxAttempts
        <5>1. visit.attempt \in 1 .. MaxAttempts /\ MaxAttempts \in Nat
          OBVIOUS
        <5> QED
          BY <5>1
      <4>2. /\ visit' = [visit EXCEPT !.phase = "seeking", !.reader = NoReader, !.attempt = next]
            /\ visit.phase = "sleeping"
        BY <2>6 DEF WakeUp
      <4> HIDE DEF next
      <4> QED
        BY <4>1, <4>2
    <3> QED
      BY <2>1, <3>1 DEF TokenInv, PinInv
  <2> QED
    BY <1>2, <2>1, <2>2, <2>3, <2>4, <2>5, <2>6 DEF Connecting, TokenInv, PinInv
<1>3. ASSUME Exchanging
      PROVE  /\ visit' \in Visit /\ visit'.call = visit.call
             /\ TokenInv' /\ PinInv'
             /\ visit'.phase = "answered" =>
                  /\ visit.reader \in Reader /\ slot[visit.reader] \in Token
                  /\ visit'.answer = slot[visit.reader]
  <2> USE <1>1 DEF Visit, Phase
  <2>1. slot' = slot /\ entered' = entered
    BY <1>3 DEF Exchanging
  <2>2. CASE ReadKey \/ Authenticate
    <3>1. /\ visit.phase \in {"exchange", "authenticate"} /\ ~visit.cut
          /\ visit' = [visit EXCEPT !.phase = "answered", !.answer = slot[visit.reader]]
          /\ verified' = verified
      BY <2>2 DEF ReadKey, Authenticate
    <3>2. visit.reader \in Reader /\ slot[visit.reader] \in Token
      BY <3>1 DEF TokenInv
    <3>3. /\ visit' \in Visit /\ visit'.call = visit.call
          /\ visit'.phase = "answered" /\ visit'.answer = slot[visit.reader]
      BY <3>1, <3>2
    <3> QED
      BY <2>1, <3>1, <3>2, <3>3 DEF TokenInv, PinInv
  <2>3. ASSUME NEW right \in BOOLEAN, VerifyPin(right)
        PROVE  visit' \in Visit /\ visit'.call = visit.call /\ visit'.phase # "answered"
               /\ TokenInv' /\ PinInv'
    <3>1. /\ visit' \in Visit /\ visit'.call = visit.call /\ visit'.reader = visit.reader
          /\ visit'.cut = visit.cut /\ visit'.phase \in {"authenticate", "failed"}
          /\ visit.phase = "exchange" /\ visit.call = "sign" /\ verified' = verified + 1
      BY <2>3 DEF VerifyPin
    <3> QED
      BY <2>1, <3>1 DEF TokenInv, PinInv
  <2>4. CASE ExchangeFails
    <3>1. /\ visit' \in Visit /\ visit'.call = visit.call /\ visit'.phase = "failed"
          /\ verified' = verified
      BY <2>4 DEF ExchangeFails
    <3> QED
      BY <2>1, <3>1 DEF TokenInv, PinInv
  <2> QED
    BY <1>3, <2>2, <2>3, <2>4 DEF Exchanging
<1> QED
  BY <1>1, <1>2, <1>3

(* A visit begins without a card. *)
LEMMA DialType ==
  ASSUME NEW kind \in {"key", "sign"}, NEW interactive \in BOOLEAN
  PROVE  /\ Dial(kind, interactive) \in Visit
         /\ Dial(kind, interactive).phase = "seeking"
         /\ Dial(kind, interactive).call = kind
BY TokenAssumption DEF Dial, Visit, Phase

-----------------------------------------------------------------------------
(* A COMMAND, STEP BY STEP *)

LEMMA CommandType ==
  ASSUME NEW c \in Commands
  PROVE  c.verb \in Verb /\ c.terminal \in BOOLEAN
BY CeremonyAssumption DEF Command

LEMMA FileFields ==
  ASSUME NEW c, NEW name, NEW body
  PROVE  /\ IsFile(File(c, name, body))
         /\ File(c, name, body).verb = c.verb
         /\ File(c, name, body).body = body
         /\ File(c, name, body).genuine = TRUE
BY DEF File, IsFile

(* A terminal is open only where a PIN is asked for. *)
LEMMA TtyClosed ==
  ASSUME StageInv, stage # "pin"
  PROVE  tty = "closed"
BY DEF StageInv

(* A process that is over leaves nothing to be wrong about. *)
LEMMA EndKeeps ==
  ASSUME TokenInv, End, slot' = slot, tty' = "closed",
         entered' \in Nat, verified' \in Nat, verified' <= entered'
  PROVE  CeremonyInv'
<1> USE NoVisitFields
<1>1. stage' = "idle" /\ visit' = NoVisit
  BY DEF End
<1>2. TokenInv'
  BY <1>1 DEF TokenInv
<1>3. StageInv' /\ PinInv'
  BY <1>1 DEF StageInv, PinInv, Stage
<1>4. DraftInv' /\ CardInv' /\ NameInv'
  BY <1>1 DEF DraftInv, CardInv, NameInv, HasDraft
<1> QED
  BY <1>2, <1>3, <1>4 DEF CeremonyInv

LEMMA BeginKeeps ==
  ASSUME CeremonyInv, NEW c \in Commands, Begin(c)
  PROVE  CeremonyInv'
<1> USE NoVisitFields
<1>1. c.verb \in Verb /\ c.terminal \in BOOLEAN
  BY CommandType
<1>2. /\ slot' = slot /\ tty' = tty /\ stage = "idle" /\ run' = c
      /\ entered' = 0 /\ verified' = 0
  BY DEF Begin, outside
<1>3. visit' = NoVisit \/ (visit' = Dial("key", c.terminal) /\ c.verb # "selftest-pin")
  BY DEF Begin, Ask
<1>4. visit' \in Visit \cup {NoVisit} /\ visit'.phase \in {"seeking", "none"}
      /\ (visit' = NoVisit \/ visit'.call = "key")
  BY <1>1, <1>3, DialType
<1>5. \/ stage' = "loading" /\ c.verb = "endorsement"
      \/ stage' = "pin" /\ c.verb = "selftest-pin" /\ visit' = NoVisit
      \/ /\ stage' = "binding"
         /\ c.verb \in {"upsert-mandate", "ca-endorsement", "create-key", "checkpoint-submit"}
  <2>1. stage' = CASE c.verb = "endorsement" -> "loading"
                   [] c.verb = "selftest-pin" -> "pin"
                   [] OTHER -> "binding"
    BY DEF Begin
  <2> QED
    BY <1>1, <1>3, <2>1 DEF Verb
<1>6. TokenInv'
  BY <1>2, <1>4 DEF CeremonyInv, TokenInv
<1>7. StageInv'
  BY <1>2, <1>4, <1>5 DEF CeremonyInv, StageInv, Stage
<1>8. PinInv'
  BY <1>2, <1>4 DEF PinInv
<1>9. DraftInv' /\ CardInv' /\ NameInv'
  BY <1>2, <1>4, <1>5 DEF DraftInv, CardInv, NameInv, HasDraft
<1> QED
  BY <1>6, <1>7, <1>8, <1>9 DEF CeremonyInv

LEMMA PreviewKeeps ==
  ASSUME CeremonyInv, stage = "binding", NEW f, IsFile(f), f.verb = run.verb,
         f.genuine = TRUE, Preview(f),
         UNCHANGED <<outside, tty, buffer, entered, verified, files, started, confirmed,
                     swapped, raced>>
  PROVE  CeremonyInv'
<1> USE NoVisitFields
<1>1. CASE BoolFlag(run.dryRun)
  <2>1. End /\ tty' = "closed"
    BY <1>1, TtyClosed DEF Preview, CeremonyInv
  <2> QED
    BY <2>1, EndKeeps DEF CeremonyInv, PinInv, outside
<1>2. CASE ~BoolFlag(run.dryRun)
  <2>1. /\ draft' = f /\ stage' = "confirming" /\ visit' = NoVisit /\ run' = run
        /\ slot' = slot /\ tty' = "closed" /\ entered' = entered /\ verified' = verified
    BY <1>2, TtyClosed DEF Preview, CeremonyInv, outside
  <2>2. TokenInv' /\ StageInv' /\ PinInv'
    BY <2>1 DEF CeremonyInv, TokenInv, StageInv, PinInv, Stage
  <2>3. DraftInv'
    BY <2>1 DEF CeremonyInv, DraftInv, HasDraft
  <2>4. CardInv' /\ NameInv'
    BY <2>1 DEF CardInv, NameInv
  <2> QED
    BY <2>2, <2>3, <2>4 DEF CeremonyInv
<1> QED
  BY <1>1, <1>2

LEMMA AssembleKeeps ==
  ASSUME CeremonyInv, NEW k, Assemble(k)
  PROVE  CeremonyInv'
<1> DEFINE Same == UNCHANGED <<outside, tty, buffer, entered, verified, files, started,
                               confirmed, swapped, raced>>
<1>1. stage = "binding" /\ Same
  BY DEF Assemble
<1>2. run.verb \in {"upsert-mandate", "ca-endorsement", "create-key", "checkpoint-submit"}
  BY <1>1 DEF CeremonyInv, DraftInv
<1>3. End => CeremonyInv'
  <2> SUFFICES ASSUME End PROVE CeremonyInv'
    OBVIOUS
  <2>1. tty' = "closed"
    BY <1>1, TtyClosed DEF CeremonyInv
  <2> QED
    BY <1>1, <2>1, EndKeeps DEF CeremonyInv, PinInv, outside
<1>4. ASSUME NEW name, NEW body, Preview(File(run, name, body)) PROVE CeremonyInv'
  <2>1. PICK f : f = File(run, name, body)
    OBVIOUS
  <2>2. IsFile(f) /\ f.verb = run.verb /\ f.genuine = TRUE
    BY <2>1 DEF File, IsFile
  <2>3. Preview(f)
    BY <1>4, <2>1 DEF Preview
  <2> QED
    BY <1>1, <2>2, <2>3, PreviewKeeps
<1>5. CASE run.verb = "upsert-mandate"
  <2>1. PICK id \in Id : LET a == AssembleMandate(run, log, k, now, id)
                         IN  IF a.ok THEN Preview(a.file) ELSE End
    BY <1>5 DEF Assemble
  <2>2. AssembleMandate(run, log, k, now, id).file
          = File(run, <<now, id>>, NewMandate(run, log, k, now, id))
    BY DEF AssembleMandate
  <2>3. PICK name, body : name = <<now, id>> /\ body = NewMandate(run, log, k, now, id)
    OBVIOUS
  <2> QED
    BY <1>3, <1>4, <2>1, <2>2, <2>3
<1>6. CASE run.verb = "ca-endorsement"
  <2>1. End \/ Preview(AssembleCaEndorsement(run, k, now))
    BY <1>6 DEF Assemble, AssembleLease
  <2>2. PICK name, body : name = <<now, 0>> /\ body = [signedBy |-> k, subject |-> run.subject]
    OBVIOUS
  <2> QED
    BY <1>3, <1>4, <2>1, <2>2 DEF AssembleCaEndorsement, Statement
<1>7. CASE run.verb = "create-key"
  <2>1. PICK name, body : name = run.subject /\ body = [signedBy |-> k, subject |-> k]
    OBVIOUS
  <2> QED
    BY <1>4, <1>7, <2>1 DEF Assemble, AssembleCreateKey, Statement
<1>8. CASE run.verb = "checkpoint-submit"
  <2>1. PICK name, body : /\ name = run.track
                          /\ body = [signedBy |-> k,
                                     subject |-> Given(run.subject, PinHash(log[1]))]
    OBVIOUS
  <2> QED
    BY <1>4, <1>8, <2>1 DEF Assemble, AssembleCheckpointRequest, Statement
<1> QED
  BY <1>2, <1>5, <1>6, <1>7, <1>8

LEMMA ConfirmKeeps ==
  ASSUME CeremonyInv, Confirm
  PROVE  CeremonyInv'
<1> USE NoVisitFields
<1>1. /\ stage = "confirming" /\ stage' = "loading"
      /\ confirmed' = confirmed \cup {draft.body} /\ draft' = draft /\ run' = run
      /\ slot' = slot /\ tty' = tty /\ entered' = entered /\ verified' = verified
  BY DEF Confirm, outside
<1>2. run \in Commands /\ run.terminal \in BOOLEAN
  BY <1>1, CommandType DEF CeremonyInv, StageInv
<1>3. visit' = NoVisit \/ visit' = Dial("key", run.terminal)
  BY DEF Confirm, Ask
<1>4. visit' \in Visit \cup {NoVisit} /\ visit'.phase \in {"seeking", "none"}
      /\ (visit' = NoVisit \/ visit'.call = "key")
  BY <1>2, <1>3, DialType
<1>5. TokenInv'
  BY <1>1, <1>4 DEF CeremonyInv, TokenInv
<1>6. StageInv' /\ PinInv'
  <2>1. NoVisit.call # "sign"
    BY DEF NoVisit
  <2> QED
    BY <1>1, <1>2, <1>4, <2>1 DEF CeremonyInv, StageInv, PinInv, Stage
<1>7. DraftInv'
  BY <1>1 DEF CeremonyInv, DraftInv, HasDraft
<1>8. CardInv' /\ NameInv'
  BY <1>1, <1>4 DEF CardInv, NameInv
<1> QED
  BY <1>5, <1>6, <1>7, <1>8 DEF CeremonyInv

LEMMA FinishKeeps ==
  ASSUME CeremonyInv, stage \in {"loading", "signing"}, NEW f, IsFile(f), f.verb = run.verb,
         f.genuine = TRUE \/ swapped' = TRUE,
         run.verb # "endorsement" => f.body \in confirmed,
         Finish(f), UNCHANGED <<outside, tty, entered, verified, confirmed>>
  PROVE  CeremonyInv'
<1> USE NoVisitFields
<1>1. tty' = "closed"
  BY TtyClosed DEF CeremonyInv
<1>2. CASE run.verb = "checkpoint-submit"
  BY <1>1, <1>2, EndKeeps DEF Finish, CeremonyInv, PinInv, outside
<1>3. CASE run.verb # "checkpoint-submit"
  <2>1. /\ draft' = f /\ stage' = "checking" /\ visit' = NoVisit /\ run' = run
        /\ slot' = slot /\ entered' = entered /\ verified' = verified /\ confirmed' = confirmed
    BY <1>3 DEF Finish, outside
  <2>2. TokenInv' /\ StageInv' /\ PinInv'
    BY <1>1, <2>1 DEF CeremonyInv, TokenInv, StageInv, PinInv, Stage
  <2>3. DraftInv'
    BY <2>1 DEF CeremonyInv, DraftInv, HasDraft
  <2>4. CardInv' /\ NameInv'
    BY <2>1 DEF CardInv, NameInv
  <2> QED
    BY <2>2, <2>3, <2>4 DEF CeremonyInv
<1> QED
  BY <1>2, <1>3

LEMMA LoadSignerKeeps ==
  ASSUME CeremonyInv, NEW k, LoadSigner(k)
  PROVE  CeremonyInv'
<1> USE NoVisitFields
<1>1. PICK f : f = IF run.verb = "endorsement" THEN BuildEndorsement(run, k) ELSE draft
  OBVIOUS
<1>2. /\ stage = "loading" /\ Answers(k)
      /\ IF k # f.body.signedBy THEN End /\ UNCHANGED files
         ELSE IF run.source = Piv
         THEN /\ draft' = f /\ stage' = "pin" /\ visit' = NoVisit
              /\ UNCHANGED <<files, run, log>>
         ELSE Finish(f)
      /\ swapped' = (swapped \/ ~OneToken)
      /\ UNCHANGED <<outside, tty, entered, verified, confirmed>>
  BY <1>1 DEF LoadSigner
<1>3. /\ IsFile(f) /\ f.verb = run.verb /\ f.genuine = TRUE
      /\ run.verb # "endorsement" => f.body \in confirmed
  BY <1>1, <1>2, FileFields DEF CeremonyInv, DraftInv, HasDraft, BuildEndorsement, Statement
<1>4. tty' = "closed"
  BY <1>2, TtyClosed DEF CeremonyInv
<1>5. CASE k # f.body.signedBy
  BY <1>2, <1>4, <1>5, EndKeeps DEF CeremonyInv, PinInv, outside
<1>6. CASE k = f.body.signedBy /\ run.source = Piv
  <2>1. /\ draft' = f /\ stage' = "pin" /\ visit' = NoVisit /\ run' = run
        /\ slot' = slot /\ entered' = entered /\ verified' = verified /\ confirmed' = confirmed
    BY <1>2, <1>6 DEF outside
  <2>2. TokenInv' /\ StageInv' /\ PinInv'
    BY <1>2, <1>4, <2>1 DEF CeremonyInv, TokenInv, StageInv, PinInv, Stage
  <2>3. DraftInv'
    BY <1>3, <2>1 DEF DraftInv, HasDraft
  <2>4. CardInv'
    <3>1. CASE swapped \/ ~OneToken
      BY <1>2, <3>1 DEF CardInv
    <3>2. CASE ~swapped /\ OneToken
      <4>1. visit.phase = "answered" /\ k = visit.answer
        BY <1>2, <1>6 DEF Answers
      <4>2. k \in Token /\ \E r \in Reader : slot[r] = k
        BY <1>2, <3>2, <4>1 DEF CeremonyInv, CardInv
      <4>3. \A r \in Reader : slot[r] \in Token => slot[r] = k
        BY <3>2, <4>2 DEF OneToken
      <4> QED
        BY <1>6, <2>1, <4>3 DEF CardInv
    <3> QED
      BY <3>1, <3>2
  <2>5. NameInv'
    BY <2>1 DEF NameInv
  <2> QED
    BY <2>2, <2>3, <2>4, <2>5 DEF CeremonyInv
<1>7. CASE k = f.body.signedBy /\ run.source # Piv
  BY <1>2, <1>3, <1>7, FinishKeeps
<1> QED
  BY <1>5, <1>6, <1>7

LEMMA SignedKeeps ==
  ASSUME CeremonyInv, Signed
  PROVE  CeremonyInv'
<1>1. PICK f : f = [draft EXCEPT !.genuine = visit.answer = draft.body.signedBy]
  OBVIOUS
<1>2. /\ stage = "signing" /\ visit.phase = "answered" /\ Finish(f) /\ swapped' = swapped
      /\ UNCHANGED <<outside, tty, entered, verified, confirmed>>
  BY <1>1 DEF Signed
<1>3. /\ IsFile(draft) /\ draft.verb = run.verb
      /\ run.verb # "endorsement" => draft.body \in confirmed
  BY <1>2 DEF CeremonyInv, DraftInv, HasDraft
<1>4. /\ IsFile(f) /\ f.verb = draft.verb /\ f.body = draft.body
      /\ f.genuine = (visit.answer = draft.body.signedBy)
  BY <1>1, <1>3 DEF IsFile
<1>5. swapped = TRUE \/ visit.answer = draft.body.signedBy
  BY <1>2 DEF CeremonyInv, CardInv
<1> QED
  BY <1>2, <1>3, <1>4, <1>5, FinishKeeps

LEMMA CheckNameKeeps ==
  ASSUME CeremonyInv, CheckName
  PROVE  CeremonyInv'
<1>1. /\ stage = "checking" /\ slot' = slot /\ tty' = tty /\ tty = "closed"
      /\ entered' = entered /\ verified' = verified /\ files' = files /\ confirmed' = confirmed
      /\ swapped' = swapped /\ raced' = raced
  BY TtyClosed DEF CeremonyInv, CheckName, outside
<1>2. CASE Exists(draft)
  BY <1>1, <1>2, EndKeeps DEF CheckName, CeremonyInv, PinInv
<1>3. CASE ~Exists(draft)
  <2>1. stage' = "creating" /\ run' = run /\ draft' = draft /\ visit' = visit
    BY <1>3 DEF CheckName
  <2>2. TokenInv' /\ StageInv' /\ PinInv'
    BY <1>1, <2>1 DEF CeremonyInv, TokenInv, StageInv, PinInv, Stage
  <2>3. DraftInv'
    BY <1>1, <2>1 DEF CeremonyInv, DraftInv, HasDraft
  <2>4. CardInv' /\ NameInv'
    BY <1>1, <1>3, <2>1 DEF CardInv, NameInv, Exists
  <2> QED
    BY <2>2, <2>3, <2>4 DEF CeremonyInv
<1> QED
  BY <1>2, <1>3

(* Steps that leave the command where it is. *)
LEMMA AsideKeeps ==
  ASSUME CeremonyInv, tokenVars' = tokenVars,
         stage' = stage, run' = run, draft' = draft, confirmed' = confirmed,
         swapped' = swapped, NameInv'
  PROVE  CeremonyInv'
<1>1. slot' = slot /\ visit' = visit /\ tty' = tty /\ entered' = entered /\ verified' = verified
  BY DEF tokenVars
<1>2. TokenInv' /\ StageInv' /\ PinInv'
  BY <1>1 DEF CeremonyInv, TokenInv, StageInv, PinInv
<1>3. DraftInv'
  BY DEF CeremonyInv, DraftInv, HasDraft
<1>4. CardInv'
  BY <1>1 DEF CeremonyInv, CardInv, HasDraft
<1> QED
  BY <1>2, <1>3, <1>4 DEF CeremonyInv

(* The person at the prompt for the PIN. *)
LEMMA PromptKeeps ==
  ASSUME CeremonyInv, PromptPin \/ TypePin
  PROVE  CeremonyInv'
<1>1. /\ stage = "pin" /\ tty' = "raw" /\ slot' = slot /\ visit' = visit
      /\ entered' = entered /\ verified' = verified
      /\ stage' = stage /\ run' = run /\ draft' = draft /\ confirmed' = confirmed
      /\ swapped' = swapped
  BY DEF PromptPin, TypePin, OpenTty, Typed
<1>2. TokenInv' /\ StageInv' /\ PinInv'
  BY <1>1 DEF CeremonyInv, TokenInv, StageInv, PinInv
<1>3. DraftInv' /\ CardInv' /\ NameInv'
  BY <1>1 DEF CeremonyInv, DraftInv, CardInv, NameInv, HasDraft
<1> QED
  BY <1>2, <1>3 DEF CeremonyInv

LEMMA EnterPinKeeps ==
  ASSUME CeremonyInv, EnterPin
  PROVE  CeremonyInv'
<1> USE NoVisitFields
<1>1. /\ stage = "pin" /\ tty' = "closed" /\ entered' = entered + 1 /\ slot' = slot
      /\ verified' = verified /\ confirmed' = confirmed /\ swapped' = swapped
  BY DEF EnterPin, CloseTty
<1>2. /\ entered' \in Nat /\ verified' \in Nat /\ verified' <= entered' /\ verified' < entered'
  BY <1>1 DEF CeremonyInv, PinInv
<1>3. CASE run.verb = "selftest-pin"
  BY <1>1, <1>2, <1>3, EndKeeps DEF EnterPin, CeremonyInv
<1>4. CASE run.verb # "selftest-pin"
  <2>1. /\ stage' = "signing" /\ visit' = Dial("sign", run.terminal)
        /\ run' = run /\ draft' = draft
    BY <1>4 DEF EnterPin
  <2>2. run \in Commands /\ run.terminal \in BOOLEAN
    BY <1>1, CommandType DEF CeremonyInv, StageInv
  <2>3. visit' \in Visit /\ visit'.phase = "seeking" /\ visit'.call = "sign"
    BY <2>1, <2>2, DialType
  <2>4. TokenInv'
    BY <1>1, <2>3 DEF CeremonyInv, TokenInv
  <2>5. StageInv' /\ PinInv'
    BY <1>1, <1>2, <2>1, <2>2, <2>3 DEF StageInv, PinInv, Stage
  <2>6. DraftInv'
    BY <1>1, <1>4, <2>1 DEF CeremonyInv, DraftInv, HasDraft
  <2>7. CardInv' /\ NameInv'
    BY <1>1, <1>4, <2>1, <2>3 DEF CeremonyInv, CardInv, NameInv, HasDraft
  <2> QED
    BY <2>4, <2>5, <2>6, <2>7 DEF CeremonyInv
<1> QED
  BY <1>3, <1>4

(* A command ends at the prompt, with a file, without one, or killed. *)
LEMMA EndingKeeps ==
  ASSUME CeremonyInv,
         \/ Decline \/ VisitFailed \/ NoPinEntered \/ Crash
         \/ \E whole \in BOOLEAN : WriteFile(whole)
  PROVE  CeremonyInv'
<1> USE NoVisitFields
<1>1. End /\ slot' = slot /\ entered' = entered /\ verified' = verified
  BY DEF Decline, VisitFailed, NoPinEntered, CloseTty, Crash, WriteFile, outside
<1>2. tty' = "closed"
  <2>1. NoPinEntered \/ Crash => tty' = "closed"
    BY DEF NoPinEntered, CloseTty, Crash
  <2>2. VisitFailed => stage # "pin" /\ tty' = tty
    BY DEF CeremonyInv, StageInv, VisitFailed
  <2>3. Decline \/ (\E whole \in BOOLEAN : WriteFile(whole)) => stage # "pin" /\ tty' = tty
    BY DEF Decline, WriteFile
  <2> QED
    BY <2>1, <2>2, <2>3, TtyClosed DEF CeremonyInv
<1> QED
  BY <1>1, <1>2, EndKeeps DEF CeremonyInv, PinInv

-----------------------------------------------------------------------------
(* THE WORLD, STEP BY STEP *)

LEMMA VisitingKeeps ==
  ASSUME CeremonyInv, Visiting
  PROVE  CeremonyInv'
<1> USE NoVisitFields
<1>1. /\ stage' = stage /\ run' = run /\ draft' = draft /\ confirmed' = confirmed
      /\ files' = files /\ raced' = raced /\ swapped' = swapped
  BY DEF Visiting, aside
<1>2. slot' = slot /\ tty' = tty
  BY DEF Visiting, Connecting, Exchanging
<1>3. /\ visit \in Visit /\ visit' \in Visit /\ visit'.call = visit.call
      /\ TokenInv' /\ PinInv'
      /\ visit'.phase = "answered" =>
           /\ visit.reader \in Reader /\ slot[visit.reader] \in Token
           /\ visit'.answer = slot[visit.reader]
  BY VisitGoesOn DEF CeremonyInv, Visiting
<1>4. visit # NoVisit
  BY <1>3 DEF Visit, Phase, NoVisit
<1>5. StageInv'
  BY <1>1, <1>2, <1>3, <1>4 DEF CeremonyInv, StageInv
<1>6. DraftInv' /\ NameInv'
  BY <1>1 DEF CeremonyInv, DraftInv, HasDraft, NameInv, Exists
<1>7. CardInv'
  <2>1. CASE swapped = TRUE
    BY <1>1, <2>1 DEF CardInv
  <2>2. CASE swapped # TRUE
    <3>1. stage \in {"pin", "signing"} /\ HasDraft =>
            \A r \in Reader : slot[r] \in Token => slot[r] = draft.body.signedBy
      BY <2>2 DEF CeremonyInv, CardInv
    <3>2. stage = "signing" => HasDraft
      BY DEF HasDraft
    <3> QED
      BY <1>1, <1>2, <1>3, <3>1, <3>2 DEF CardInv, HasDraft
  <2> QED
    BY <2>1, <2>2
<1> QED
  BY <1>3, <1>5, <1>6, <1>7 DEF CeremonyInv

LEMMA MovingKeeps ==
  ASSUME CeremonyInv, Moving
  PROVE  CeremonyInv'
<1> USE NoVisitFields
<1>1. /\ stage' = stage /\ run' = run /\ draft' = draft /\ confirmed' = confirmed
      /\ files' = files /\ raced' = raced
      /\ swapped' = (swapped \/ stage \in {"pin", "signing"}
                     \/ (stage = "loading" /\ visit.phase = "answered"))
  BY DEF Moving, aside
<1>2. PICK r \in Reader, c \in Token \cup {Empty, Unplugged} : Move(r, c)
  BY DEF Moving
<1>3. /\ slot' = [slot EXCEPT ![r] = c]
      /\ visit' = IF visit.phase \in {"exchange", "authenticate"} /\ visit.reader = r
                  THEN [visit EXCEPT !.cut = TRUE] ELSE visit
      /\ tty' = tty /\ entered' = entered /\ verified' = verified
  BY <1>2 DEF Move
<1>4. CASE visit' = visit
  <2>1. ~(visit.phase \in {"exchange", "authenticate"} /\ visit.reader = r /\ visit.cut = FALSE)
    <3> SUFFICES ASSUME visit.phase \in {"exchange", "authenticate"}, visit.reader = r,
                        visit.cut = FALSE
                 PROVE  FALSE
      OBVIOUS
    <3>1. visit \in Visit
      BY DEF CeremonyInv, TokenInv
    <3>2. visit' = [visit EXCEPT !.cut = TRUE]
      BY <1>3
    <3>3. visit'.cut = TRUE
      BY <3>1, <3>2 DEF Visit
    <3> QED
      BY <1>4, <3>3
  <2>2. TokenInv'
    <3>1. slot' \in [Reader -> Token \cup {Empty, Unplugged}]
      BY <1>3 DEF CeremonyInv, TokenInv
    <3>2. visit.phase \in {"exchange", "authenticate"} => visit.cut \in BOOLEAN
      BY DEF CeremonyInv, TokenInv, Visit
    <3>3. visit.phase \in {"exchange", "authenticate"} =>
            visit.reader \in Reader /\ (visit.cut \/ slot'[visit.reader] \in Token)
      <4> SUFFICES ASSUME visit.phase \in {"exchange", "authenticate"}, visit.cut = FALSE
                   PROVE  slot'[visit.reader] \in Token
        BY <3>2 DEF CeremonyInv, TokenInv
      <4> QED
        BY <1>3, <2>1 DEF CeremonyInv, TokenInv
    <3> QED
      BY <1>4, <3>1, <3>3 DEF CeremonyInv, TokenInv
  <2>3. StageInv' /\ PinInv'
    BY <1>1, <1>3, <1>4 DEF CeremonyInv, StageInv, PinInv
  <2> QED
    BY <2>2, <2>3, <1>1, <1>4 DEF CeremonyInv, DraftInv, CardInv, NameInv, HasDraft, Exists
<1>5. CASE visit.phase \in {"exchange", "authenticate"} /\ visit.reader = r
  <2>1. visit \in Visit /\ visit' = [visit EXCEPT !.cut = TRUE]
    BY <1>3, <1>5 DEF CeremonyInv, TokenInv
  <2>2. /\ visit' \in Visit /\ visit'.phase = visit.phase /\ visit'.call = visit.call
        /\ visit'.reader = visit.reader /\ visit'.cut = TRUE
    BY <2>1 DEF Visit
  <2>3. TokenInv'
    <3>1. slot' \in [Reader -> Token \cup {Empty, Unplugged}]
      BY <1>3 DEF CeremonyInv, TokenInv
    <3> QED
      BY <1>5, <2>2, <3>1 DEF TokenInv
  <2>4. visit # NoVisit
    BY <1>5
  <2>5. StageInv' /\ PinInv'
    BY <1>1, <1>3, <2>2, <2>4 DEF CeremonyInv, StageInv, PinInv
  <2> QED
    BY <2>2, <2>3, <2>5, <1>1, <1>5 DEF CeremonyInv, DraftInv, CardInv, NameInv, HasDraft, Exists
<1> QED
  BY <1>3, <1>4, <1>5

LEMMA ArrivalKeeps ==
  ASSUME CeremonyInv, Arrival
  PROVE  CeremonyInv'
<1>1. PICK f : Lands(f)
  BY DEF Arrival
<1>2. /\ tokenVars' = tokenVars /\ stage' = stage /\ run' = run /\ draft' = draft
      /\ confirmed' = confirmed /\ swapped' = swapped
      /\ files' = files \cup {f}
      /\ raced' = (raced \/ (stage = "creating" /\ SameName(f, draft)))
  BY <1>1 DEF Lands
<1>3. NameInv'
  <2> SUFFICES ASSUME stage = "creating", raced' # TRUE PROVE ~Exists(draft)'
    BY <1>2 DEF NameInv
  <2>1. ~raced /\ ~SameName(f, draft)
    BY <1>2
  <2>2. ~Exists(draft)
    BY <2>1 DEF CeremonyInv, NameInv
  <2>3. \A g \in files' : ~SameName(g, draft')
    <3>1. \A g \in files : ~SameName(draft, g)
      BY <2>2 DEF Exists
    <3> QED
      BY <1>2, <2>1, <3>1 DEF SameName
  <2> QED
    BY <2>3 DEF Exists, SameName
<1> QED
  BY <1>2, <1>3, AsideKeeps

(* Whatever the command, the person, the readers and the others do. *)
LEMMA StepKeeps ==
  ASSUME CeremonyInv, [Next]_vars
  PROVE  CeremonyInv'
<1>1. CASE \E c \in Commands : Begin(c)
  BY <1>1, BeginKeeps
<1>2. CASE Proceed
  BY <1>2, AssembleKeeps, LoadSignerKeeps, SignedKeeps, CheckNameKeeps, EndingKeeps DEF Proceed
<1>3. CASE Confirm
  BY <1>3, ConfirmKeeps
<1>4. CASE PromptPin \/ TypePin
  BY <1>4, PromptKeeps
<1>5. CASE EnterPin
  BY <1>5, EnterPinKeeps
<1>6. CASE Decline \/ NoPinEntered \/ Crash
  BY <1>6, EndingKeeps
<1>7. CASE Visiting
  BY <1>7, VisitingKeeps
<1>8. CASE Moving
  BY <1>8, MovingKeeps
<1>9. CASE Arrival
  BY <1>9, ArrivalKeeps
<1>10. CASE Tick \/ UNCHANGED vars
  <2>1. /\ tokenVars' = tokenVars /\ stage' = stage /\ run' = run /\ draft' = draft
        /\ confirmed' = confirmed /\ swapped' = swapped /\ files' = files /\ raced' = raced
    BY <1>10 DEF Tick, vars
  <2>2. NameInv'
    BY <2>1 DEF CeremonyInv, NameInv, Exists
  <2> QED
    BY <2>1, <2>2, AsideKeeps
<1> QED
  BY <1>1, <1>2, <1>3, <1>4, <1>5, <1>6, <1>7, <1>8, <1>9, <1>10 DEF Next

LEMMA InitKeeps == Init => CeremonyInv
<1> SUFFICES ASSUME Init PROVE CeremonyInv
  OBVIOUS
<1> USE NoVisitFields, TokenAssumption
<1>1. TokenInv /\ StageInv /\ PinInv
  BY DEF Init, TokenInit, TokenInv, StageInv, PinInv, Stage
<1>2. DraftInv /\ CardInv /\ NameInv
  BY DEF Init, DraftInv, CardInv, NameInv, HasDraft
<1> QED
  BY <1>1, <1>2 DEF CeremonyInv

(* The invariant holds throughout. *)
LEMMA CeremonyInvariant == Spec => []CeremonyInv
BY InitKeeps, StepKeeps, PTL DEF Spec

-----------------------------------------------------------------------------
(* THE THEOREMS *)

(* Every VERIFY that reaches a card was paid for by a PIN typed for it, and   *)
(* the terminal is raw only while a PIN is asked for.                        *)
THEOREM PinIsSpentOnce == Spec => []PinDiscipline
<1>1. CeremonyInv => PinDiscipline
  BY DEF CeremonyInv, PinInv, StageInv, PinDiscipline
<1> QED
  BY <1>1, CeremonyInvariant, PTL

(* A file that is in the folder stays as it is, unless its name was taken    *)
(* between the look and the write.                                           *)
THEOREM FolderOnlyGrows == Spec => NothingIsOverwritten
<1>1. CeremonyInv /\ [Next]_vars => [raced \/ files \subseteq files']_vars
  <2> SUFFICES ASSUME CeremonyInv, Next, ~raced PROVE files \subseteq files'
    OBVIOUS
  <2>1. ASSUME NEW whole \in BOOLEAN, WriteFile(whole) PROVE files \subseteq files'
    <3>1. \A g \in files : ~SameName(g, draft)
      <4>1. ~Exists(draft)
        BY <2>1 DEF CeremonyInv, NameInv, WriteFile
      <4> QED
        BY <4>1 DEF Exists, SameName
    <3> QED
      BY <2>1, <3>1 DEF WriteFile
  <2>2. ASSUME NEW k, LoadSigner(k) PROVE files \subseteq files'
    BY <2>2 DEF LoadSigner, Finish
  <2>3. CASE Signed
    BY <2>3 DEF Signed, Finish
  <2>4. CASE Arrival
    BY <2>4 DEF Arrival, Lands
  <2>5. \/ files' = files \/ Signed \/ Arrival \/ (\E k : LoadSigner(k))
        \/ \E whole \in BOOLEAN : WriteFile(whole)
    BY DEF Next, Proceed, Begin, Visiting, Assemble, VisitFailed, CheckName, Confirm, Decline,
           PromptPin, TypePin, EnterPin, NoPinEntered, Crash, Moving, Tick, aside
  <2> QED
    BY <2>1, <2>2, <2>3, <2>4, <2>5
<1> QED
  BY <1>1, CeremonyInvariant, PTL DEF Spec, NothingIsOverwritten

(* What a command with a preview leaves behind was shown and confirmed, and  *)
(* signed by the key it names unless a card was swapped in between.          *)
THEOREM WhatIsSignedWasShown == Spec => SignedAsShown
<1>1. CeremonyInv /\ [Next]_vars =>
        [\A f \in files' \ files :
           stage' # stage /\ f.verb # "endorsement"
             => f.body \in confirmed /\ (f.genuine \/ swapped)]_vars
  <2> SUFFICES ASSUME CeremonyInv, Next, NEW f \in files' \ files,
                      stage' # stage, f.verb # "endorsement"
               PROVE  f.body \in confirmed /\ (f.genuine = TRUE \/ swapped = TRUE)
    OBVIOUS
  <2>1. ASSUME NEW whole \in BOOLEAN, WriteFile(whole)
        PROVE  f.body \in confirmed /\ (f.genuine = TRUE \/ swapped = TRUE)
    <3>1. f = [draft EXCEPT !.whole = whole] /\ stage = "creating"
      BY <2>1 DEF WriteFile
    <3>2. /\ IsFile(draft) /\ draft.verb = run.verb
          /\ run.verb # "endorsement" => draft.body \in confirmed
          /\ draft.genuine = TRUE \/ swapped = TRUE
      BY <3>1 DEF CeremonyInv, DraftInv, HasDraft
    <3>3. f.verb = draft.verb /\ f.body = draft.body /\ f.genuine = draft.genuine
      BY <3>1, <3>2 DEF IsFile
    <3> QED
      BY <3>2, <3>3
  <2>2. ASSUME NEW k, LoadSigner(k)
        PROVE  f.body \in confirmed /\ (f.genuine = TRUE \/ swapped = TRUE)
    <3>1. stage = "loading" /\ run.verb = "checkpoint-submit" /\ f = draft
      BY <2>2 DEF LoadSigner, Finish
    <3> QED
      BY <3>1 DEF CeremonyInv, DraftInv, HasDraft
  <2>3. CASE Signed
    <3>1. /\ stage = "signing" /\ visit.phase = "answered" /\ run.verb = "checkpoint-submit"
          /\ f = [draft EXCEPT !.genuine = visit.answer = draft.body.signedBy]
      BY <2>3 DEF Signed, Finish
    <3>2. IsFile(draft) /\ draft.verb = run.verb /\ draft.body \in confirmed
      BY <3>1 DEF CeremonyInv, DraftInv, HasDraft
    <3>3. f.body = draft.body /\ f.genuine = (visit.answer = draft.body.signedBy)
      BY <3>1, <3>2 DEF IsFile
    <3>4. swapped = TRUE \/ visit.answer = draft.body.signedBy
      BY <3>1 DEF CeremonyInv, CardInv
    <3> QED
      BY <3>2, <3>3, <3>4
  <2>4. ~Arrival
    BY DEF Arrival, Lands
  <2>5. \/ files' = files \/ Signed \/ Arrival \/ (\E k : LoadSigner(k))
        \/ \E whole \in BOOLEAN : WriteFile(whole)
    BY DEF Next, Proceed, Begin, Visiting, Assemble, VisitFailed, CheckName, Confirm, Decline,
           PromptPin, TypePin, EnterPin, NoPinEntered, Crash, Moving, Tick, aside
  <2> QED
    BY <2>1, <2>2, <2>3, <2>4, <2>5
<1> QED
  BY <1>1, CeremonyInvariant, PTL DEF Spec, SignedAsShown

-----------------------------------------------------------------------------
(* A MANDATE THAT THE VERIFIER WILL ACCEPT *)

(* Files of mandates are as upsert-mandate writes them, one to a name.       *)
FolderInv ==
  /\ now \in Nat /\ IsFiniteSet(files)
  /\ \A f \in files : f.verb = "upsert-mandate" => Written(f)
  /\ \A f, g \in files : f.verb = "upsert-mandate" /\ SameName(f, g) => f = g

(* What the pre-flight leaves of the rules of succession.                    *)
Fits(m, ms) ==
  /\ m.defect = "none" /\ m.signers = {m.signedBy} /\ m.issued < m.expires
  /\ ms # <<>> => /\ m.signedBy \in ToSet(Last(ms).successors) /\ Last(ms).threshold <= 1
                  /\ m.expires <= m.issued + Last(ms).maxDuration

(* No file of a mandate has this id. *)
Fresh(id) == \A f \in files : f.verb = "upsert-mandate" => f.body.id # id

(* A draft fits the log that was read, and its id is its own.                *)
MandateInv ==
  stage # "idle" /\ run.verb = "upsert-mandate" =>
    /\ log \in Seq(Mandate)
    /\ HasDraft => /\ Written(draft) /\ Fits(draft.body, log)
                   /\ draft.body.id \notin ForeignId /\ Fresh(draft.body.id)

RenewalInv == CeremonyInv /\ FolderInv /\ MandateInv

(* The mandates of a track's files. *)
Contents(fs, t) == {Content(f) : f \in MandateFiles(fs, t)}

(* A file that was written holds a mandate of its name, whoever signed it.   *)
LEMMA ContentType ==
  ASSUME NEW f, Written(f)
  PROVE  /\ Content(f) \in Mandate /\ Content(f).defect \in {"none", "signature"}
         /\ Content(f).issued = f.body.issued /\ Content(f).id = f.body.id
         /\ Content(f).track = f.body.track /\ Content(f).threshold >= 1
         /\ f.genuine = TRUE /\ f.body.defect = "none" => Content(f) = f.body
<1>1. PICK m, d : m = f.body /\ d = (IF f.genuine THEN "none" ELSE "signature")
  OBVIOUS
<1>2. m \in Mandate /\ m.threshold >= 1 /\ d \in {"none", "signature"}
  BY <1>1 DEF Written
<1>3. Content(f) = [m EXCEPT !.defect = d]
  BY <1>1 DEF Content
<1>4. /\ [m EXCEPT !.defect = d] \in Mandate /\ [m EXCEPT !.defect = d].defect = d
      /\ [m EXCEPT !.defect = d].issued = m.issued /\ [m EXCEPT !.defect = d].id = m.id
      /\ [m EXCEPT !.defect = d].track = m.track
      /\ [m EXCEPT !.defect = d].threshold = m.threshold
      /\ m.defect = d => [m EXCEPT !.defect = d] = m
  BY <1>2 DEF Mandate, Defect
<1>5. f.genuine = TRUE => d = "none"
  BY <1>1
<1> QED
  BY <1>1, <1>2, <1>3, <1>4, <1>5

(* The folder of a track is read as a log of its mandates.                   *)
LEMMA FolderReads ==
  ASSUME FolderInv, NEW t
  PROVE  /\ IsFolder(Contents(files, t))
         /\ ReadMandates(files, t) = InNameOrder(Contents(files, t))
         /\ ReadMandates(files, t) \in Seq(Mandate)
<1> DEFINE F == MandateFiles(files, t)
           C == Contents(files, t)
<1>1. /\ \A f \in F : f \in files /\ f.verb = "upsert-mandate" /\ Written(f)
      /\ IsFiniteSet(F)
  BY FS_Subset DEF FolderInv, MandateFiles
<1>2. Id \subseteq Nat
  BY CeremonyAssumption
<1>3. IsFiniteSet(C)
  <2> DEFINE content == [f \in F |-> Content(f)]
  <2>1. C = {content[f] : f \in F}
    BY DEF Contents
  <2>2. content \in Surjection(F, C)
    BY <2>1 DEF Surjection
  <2> HIDE DEF content, F, C
  <2> QED
    BY <1>1, <2>2, FS_Surjection
<1>4. C \subseteq Mandate
  BY <1>1, ContentType DEF Contents
<1>5. ASSUME NEW m \in C, NEW n \in C, m.issued = n.issued, m.id = n.id PROVE m = n
  <2>1. PICK f \in F, g \in F : m = Content(f) /\ n = Content(g)
    BY DEF Contents
  <2>2. /\ f.name = <<f.body.issued, f.body.id>> /\ g.name = <<g.body.issued, g.body.id>>
        /\ f.body.issued = g.body.issued /\ f.body.id = g.body.id
    BY <1>1, <1>5, <2>1, ContentType DEF Written
  <2>3. SameName(f, g)
    BY <1>1, <2>2 DEF SameName
  <2>4. f = g
    BY <1>1, <2>3 DEF FolderInv
  <2> QED
    BY <2>1, <2>4
<1>6. IsFolder(C)
  BY <1>2, <1>3, <1>4, <1>5 DEF IsFolder
<1>7. ReadMandates(files, t) = InNameOrder(C)
  BY DEF ReadMandates, Contents
<1> HIDE DEF C
<1>8. InNameOrder(C) \in Seq(Mandate)
  BY <1>6, NamePlaces
<1> QED
  BY <1>6, <1>7, <1>8 DEF C

(* The pre-flight of a command yields a mandate that fits the log it read.   *)
LEMMA AssembledFits ==
  ASSUME NEW c \in Commands \cup Foreign, c.verb = "upsert-mandate",
         NEW ms \in Seq(Mandate), NEW k \in Key, NEW t \in Nat, NEW id \in Id,
         NEW a, a = AssembleMandate(c, ms, k, t, id), a.ok
  PROVE  Written(a.file) /\ Fits(a.file.body, ms) /\ a.file.body.id = id
<1> DEFINE m == NewMandate(c, ms, k, t, id)
           f == a.file
<1>1. /\ c.track \in Track /\ c.holder \in Key \cup {Signer}
      /\ c.successors \in Seq(Key) \cup {Unset} /\ c.threshold \in Nat \cup {Unset}
      /\ c.minSuccessors \in Nat \cup {Unset} /\ c.window \in Nat /\ c.window # 0
      /\ c.maxWindow \in Nat \cup {Unset}
  BY CeremonyAssumption DEF Command
<1>2. ms # <<>> =>
        /\ Last(ms).successors \in Seq(Key) /\ Last(ms).threshold \in Nat
        /\ Last(ms).minSuccessors \in Nat /\ Last(ms).maxDuration \in Nat
  <2> SUFFICES ASSUME ms # <<>>
               PROVE  /\ Last(ms).successors \in Seq(Key) /\ Last(ms).threshold \in Nat
                      /\ Last(ms).minSuccessors \in Nat /\ Last(ms).maxDuration \in Nat
    OBVIOUS
  <2>1. PICK p : p = Last(ms)
    OBVIOUS
  <2>2. p \in Mandate
    <3> HIDE DEF Mandate
    <3> QED
      BY <2>1 DEF Last
  <2> QED
    BY <2>1, <2>2 DEF Mandate
<1>3. HolderOf(c, k) \in Key
  BY <1>1 DEF HolderOf
<1>4. <<HolderOf(c, k)>> \in Seq(Key)
  BY <1>3
<1>5. ASSUME NEW S, NEW v \in S \cup {Unset}, NEW w \in S PROVE Given(v, w) \in S
  BY <1>5 DEF Given
<1>6. /\ m.id = id /\ m.track = c.track /\ m.issued = t /\ m.expires = t + c.window
      /\ m.signedBy = k /\ m.signers = {k} /\ m.defect = "none"
  BY DEF NewMandate
<1>7. m \in Mandate
  <2> DEFINE root == ms = <<>>
             pred == Last(ms)
  <2>1. /\ (IF root THEN <<HolderOf(c, k)>> ELSE pred.successors) \in Seq(Key)
        /\ (IF root THEN 1 ELSE pred.threshold) \in Nat
        /\ (IF root THEN 1 ELSE pred.minSuccessors) \in Nat
        /\ (IF root THEN c.window ELSE pred.maxDuration) \in Nat
    BY <1>1, <1>2, <1>4
  <2>2. PICK who \in Seq(Key), b \in Nat, d \in Nat, e \in Nat :
          /\ who = (IF root THEN <<HolderOf(c, k)>> ELSE pred.successors)
          /\ b = (IF root THEN 1 ELSE pred.threshold)
          /\ d = (IF root THEN 1 ELSE pred.minSuccessors)
          /\ e = (IF root THEN c.window ELSE pred.maxDuration)
    BY <2>1
  <2>3. /\ Given(c.successors, who) \in Seq(Key) /\ Given(c.threshold, b) \in Nat
        /\ Given(c.minSuccessors, d) \in Nat /\ Given(c.maxWindow, e) \in Nat
    BY <1>1, <1>5
  <2>4. m = [id |-> id, track |-> c.track, holder |-> HolderOf(c, k),
             issued |-> t, expires |-> t + c.window,
             successors |-> Given(c.successors, who), threshold |-> Given(c.threshold, b),
             minSuccessors |-> Given(c.minSuccessors, d),
             maxDuration |-> Given(c.maxWindow, e),
             signedBy |-> k, signers |-> {k}, defect |-> "none"]
    BY <2>2 DEF NewMandate
  <2>5. t + c.window \in Nat /\ {k} \in SUBSET Key /\ "none" \in Defect
    BY <1>1 DEF Defect
  <2> HIDE DEF m
  <2> QED
    BY <1>1, <1>3, <2>3, <2>4, <2>5 DEF Mandate
<1>8. f = File(c, <<t, id>>, m)
  BY DEF AssembleMandate
<1>9. f.verb = "upsert-mandate" /\ f.name = <<t, id>> /\ f.body = m /\ f.genuine = TRUE
  BY <1>8 DEF File
<1>10. /\ Passes(TermRules(m))
       /\ ms # <<>> => Passes(SuccessionRules(c, Last(ms), k, t))
  BY DEF AssembleMandate
<1>11. m.threshold >= 1
  <2>1. 1 \in DOMAIN TermRules(m) /\ TermRules(m)[1] = Rule("threshold", m.threshold >= 1)
    BY DEF TermRules
  <2>2. Rule("threshold", m.threshold >= 1) = "ok"
    BY <1>10, <2>1 DEF Passes
  <2> QED
    BY <2>2 DEF Rule
<1>12. ASSUME ms # <<>>
       PROVE  /\ k \in ToSet(Last(ms).successors) /\ Last(ms).threshold <= 1
              /\ c.window <= Last(ms).maxDuration
  <2> DEFINE R == SuccessionRules(c, Last(ms), k, t)
  <2>1. /\ DOMAIN R = 1 .. 4
        /\ R[1] = Rule("not a named successor", k \in ToSet(Last(ms).successors))
        /\ R[2] = Rule("needs a quorum", Last(ms).threshold <= 1)
        /\ R[3] = Rule("window too long", c.window <= Last(ms).maxDuration)
    BY DEF SuccessionRules
  <2>2. Passes(R)
    BY <1>10, <1>12
  <2> HIDE DEF R
  <2>3. R[1] = "ok" /\ R[2] = "ok" /\ R[3] = "ok"
    <3>1. \A j \in 1 .. 4 : R[j] = "ok"
      BY <2>1, <2>2 DEF Passes
    <3> QED
      BY <3>1
  <2> QED
    BY <2>1, <2>3 DEF Rule
<1> HIDE DEF m, f
<1>13. Written(f)
  BY <1>6, <1>7, <1>9, <1>11 DEF Written
<1>14. Fits(m, ms)
  <2>1. t < t + c.window
    BY <1>1
  <2>2. ms # <<>> => t + c.window <= t + Last(ms).maxDuration
    BY <1>1, <1>2, <1>12
  <2> QED
    BY <1>6, <1>12, <2>1, <2>2 DEF Fits
<1> QED
  BY <1>6, <1>9, <1>13, <1>14 DEF f

(* What fits, comes last by its name and names enough successors passes      *)
(* every rule that the last mandate of the log has for its successor.        *)
LEMMA RulesPass ==
  ASSUME NEW pred \in Mandate, pred.threshold >= 1, NEW m \in Mandate, m.track = pred.track,
         m.defect = "none", m.signers = {m.signedBy}, m.issued < m.expires,
         m.signedBy \in ToSet(pred.successors), pred.threshold <= 1,
         m.expires <= m.issued + pred.maxDuration, EarlierName(pred, m),
         Len(m.successors) >= pred.minSuccessors
  PROVE  Passes(ForwardRules(pred, m))
<1> DEFINE R == ForwardRules(pred, m)
<1>1. pred.issued <= m.issued
  BY DEF EarlierName, Mandate
<1>2. AllSignaturesValid(m)
  BY DEF AllSignaturesValid
<1>3. /\ m.signedBy \in m.signers /\ m.signers \subseteq ToSet(pred.successors)
      /\ Cardinality(m.signers \cap ToSet(pred.successors)) >= pred.threshold
  <2>1. m.signers \cap ToSet(pred.successors) = {m.signedBy}
    OBVIOUS
  <2>2. Cardinality({m.signedBy}) = 1
    BY FS_Singleton
  <2>3. 1 >= pred.threshold
    BY DEF Mandate
  <2> QED
    BY <2>1, <2>2, <2>3
<1> QED
  BY <1>1, <1>2, <1>3 DEF Passes, ForwardRules, Rule

(* A file that fits a log which verifies, and comes last, verifies with it.  *)
LEMMA RenewalVerifies ==
  ASSUME FolderInv, NEW f, Written(f), f.verb = "upsert-mandate", f.whole = TRUE,
         f.genuine = TRUE, NEW ms, ms = ReadMandates(files, f.body.track),
         Fits(f.body, ms), Fresh(f.body.id), VerifyOk(files, f.body.track),
         EarlierName(Last(ms), f.body), Len(f.body.successors) >= Last(ms).minSuccessors
  PROVE  VerifyOk(files \cup {f}, f.body.track)
<1> DEFINE t == f.body.track
           m == f.body
           C == Contents(files, t)
           c == TrackChain(ms)
<1>1. /\ Readable(files, t) /\ c.accepted # <<>> /\ c.rejections = <<>>
  BY DEF VerifyOk
<1>2. IsFolder(C) /\ ms = InNameOrder(C) /\ ms \in Seq(Mandate)
  BY FolderReads
<1>3. m \in Mandate /\ Content(f) = m
  BY ContentType DEF Written, Fits
<1>4. ASSUME NEW k \in C
      PROVE  /\ k \in Mandate /\ k.track = t /\ k.defect \notin {"shape", "bytes"}
             /\ k.threshold >= 1 /\ k.id # m.id
  <2>1. PICK g \in MandateFiles(files, t) : k = Content(g)
    BY DEF Contents
  <2>2. g \in files /\ g.verb = "upsert-mandate" /\ g.body.track = t
    BY DEF MandateFiles
  <2>3. Written(g) /\ g.body.id # m.id
    BY <2>2 DEF FolderInv, Fresh
  <2> QED
    BY <2>1, <2>2, <2>3, ContentType
<1> HIDE DEF c, m
<1>5. ms # <<>>
  BY <1>1 DEF c, TrackChain, EmptyChain
<1>6. C # {}
  <2>1. Len(InNameOrder({})) = Cardinality({}) \/ C # {}
    BY <1>2, NamePlaces
  <2> SUFFICES ASSUME C = {} PROVE FALSE
    OBVIOUS
  <2>2. Len(ms) = 0
    BY <1>2, <2>1, FS_EmptySet
  <2> QED
    BY <1>2, <1>5, <2>2
<1> DEFINE l == Last(ms)
<1> HIDE DEF C
<1>7. l \in C /\ \A k \in C : k = l \/ EarlierName(k, l)
  BY <1>2, <1>6, LatestIsLast
<1>8. \A k \in C : EarlierName(k, m)
  <2>1. Id \subseteq Nat
    BY CeremonyAssumption
  <2>2. \A k \in Mandate : k.issued \in Nat /\ k.id \in Nat
    BY <2>1 DEF Mandate
  <2>3. EarlierName(l, m)
    BY DEF m
  <2> HIDE DEF l
  <2> QED
    BY <1>3, <1>4, <1>7, <2>2, <2>3 DEF EarlierName
<1>9. InNameOrder(C \cup {m}) = Append(ms, m)
  BY <1>2, <1>3, <1>8, NameOrderAppend
<1>10. ReadMandates(files \cup {f}, t) = Append(ms, m)
  <2>1. MandateFiles(files \cup {f}, t) = MandateFiles(files, t) \cup {f}
    BY DEF MandateFiles
  <2>2. {Content(g) : g \in MandateFiles(files \cup {f}, t)} = C \cup {m}
    BY <1>3, <2>1 DEF C, Contents
  <2> QED
    BY <1>9, <2>2 DEF ReadMandates
<1>11. \A j \in DOMAIN ms : ms[j] \in C
  BY <1>2, NamePlaces
<1> DEFINE pin == PinHash(ms[1])
<1>12. c = VerifyMandateChainFromPin(pin, ms) /\ c \in VerifiedChain
  BY <1>2, <1>5, VerifyType DEF c, TrackChain
<1>13. c.accepted = ms
  <2>1. \A j \in DOMAIN ms : ms[j].track = t /\ ms[j].defect \notin {"shape", "bytes"}
    BY <1>4, <1>11
  <2> HIDE DEF t
  <2> QED
    BY <1>1, <1>2, <1>5, <1>12, <2>1, NoneRejected
<1>14. Consume(pin, c, m) = [c EXCEPT !.accepted = Append(@, m)]
  <2>1. Head(ms) \in C /\ m.track = t
    <3>1. Head(ms) = ms[1] /\ 1 \in DOMAIN ms
      <4> HIDE DEF Mandate
      <4> QED
        BY <1>2, <1>5
    <3> QED
      BY <1>11, <3>1 DEF m
  <2>2. m.track = Head(c.accepted).track /\ m.defect # "shape"
    BY <1>4, <1>13, <2>1 DEF m, Fits
  <2>3. m.id \notin AcceptedIds(c)
    BY <1>4, <1>11, <1>13 DEF AcceptedIds
  <2>4. Passes(ForwardRules(Last(c.accepted), m))
    <3>1. l \in Mandate /\ l.threshold >= 1 /\ l.track = t
      BY <1>4, <1>7
    <3>2. /\ m.defect = "none" /\ m.signers = {m.signedBy} /\ m.issued < m.expires
          /\ m.signedBy \in ToSet(l.successors) /\ l.threshold <= 1
          /\ m.expires <= m.issued + l.maxDuration
      BY <1>5 DEF m, Fits
    <3>3. EarlierName(l, m) /\ Len(m.successors) >= l.minSuccessors
      BY DEF m
    <3> HIDE DEF l
    <3>4. Passes(ForwardRules(l, m))
      BY <1>3, <2>1, <3>1, <3>2, <3>3, RulesPass
    <3> QED
      BY <1>13, <3>4 DEF l
  <2> QED
    BY <1>5, <1>13, <2>2, <2>3, <2>4 DEF Consume, WalkForward
<1>15. TrackChain(Append(ms, m)) = Consume(pin, c, m)
  <2>1. Append(ms, m) # <<>> /\ Append(ms, m)[1] = ms[1]
    <3> HIDE DEF Mandate
    <3> QED
      BY <1>2, <1>5
  <2>2. VerifyMandateChainFromPin(pin, Append(ms, m)) = Consume(pin, c, m)
    BY <1>2, <1>3, <1>12, VerifyAppend
  <2> QED
    BY <2>1, <2>2 DEF TrackChain
<1>16. TrackChain(Append(ms, m)).accepted # <<>> /\ TrackChain(Append(ms, m)).rejections = <<>>
  <2>1. /\ [c EXCEPT !.accepted = Append(@, m)].accepted = Append(c.accepted, m)
        /\ [c EXCEPT !.accepted = Append(@, m)].rejections = c.rejections
    BY <1>12 DEF VerifiedChain
  <2>2. Append(ms, m) # <<>>
    <3> HIDE DEF Mandate
    <3> QED
      BY <1>2
  <2> QED
    BY <1>1, <1>13, <1>14, <1>15, <2>1, <2>2
<1>17. Readable(files \cup {f}, t)
  BY <1>1 DEF Readable, MandateFiles
<1> QED
  BY <1>10, <1>16, <1>17 DEF VerifyOk

-----------------------------------------------------------------------------
(* THE DRAFT, STEP BY STEP *)

(* A file under a name of its own keeps the folder in order.                 *)
LEMMA FolderKeeps ==
  ASSUME FolderInv, now' = now, NEW gs \in SUBSET files, NEW f, files' = gs \cup {f},
         f.verb = "upsert-mandate" => Written(f) /\ \A g \in gs : ~SameName(g, f)
  PROVE  FolderInv'
<1>1. IsFiniteSet(gs \cup {f})
  BY FS_Subset, FS_AddElement DEF FolderInv
<1>2. ASSUME NEW g \in gs \cup {f}, NEW h \in gs \cup {f}, g.verb = "upsert-mandate"
      PROVE  Written(g) /\ (SameName(g, h) => g = h)
  BY <1>2 DEF FolderInv, SameName
<1>3. Written(f)' <=> Written(f)
  BY DEF Written
<1>4. \A g \in files' : g.verb = "upsert-mandate" => Written(g)
  BY <1>2
<1> QED
  BY <1>1, <1>2, <1>4 DEF FolderInv, Written, SameName

LEMMA FolderSame ==
  ASSUME FolderInv, now' \in Nat, files' = files
  PROVE  FolderInv'
BY DEF FolderInv, Written, SameName

(* A step that leaves the draft's content, the log and the folder alone.     *)
LEMMA DraftSame ==
  ASSUME MandateInv, files' = files, run' = run, log' = log, stage # "idle",
         run.verb = "upsert-mandate" /\ HasDraft' =>
           /\ HasDraft /\ draft'.body = draft.body /\ draft'.name = draft.name
           /\ draft'.genuine \in BOOLEAN
  PROVE  MandateInv'
<1> SUFFICES ASSUME run.verb = "upsert-mandate", HasDraft'
             PROVE  /\ Written(draft') /\ Fits(draft'.body, log)
                    /\ draft'.body.id \notin ForeignId /\ Fresh(draft'.body.id)
  BY DEF MandateInv, Fresh, Written, Fits
<1>1. /\ Written(draft) /\ Fits(draft.body, log) /\ draft.body.id \notin ForeignId
      /\ Fresh(draft.body.id)
  BY DEF MandateInv
<1> QED
  BY <1>1 DEF Written

(* The process ends, with or without a file. *)
LEMMA EndIsFine ==
  ASSUME End PROVE MandateInv'
BY DEF End, MandateInv

LEMMA BeginReads ==
  ASSUME RenewalInv, NEW c \in Commands, Begin(c)
  PROVE  FolderInv' /\ MandateInv'
<1>1. /\ files' = files /\ now' = now /\ run' = c /\ ReadsItsLog(c)
      /\ stage' = CASE c.verb = "endorsement" -> "loading"
                     [] c.verb = "selftest-pin" -> "pin"
                     [] OTHER -> "binding"
  BY DEF Begin, outside
<1>2. FolderInv'
  BY <1>1, FolderSame DEF RenewalInv, FolderInv
<1>3. ASSUME c.verb = "upsert-mandate" PROVE log' \in Seq(Mandate) /\ stage' = "binding"
  <2>1. log' = ReadMandates(files, c.track)
    BY <1>1, <1>3 DEF ReadsItsLog
  <2> QED
    BY <1>1, <1>3, <2>1, FolderReads DEF RenewalInv
<1>4. MandateInv'
  BY <1>1, <1>3 DEF MandateInv, HasDraft
<1> QED
  BY <1>2, <1>4

LEMMA AssembleFits ==
  ASSUME RenewalInv, NEW k \in Key, Assemble(k)
  PROVE  FolderInv' /\ MandateInv'
<1>1. /\ stage = "binding" /\ files' = files /\ now' = now /\ run \in Commands
      /\ run.verb \in {"upsert-mandate", "ca-endorsement", "create-key", "checkpoint-submit"}
  BY DEF RenewalInv, CeremonyInv, StageInv, DraftInv, Assemble, outside
<1>2. FolderInv'
  BY <1>1, FolderSame DEF RenewalInv, FolderInv
<1>3. CASE run.verb # "upsert-mandate"
  <2>1. End \/ \E f : Preview(f)
    BY <1>1, <1>3 DEF Assemble, AssembleLease
  <2>2. End \/ run' = run
    BY <2>1 DEF Preview
  <2> QED
    BY <1>2, <1>3, <2>2, EndIsFine DEF MandateInv
<1>4. CASE run.verb = "upsert-mandate"
  <2>1. PICK id \in Id \ (ForeignId \cup UsedIds) :
          LET a == AssembleMandate(run, log, k, now, id)
          IN  IF a.ok THEN Preview(a.file) ELSE End
    BY <1>4 DEF Assemble
  <2>2. PICK a : a = AssembleMandate(run, log, k, now, id)
    OBVIOUS
  <2>3. End \/ (a.ok /\ Preview(a.file))
    BY <2>1, <2>2
  <2>4. ASSUME a.ok, Preview(a.file), ~End PROVE MandateInv'
    <3>1. draft' = a.file /\ stage' = "confirming" /\ run' = run /\ log' = log
      BY <2>4 DEF Preview
    <3>2. log \in Seq(Mandate) /\ now \in Nat
      BY <1>1, <1>4 DEF RenewalInv, MandateInv, FolderInv
    <3>3. /\ Written(a.file) /\ Fits(a.file.body, log) /\ a.file.body.id = id
      <4>1. PICK c, ms, t : c = run /\ ms = log /\ t = now
        OBVIOUS
      <4>2. /\ c \in Commands \cup Foreign /\ c.verb = "upsert-mandate"
            /\ ms \in Seq(Mandate) /\ t \in Nat /\ id \in Id
            /\ a = AssembleMandate(c, ms, k, t, id) /\ a.ok
        BY <1>1, <1>4, <2>1, <2>2, <2>4, <3>2, <4>1
      <4>3. Written(a.file) /\ Fits(a.file.body, ms) /\ a.file.body.id = id
        BY <4>2, AssembledFits
      <4> QED
        BY <4>1, <4>3
    <3>4. Fresh(id)
      BY <2>1 DEF UsedIds, Fresh
    <3>5. /\ Written(draft') /\ Fits(draft'.body, log') /\ draft'.body.id \notin ForeignId
          /\ log' \in Seq(Mandate)
          /\ \A f \in files' : f.verb = "upsert-mandate" => f.body.id # draft'.body.id
      BY <1>1, <2>1, <3>1, <3>2, <3>3, <3>4 DEF Fresh
    <3> QED
      BY <3>5 DEF MandateInv, Fresh, Written, Fits
  <2> QED
    BY <1>2, <2>3, <2>4, EndIsFine
<1> QED
  BY <1>3, <1>4

(* The signature is made: by a key in a file at once, or by the token.       *)
LEMMA SigningFits ==
  ASSUME RenewalInv, (\E k : LoadSigner(k)) \/ Signed
  PROVE  FolderInv' /\ MandateInv'
<1>1. now' = now /\ now \in Nat /\ stage # "idle"
  BY DEF RenewalInv, FolderInv, LoadSigner, Signed, outside
<1>2. PICK f : /\ \/ End /\ files' = files
                  \/ /\ draft' = f /\ stage' = "pin" /\ UNCHANGED <<files, run, log>>
                  \/ Finish(f)
               /\ \/ stage = "loading" /\ (f = draft \/ run.verb = "endorsement")
                  \/ /\ stage = "signing"
                     /\ f = [draft EXCEPT !.genuine = visit.answer = draft.body.signedBy]
  <2>1. CASE \E k : LoadSigner(k)
    <3>1. PICK k, f : /\ LoadSigner(k)
                      /\ f = IF run.verb = "endorsement" THEN BuildEndorsement(run, k)
                             ELSE draft
      BY <2>1
    <3>2. /\ stage = "loading"
          /\ IF k # f.body.signedBy THEN End /\ UNCHANGED files
             ELSE IF run.source = Piv
             THEN /\ draft' = f /\ stage' = "pin" /\ visit' = NoVisit
                  /\ UNCHANGED <<files, run, log>>
             ELSE Finish(f)
      BY <3>1 DEF LoadSigner
    <3>3. f = draft \/ run.verb = "endorsement"
      BY <3>1
    <3> QED
      BY <3>2, <3>3
  <2>2. CASE Signed
    BY <2>2 DEF Signed
  <2> QED
    BY <2>1, <2>2
<1>3. CASE End /\ files' = files
  BY <1>1, <1>3, FolderSame, EndIsFine DEF RenewalInv
<1>4. CASE run.verb = "upsert-mandate" /\ ~(End /\ files' = files)
  <2>1. /\ files' = files /\ run' = run /\ log' = log /\ draft' = f
        /\ stage' \in {"pin", "checking"}
    BY <1>2, <1>4 DEF Finish
  <2>2. /\ HasDraft /\ IsFile(draft) /\ Written(draft)
        /\ f.body = draft.body /\ f.name = draft.name /\ f.genuine \in BOOLEAN
    <3>1. HasDraft
      BY <1>2, <1>4 DEF HasDraft
    <3>2. IsFile(draft) /\ Written(draft)
      BY <1>1, <1>4, <3>1 DEF RenewalInv, CeremonyInv, DraftInv, MandateInv
    <3>3. draft.genuine \in BOOLEAN
      BY <3>2 DEF Written
    <3>4. f = draft \/ f = [draft EXCEPT !.genuine = visit.answer = draft.body.signedBy]
      BY <1>2, <1>4
    <3> QED
      BY <3>1, <3>2, <3>3, <3>4 DEF IsFile
  <2> QED
    BY <1>1, <2>1, <2>2, FolderSame, DraftSame DEF RenewalInv
<1>5. CASE run.verb # "upsert-mandate" /\ ~(End /\ files' = files)
  <2>1. \/ files' = files /\ run' = run
        \/ files' = files \cup {f} /\ End /\ run.verb = "checkpoint-submit"
    BY <1>2, <1>5 DEF Finish
  <2>2. CASE files' = files /\ run' = run
    BY <1>1, <1>5, <2>2, FolderSame DEF RenewalInv, MandateInv
  <2>3. CASE files' = files \cup {f} /\ End /\ run.verb = "checkpoint-submit"
    <3>1. HasDraft
      BY <1>2, <2>3 DEF HasDraft
    <3>2. IsFile(draft) /\ draft.verb = "checkpoint-submit"
      BY <2>3, <3>1 DEF RenewalInv, CeremonyInv, DraftInv
    <3>3. f.verb = "checkpoint-submit"
      BY <1>2, <2>3, <3>2 DEF IsFile
    <3> QED
      BY <1>1, <2>3, <3>3, FolderKeeps, EndIsFine DEF RenewalInv
  <2> QED
    BY <2>1, <2>2, <2>3
<1> QED
  BY <1>3, <1>4, <1>5

(* The file is written. *)
LEMMA WriteFits ==
  ASSUME RenewalInv, NEW whole \in BOOLEAN, WriteFile(whole)
  PROVE  FolderInv' /\ MandateInv'
<1>1. PICK f, gs : /\ f = [draft EXCEPT !.whole = whole]
                   /\ gs = {g \in files : ~SameName(g, draft)}
  OBVIOUS
<1>2. /\ stage = "creating" /\ End /\ now' = now /\ files' = gs \cup {f}
      /\ gs \in SUBSET files
  BY <1>1 DEF WriteFile, outside
<1>3. IsFile(draft) /\ draft.verb = run.verb
  BY <1>2 DEF RenewalInv, CeremonyInv, DraftInv, HasDraft
<1>4. /\ f.verb = draft.verb /\ f.name = draft.name /\ f.body = draft.body
      /\ f.genuine = draft.genuine
  BY <1>1, <1>3 DEF IsFile
<1>5. run.verb = "upsert-mandate" => Written(f)
  <2>1. run.verb = "upsert-mandate" => Written(draft)
    BY <1>2 DEF RenewalInv, MandateInv, HasDraft
  <2> QED
    BY <1>4, <2>1 DEF Written
<1>6. \A g \in gs : ~SameName(g, f)
  BY <1>1, <1>4 DEF SameName
<1> QED
  BY <1>2, <1>3, <1>4, <1>5, <1>6, FolderKeeps, EndIsFine DEF RenewalInv

(* What arrives has an id of its own.                                        *)
LEMMA ArrivalFits ==
  ASSUME RenewalInv, Arrival
  PROVE  FolderInv' /\ MandateInv'
<1>1. PICK f : /\ Lands(f)
               /\ f.verb = "upsert-mandate" => Written(f) /\ f.body.id \in ForeignId
  <2>1. PICK c \in Foreign :
          \/ /\ c.verb = "upsert-mandate"
             /\ \E id \in ForeignId \ UsedIds :
                  LET a == AssembleMandate(c, ReadMandates(files, c.track), c.source, now, id)
                  IN  a.ok /\ Lands(a.file)
          \/ c.verb = "create-key" /\ Lands(AssembleCreateKey(c, c.source))
    BY DEF Arrival
  <2>2. CASE c.verb = "create-key" /\ Lands(AssembleCreateKey(c, c.source))
    <3>1. AssembleCreateKey(c, c.source).verb = "create-key"
      BY <2>2 DEF AssembleCreateKey, Statement, File
    <3> QED
      BY <2>2, <3>1
  <2>3. CASE c.verb = "upsert-mandate"
    <3>1. PICK id, a :
            /\ id \in ForeignId
            /\ a = AssembleMandate(c, ReadMandates(files, c.track), c.source, now, id)
            /\ a.ok /\ Lands(a.file)
      BY <2>1, <2>3
    <3>2. c.source \in Key /\ id \in Id /\ now \in Nat
      BY <3>1, CeremonyAssumption DEF Command, RenewalInv, FolderInv
    <3>3. ReadMandates(files, c.track) \in Seq(Mandate)
      BY FolderReads DEF RenewalInv
    <3>4. Written(a.file) /\ a.file.body.id = id
      BY <2>3, <3>1, <3>2, <3>3, AssembledFits
    <3> QED
      BY <3>1, <3>4
  <2> QED
    BY <2>1, <2>2, <2>3
<1>2. /\ ~Exists(f) /\ files' = files \cup {f} /\ now' = now /\ stage' = stage
      /\ run' = run /\ log' = log /\ draft' = draft
  BY <1>1 DEF Lands
<1>3. FolderInv'
  <2>1. \A g \in files : ~SameName(g, f)
    BY <1>2 DEF Exists, SameName
  <2>2. files \in SUBSET files
    OBVIOUS
  <2> QED
    BY <1>1, <1>2, <2>1, <2>2, FolderKeeps DEF RenewalInv
<1>4. MandateInv'
  <2> SUFFICES ASSUME stage # "idle", run.verb = "upsert-mandate", HasDraft
               PROVE  Fresh(draft.body.id)'
    BY <1>2 DEF RenewalInv, MandateInv, HasDraft, Written, Fits
  <2>1. draft.body.id \notin ForeignId /\ Fresh(draft.body.id)
    BY DEF RenewalInv, MandateInv
  <2> QED
    BY <1>1, <1>2, <2>1 DEF Fresh
<1> QED
  BY <1>3, <1>4

LEMMA RenewalKeeps ==
  ASSUME RenewalInv, [Next]_vars
  PROVE  RenewalInv'
<1>1. CeremonyInv'
  BY StepKeeps DEF RenewalInv
<1>2. ASSUME files' = files, now' = now, End PROVE FolderInv' /\ MandateInv'
  BY <1>2, FolderSame, EndIsFine DEF RenewalInv, FolderInv
<1>3. ASSUME files' = files, now' \in Nat, run' = run, log' = log, draft' = draft,
             HasDraft' => HasDraft, stage # "idle" \/ stage' = "idle"
      PROVE  FolderInv' /\ MandateInv'
  <2>1. FolderInv'
    BY <1>3, FolderSame DEF RenewalInv
  <2>2. run.verb = "upsert-mandate" /\ stage # "idle" /\ HasDraft => draft.genuine \in BOOLEAN
    BY DEF RenewalInv, MandateInv, Written
  <2>3. stage # "idle" => MandateInv'
    BY <1>3, <2>2, DraftSame DEF RenewalInv
  <2>4. stage' = "idle" => MandateInv'
    BY DEF MandateInv
  <2> QED
    BY <1>3, <2>1, <2>3, <2>4
<1>4. now \in Nat
  BY DEF RenewalInv, FolderInv
<1>5. CASE \E c \in Commands : Begin(c)
  BY <1>1, <1>5, BeginReads DEF RenewalInv
<1>6. CASE Proceed
  <2>1. CASE \E k \in Key : Assemble(k)
    BY <1>1, <2>1, AssembleFits DEF RenewalInv
  <2>2. CASE (\E k \in Key : LoadSigner(k)) \/ Signed
    BY <1>1, <2>2, SigningFits DEF RenewalInv
  <2>3. CASE VisitFailed
    BY <1>1, <1>2, <2>3 DEF VisitFailed, RenewalInv, outside
  <2>4. CASE CheckName
    <3>1. End \/ (stage = "checking" /\ stage' = "creating" /\ UNCHANGED <<run, log, draft>>)
      BY <2>4 DEF CheckName
    <3>2. files' = files /\ now' = now
      BY <2>4 DEF CheckName, outside
    <3> QED
      BY <1>1, <1>2, <1>3, <1>4, <3>1, <3>2 DEF RenewalInv, HasDraft
  <2>5. CASE \E whole \in BOOLEAN : WriteFile(whole)
    BY <1>1, <2>5, WriteFits DEF RenewalInv
  <2> QED
    BY <1>6, <2>1, <2>2, <2>3, <2>4, <2>5 DEF Proceed
<1>7. CASE Confirm
  <2>1. /\ stage = "confirming" /\ stage' = "loading" /\ files' = files /\ now' = now
        /\ run' = run /\ log' = log /\ draft' = draft
    BY <1>7 DEF Confirm, outside
  <2> QED
    BY <1>1, <1>3, <1>4, <2>1 DEF RenewalInv, HasDraft
<1>8. CASE Decline \/ NoPinEntered \/ Crash
  <2>1. End /\ files' = files /\ now' = now
    BY <1>8 DEF Decline, NoPinEntered, Crash, outside
  <2> QED
    BY <1>1, <1>2, <2>1 DEF RenewalInv
<1>9. CASE EnterPin
  <2>1. files' = files /\ now' = now /\ stage = "pin"
    BY <1>9 DEF EnterPin
  <2>2. End \/ /\ run.verb # "selftest-pin" /\ stage' = "signing"
               /\ run' = run /\ log' = log /\ draft' = draft
    BY <1>9 DEF EnterPin
  <2> QED
    BY <1>1, <1>2, <1>3, <1>4, <2>1, <2>2 DEF RenewalInv, HasDraft
<1>10. CASE PromptPin \/ TypePin \/ Visiting \/ Moving \/ Tick \/ UNCHANGED vars
  <2>1. /\ files' = files /\ run' = run /\ log' = log /\ draft' = draft /\ stage' = stage
        /\ now' \in Nat
    BY <1>4, <1>10 DEF PromptPin, TypePin, Visiting, Moving, Tick, vars, aside
  <2>2. HasDraft' <=> HasDraft
    BY <2>1 DEF HasDraft
  <2> QED
    BY <1>1, <1>3, <2>1, <2>2 DEF RenewalInv
<1>11. CASE Arrival
  BY <1>1, <1>11, ArrivalFits DEF RenewalInv
<1> QED
  BY <1>5, <1>6, <1>7, <1>8, <1>9, <1>10, <1>11 DEF Next

LEMMA RenewalInvariant == Spec => []RenewalInv
<1>1. Init => RenewalInv
  <2> SUFFICES ASSUME Init PROVE FolderInv /\ MandateInv
    BY InitKeeps DEF RenewalInv
  <2> QED
    BY FolderAssumption DEF Init, FolderInv, MandateInv
<1> QED
  BY <1>1, RenewalKeeps, PTL DEF Spec

-----------------------------------------------------------------------------
(* A RENEWAL THAT NOBODY INTERFERED WITH *)

(* The pre-flight of upsert-mandate leaves only the number of successors and *)
(* the date to chance: a file that is written after the log it was assembled *)
(* for, and after all its names, keeps a track that verifies verifying.      *)
THEOREM RenewalsVerify == Spec => VerifyStaysOk
<1> DEFINE Undisturbed(f) ==
             /\ stage = "creating" /\ f.verb = "upsert-mandate" /\ f.whole /\ f.genuine
             /\ VerifyOk(files, f.body.track) /\ log = ReadMandates(files, f.body.track)
             /\ EarlierName(Last(log), f.body)
             /\ Len(f.body.successors) >= Last(log).minSuccessors
<1>1. ASSUME RenewalInv, Next, NEW f \in files' \ files, Undisturbed(f)
      PROVE  VerifyOk(files', f.body.track)
  <2>1. \/ Arrival \/ \E whole \in BOOLEAN : WriteFile(whole)
    BY <1>1 DEF Next, Proceed, Begin, Visiting, Assemble, LoadSigner, Signed, VisitFailed,
                CheckName, Confirm, Decline, PromptPin, TypePin, EnterPin, NoPinEntered, Crash,
                Moving, Tick, aside
  <2>2. CASE Arrival
    <3>1. PICK c \in Foreign :
            \/ /\ c.verb = "upsert-mandate"
               /\ \E id \in ForeignId :
                    LET a == AssembleMandate(c, ReadMandates(files, c.track), c.source, now, id)
                    IN  VerifyOk(files \cup {a.file}, c.track) /\ Lands(a.file)
            \/ Lands(AssembleCreateKey(c, c.source)) /\ c.verb = "create-key"
      BY <2>2 DEF Arrival
    <3>2. CASE Lands(AssembleCreateKey(c, c.source)) /\ c.verb = "create-key"
      BY <1>1, <3>2 DEF Lands, AssembleCreateKey, Statement, File
    <3>3. CASE \E id \in ForeignId :
                 LET a == AssembleMandate(c, ReadMandates(files, c.track), c.source, now, id)
                 IN  VerifyOk(files \cup {a.file}, c.track) /\ Lands(a.file)
      <4>1. PICK id, g :
              /\ g = AssembleMandate(c, ReadMandates(files, c.track), c.source, now, id).file
              /\ VerifyOk(files \cup {g}, c.track) /\ Lands(g)
        BY <3>3
      <4>2. f = g /\ files' = files \cup {g}
        BY <1>1, <4>1 DEF Lands
      <4>3. g.body.track = c.track
        BY <4>1 DEF AssembleMandate, File, NewMandate
      <4> QED
        BY <4>1, <4>2, <4>3
    <3> QED
      BY <3>1, <3>2, <3>3
  <2>3. ASSUME NEW whole \in BOOLEAN, WriteFile(whole) PROVE VerifyOk(files', f.body.track)
    <3>1. /\ f = [draft EXCEPT !.whole = whole] /\ stage = "creating"
          /\ files' = {g \in files : ~SameName(g, draft)} \cup {f}
      BY <1>1, <2>3 DEF WriteFile
    <3>2. HasDraft /\ IsFile(draft) /\ draft.verb = run.verb
      BY <1>1, <3>1 DEF RenewalInv, CeremonyInv, DraftInv, HasDraft
    <3>3. /\ f.verb = draft.verb /\ f.name = draft.name /\ f.body = draft.body
          /\ f.genuine = draft.genuine /\ f.whole = whole
      BY <3>1, <3>2 DEF IsFile
    <3>4. run.verb = "upsert-mandate" /\ stage # "idle"
      BY <1>1, <3>2, <3>3
    <3>5. Written(draft) /\ Fits(draft.body, log) /\ Fresh(draft.body.id)
      BY <1>1, <3>2, <3>4 DEF RenewalInv, MandateInv
    <3>6. /\ Written(f) /\ Fits(f.body, log) /\ Fresh(f.body.id)
          /\ f.genuine = TRUE /\ f.whole = TRUE
      BY <1>1, <3>3, <3>5 DEF Written
    <3>7. \A g \in files : ~SameName(g, draft)
      <4> SUFFICES ASSUME NEW g \in files, SameName(g, draft) PROVE FALSE
        OBVIOUS
      <4>1. g.verb = "upsert-mandate" /\ g.name = draft.name
        BY <3>2, <3>4 DEF SameName
      <4>2. Written(g) /\ g.body.id # draft.body.id
        BY <1>1, <3>5, <4>1 DEF RenewalInv, FolderInv, Fresh
      <4> QED
        BY <3>5, <4>1, <4>2 DEF Written
    <3>8. files' = files \cup {f}
      BY <3>1, <3>7
    <3>9. FolderInv
      BY <1>1 DEF RenewalInv
    <3> QED
      BY <1>1, <3>6, <3>8, <3>9, RenewalVerifies
  <2> QED
    BY <2>1, <2>2, <2>3
<1>2. RenewalInv /\ [Next]_vars =>
        [\A f \in files' \ files : Undisturbed(f) => VerifyOk(files', f.body.track)]_vars
  BY <1>1
<1> QED
  BY <1>2, RenewalInvariant, PTL DEF Spec, VerifyStaysOk
=============================================================================
