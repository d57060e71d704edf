------------------------------ MODULE PivToken ------------------------------
(***************************************************************************)
(* The token and the terminal of the CLI (cli/src/lib/piv-connect.ts,      *)
(* piv-pcsc.ts, keysource.ts and piv-pin.ts).  Every call of the           *)
(* PivTransport - read a public key, or sign - is a visit: it opens a      *)
(* connection of its own, waiting for a reader with a card as long as a    *)
(* person may still insert one, and then exchanges APDUs once.  The PIN is *)
(* read from /dev/tty in raw mode.                                         *)
(*                                                                         *)
(* Readers, cards, the person and the PC/SC daemon are external: cards are *)
(* moved at any time, a callback may report an error or come too late.     *)
(***************************************************************************)
EXTENDS Naturals, FiniteSets

CONSTANTS
  Reader,       \* card readers
  NoReader,     \* none chosen yet
  Token,        \* a token, by the public key that lives in its slot
  Empty,        \* a reader without a card
  Unplugged,    \* a reader that is not there
  InitialSlots, \* what is in the readers when a behaviour begins
  MaxAttempts,  \* attempts until the overall deadline has passed
  MaxMoves,     \* how often a card or a reader is moved
  MaxPin        \* how many characters are typed at most

ASSUME TokenAssumption ==
  /\ MaxAttempts \in Nat \ {0} /\ MaxMoves \in Nat /\ MaxPin \in Nat
  /\ NoReader \notin Reader
  /\ Empty \notin Token /\ Unplugged \notin Token
  /\ InitialSlots \in [Reader -> Token \cup {Empty, Unplugged}]

VARIABLES
  slot,    \* what is in each reader
  moves,   \* how often that has changed
  visit,   \* the call of the transport under way
  tty,     \* /dev/tty: "closed", or open and "raw"
  buffer,  \* how many characters of the PIN have been typed
  entered, \* PINs handed to the signing path since the command began
  verified \* VERIFY commands sent since the command began

tokenVars == <<slot, moves, visit, tty, buffer, entered, verified>>

Phase == {"seeking", "connecting", "sleeping", "exchange", "authenticate", "answered", "failed"}
Visit ==
  [call : {"key", "sign"}, interactive : BOOLEAN, phase : Phase, attempt : 1 .. MaxAttempts,
   reader : Reader \cup {NoReader}, cut : BOOLEAN, answer : Token \cup {Empty}]
NoVisit == [call |-> "none", phase |-> "none"]

TokenTypeOK ==
  /\ slot \in [Reader -> Token \cup {Empty, Unplugged}]
  /\ moves \in Nat
  /\ visit \in Visit \cup {NoVisit}
  /\ tty \in {"closed", "raw"}
  /\ buffer \in 0 .. MaxPin
  /\ entered \in Nat /\ verified \in Nat

TokenInit ==
  /\ slot = InitialSlots /\ moves = 0
  /\ visit = NoVisit
  /\ tty = "closed" /\ buffer = 0
  /\ entered = 0 /\ verified = 0

-----------------------------------------------------------------------------
(* CONNECTING *)

(* connectPcscChannelWithPrompt is called. *)
Dial(call, interactive) ==
  [call |-> call, interactive |-> interactive, phase |-> "seeking", attempt |-> 1,
   reader |-> NoReader, cut |-> FALSE, answer |-> Empty]

(* One attempt: the context is open, no reader has announced itself yet. *)
Seeking == visit.phase = "seeking"

(* 'reader': the first one wins, with or without a card; others are ignored. *)
ReaderFound(r) ==
  /\ Seeking /\ visit.reader = NoReader /\ slot[r] # Unplugged
  /\ visit' = [visit EXCEPT !.reader = r]

(* 'status' of that reader: a card is present, connect SHARED. *)
CardPresent ==
  /\ Seeking /\ visit.reader # NoReader /\ slot[visit.reader] \in Token
  /\ visit' = [visit EXCEPT !.phase = "connecting"]

(* The connect callback, with a card: the channel is this visit's. *)
Connected ==
  /\ visit.phase = "connecting" /\ slot[visit.reader] \in Token
  /\ visit' = [visit EXCEPT !.phase = "exchange"]

Waiting == visit.phase \in {"seeking", "connecting"}

(* Defect: the deadline is not looked at after an attempt. *)
NotReady_NoDeadline ==
  /\ Waiting
  /\ visit' = [visit EXCEPT !.phase = IF visit.interactive THEN "sleeping" ELSE "failed"]

(* The attempt ends PcscNotReadyError: its 8 s are over, the reader is gone, *)
(* or an error looks like absent hardware.  Only this is retried, only with  *)
(* a person at the terminal, and only before the deadline.                   *)
NotReady ==
  /\ Waiting
  /\ visit' = [visit EXCEPT !.phase =
       IF visit.interactive /\ visit.attempt < MaxAttempts THEN "sleeping" ELSE "failed"]

(* The attempt ends with any other error: no binding, a daemon fault. *)
Faulted == Waiting /\ visit' = [visit EXCEPT !.phase = "failed"]

(* The poll interval is over: the next attempt starts from nothing. *)
WakeUp ==
  /\ visit.phase = "sleeping"
  /\ visit' = [visit EXCEPT !.phase = "seeking", !.reader = NoReader,
                            !.attempt = IF @ < MaxAttempts THEN @ + 1 ELSE @]

Connecting ==
  /\ \/ \E r \in Reader : ReaderFound(r)
     \/ CardPresent \/ Connected \/ NotReady \/ Faulted \/ WakeUp
  /\ UNCHANGED <<slot, moves, tty, buffer, entered, verified>>

-----------------------------------------------------------------------------
(* EXCHANGING *)

(* SELECT and GET METADATA: the key that is in the reader now. *)
ReadKey ==
  /\ visit.phase = "exchange" /\ visit.call = "key" /\ ~visit.cut
  /\ visit' = [visit EXCEPT !.phase = "answered", !.answer = slot[visit.reader]]
  /\ UNCHANGED verified

(* SELECT and VERIFY: the card counts this try against its PIN.  A status    *)
(* word other than success ends the visit.                                   *)
VerifyPin(right) ==
  /\ visit.phase = "exchange" /\ visit.call = "sign" /\ ~visit.cut
  /\ visit' = [visit EXCEPT !.phase = IF right THEN "authenticate" ELSE "failed"]
  /\ verified' = verified + 1

(* GENERAL AUTHENTICATE: the tap; signed by the key that is in the reader. *)
Authenticate ==
  /\ visit.phase = "authenticate" /\ ~visit.cut
  /\ visit' = [visit EXCEPT !.phase = "answered", !.answer = slot[visit.reader]]
  /\ UNCHANGED verified

(* Defect: a card that is gone in mid-exchange is waited for as in connecting. *)
ExchangeFails_Redialled ==
  /\ visit.phase \in {"exchange", "authenticate"}
  /\ visit' = IF visit.cut /\ visit.interactive /\ visit.attempt < MaxAttempts
              THEN [Dial(visit.call, TRUE) EXCEPT !.attempt = visit.attempt + 1]
              ELSE [visit EXCEPT !.phase = "failed"]
  /\ UNCHANGED verified

(* The card is gone or was reset, or answers nothing or an error.  It may    *)
(* say "it will be retried", but nobody retries.                             *)
ExchangeFails ==
  /\ visit.phase \in {"exchange", "authenticate"}
  /\ visit' = [visit EXCEPT !.phase = "failed"]
  /\ UNCHANGED verified

Exchanging ==
  /\ ReadKey \/ (\E right \in BOOLEAN : VerifyPin(right)) \/ Authenticate \/ ExchangeFails
  /\ UNCHANGED <<slot, moves, tty, buffer, entered>>

(* A card or a reader is moved; a connection to that reader is cut. *)
Move(r, c) ==
  /\ moves < MaxMoves /\ c # slot[r]
  /\ c \in Token => \A q \in Reader : slot[q] # c
  /\ slot' = [slot EXCEPT ![r] = c]
  /\ moves' = moves + 1
  /\ visit' = IF visit.phase \in {"exchange", "authenticate"} /\ visit.reader = r
              THEN [visit EXCEPT !.cut = TRUE] ELSE visit
  /\ UNCHANGED <<tty, buffer, entered, verified>>

TokenNext ==
  \/ Connecting \/ Exchanging
  \/ \E r \in Reader, c \in Token \cup {Empty, Unplugged} : Move(r, c)

-----------------------------------------------------------------------------
(* THE PIN *)

(* openControllingTty and setRawMode; there may be no terminal, or one whose *)
(* echo cannot be switched off, and then the dialog fails.                   *)
OpenTty ==
  /\ tty = "closed"
  /\ tty' = "raw" /\ buffer' = 0
  /\ UNCHANGED <<slot, moves, visit, entered, verified>>

(* readLineNoEcho: a character, or a backspace. *)
Typed ==
  /\ tty = "raw"
  /\ \/ buffer < MaxPin /\ buffer' = buffer + 1
     \/ buffer > 0 /\ buffer' = buffer - 1
  /\ UNCHANGED <<slot, moves, visit, tty, entered, verified>>

(* Enter hands the line over, even an empty one; Ctrl-C, Ctrl-D and a       *)
(* terminal that goes away do not.  Either way it is restored and closed.   *)
CloseTty(pin) ==
  /\ tty = "raw"
  /\ tty' = "closed" /\ buffer' = 0
  /\ entered' = IF pin THEN entered + 1 ELSE entered
  /\ UNCHANGED <<slot, moves, verified>>
=============================================================================
