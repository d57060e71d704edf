----------------------------- MODULE ReleaseLog -----------------------------
(***************************************************************************)
(* ReleaseEndorsements: a chain of releases, each signed by whoever held   *)
(* authority on the date it carries (packages/protocol/src/endorsement.ts) *)
(* as a consumer of a mirror computes it (fetchClient.ts): mandates are    *)
(* sorted by their date, as far as their dates can be compared, releases   *)
(* are taken in the order of the index.                                    *)
(* Whatever is fetched later, the whole verdict is computed again, so a    *)
(* mandate that appears late changes what earlier releases are worth.      *)
(***************************************************************************)
EXTENDS Verifier

CONSTANTS
  Build,             \* the builds of the software that read a mirror
  PinOf,             \* the release pin baked into each build
  MirrorMandates,    \* what the host may serve of the mandate log
  MirrorReleases,    \* what the host may serve of the release log
  Commit,            \* commit hashes
  NoRelease,         \* null, in the fields that name the previous release
  MaxMirrorMandates, \* bound on how many mandates are served
  MaxMirrorReleases  \* bound on how many releases are served

Release ==
  [id : Id, commit : Commit,
   prevId : Id \cup {NoRelease}, prevCommit : Commit \cup {NoRelease},
   issued : Nat, signedBy : Key, signers : SUBSET Key,
   defect : {"none", "merkle", "bytes", "signature", "dates"}]

ASSUME ReleaseAssumption ==
  /\ MaxMirrorMandates \in Nat /\ MaxMirrorReleases \in Nat
  /\ NoRelease \notin Id \cup Commit
  /\ MirrorMandates \subseteq Mandate
  /\ MirrorReleases \subseteq Release

VARIABLES
  mandates,   \* the mandates in the index, in its order
  releases,   \* the releases in the index, in its order
  chains,     \* what each build makes of the mandates
  valid       \* the releases each build finds valid

releaseVars == <<mandates, releases, chains, valid>>

-----------------------------------------------------------------------------
AuthorityAt(ch, e) == e.defect # "dates" /\ HasAuthority(ch, e.issued)

(* How e must name the last valid release. *)
LinkRules(prev, e) ==
  << Rule("genesis-must-have-no-predecessor",
          prev = <<>> => e.prevId = NoRelease /\ e.prevCommit = NoRelease),
     Rule("non-genesis-must-have-predecessor",
          prev # <<>> => e.prevId # NoRelease /\ e.prevCommit # NoRelease),
     Rule("predecessor-mismatch",
          prev # <<>> => e.prevId = Last(prev).id /\ e.prevCommit = Last(prev).commit) >>

(* verifySingleEndorsement after the links, in its order. *)
SigningRules(ch, e) ==
  << Rule("merkle-root-mismatch", e.defect # "merkle"),
     Rule("signature-invalid", e.defect \notin {"bytes", "signature"}),
     Rule("no-authority-at-issuance", AuthorityAt(ch, e)),
     Rule("signer-not-authorized", e.signedBy \in e.signers),
     Rule("signer-not-authorized",
          AuthorityAt(ch, e) => e.signedBy = CurrentAuthority(ch, e.issued).holder) >>

(* Defect: a release is compared with the valid one before it only. *)
FreshRelease_UnlikeTheLast(v, e) == v # <<>> => Last(v).id # e.id

FreshRelease(v, e) == \A k \in DOMAIN v : v[k].id # e.id

(* Defect: an endorsement without a predecessor starts the chain over. *)
Endorse_StartingOver(ch, v, e) ==
  IF Passes(SigningRules(ch, e)) /\ e.prevId = NoRelease THEN <<e>>
  ELSE IF FreshRelease(v, e) /\ Passes(LinkRules(v, e) \o SigningRules(ch, e))
  THEN Append(v, e) ELSE v

(* One more release of the log. *)
Endorse(ch, v, e) ==
  IF FreshRelease(v, e) /\ Passes(LinkRules(v, e) \o SigningRules(ch, e))
  THEN Append(v, e) ELSE v

(* Defect: the verifier stops at the first release it rejects. *)
VerifyChainOfEndorsements_StopAtFirst(ch, log) ==
  LET after[k \in 0 .. Len(log)] ==
        IF k = 0 THEN <<>>
        ELSE IF Len(after[k - 1]) = k - 1 THEN Endorse(ch, after[k - 1], log[k])
        ELSE after[k - 1]
  IN  after[Len(log)]

(* The loop over the log: what is valid of its first k releases. *)
VerifyChainOfEndorsements(ch, log) ==
  LET after[k \in 0 .. Len(log)] ==
        IF k = 0 THEN <<>> ELSE Endorse(ch, after[k - 1], log[k])
  IN  after[Len(log)]

Dated(log) == \A i \in DOMAIN log : log[i].defect # "dates"

(* What list.sort makes of the mandates of the index.  Next to a date that   *)
(* does not parse the comparator answers NaN, which orders nothing: where    *)
(* the others end up is then the engine's choice.                            *)
SortOutcomes(log) ==
  IF Dated(log) THEN {SortedByIssue(log)}
  ELSE {[k \in DOMAIN log |-> log[p[k]]] : p \in Bijection(DOMAIN log, DOMAIN log)}

(* verifyFromFetch: the sorted mandates are verified from the pin. *)
FetchedChain(c, sorted) == VerifyMandateChainFromPin(PinOf[c], sorted)

-----------------------------------------------------------------------------
ReleaseTypeOK ==
  /\ mandates \in Seq(MirrorMandates)
  /\ releases \in Seq(MirrorReleases)
  /\ chains \in [Build -> VerifiedChain]
  /\ valid \in [Build -> Seq(MirrorReleases)]

ReleaseInit ==
  /\ mandates = <<>>
  /\ releases = <<>>
  /\ chains = [c \in Build |-> EmptyChain(PinOf[c])]
  /\ valid = [c \in Build |-> <<>>]

PublishMandate(m) ==
  /\ Len(mandates) < MaxMirrorMandates
  /\ mandates' = Append(mandates, m)
  /\ \E sorted \in [Build -> SortOutcomes(mandates')] :
       chains' = [c \in Build |-> FetchedChain(c, sorted[c])]
  /\ valid' = [c \in Build |-> VerifyChainOfEndorsements(chains'[c], releases)]
  /\ UNCHANGED releases

PublishRelease(e) ==
  /\ Len(releases) < MaxMirrorReleases
  /\ releases' = Append(releases, e)
  /\ valid' = [c \in Build |-> VerifyChainOfEndorsements(chains[c], releases')]
  /\ UNCHANGED <<mandates, chains>>

ReleaseNext ==
  \/ \E m \in MirrorMandates : PublishMandate(m)
  \/ \E e \in MirrorReleases : PublishRelease(e)

ReleaseSpec == ReleaseInit /\ [][ReleaseNext]_releaseVars

-----------------------------------------------------------------------------
(* PROPERTIES *)

(* The valid releases are one line of history with no release in it twice:   *)
(* each names the one before it by id and by commit, whatever was rejected   *)
(* in between (endorsement.ts 63-92 over the whole log).                     *)
OneLineOfReleases ==
  \A c \in Build :
    /\ \A k \in DOMAIN valid[c] :
         IF k = 1 THEN valid[c][k].prevId = NoRelease
         ELSE /\ valid[c][k].prevId = valid[c][k - 1].id
              /\ valid[c][k].prevCommit = valid[c][k - 1].commit
    /\ \A j, k \in DOMAIN valid[c] : valid[c][j].id = valid[c][k].id => j = k

(* An endorsement that is not valid cannot keep a good one out: it might as  *)
(* well not be in the index.                                                 *)
InvalidReleasesAreInert ==
  \A c \in Build : \A i \in DOMAIN releases :
    \/ releases[i] \in ToSet(valid[c])
    \/ VerifyChainOfEndorsements(chains[c], RemoveAt(releases, i)) = valid[c]

(* A mandate that turns up late takes back a release, or lets one in, only   *)
(* if that release or one before it is dated no earlier than the mandate:    *)
(* history before a takeover is settled (authority is read at issuedAt).     *)
(* It is settled while every mandate of the index has a date: next to one    *)
(* that has none, others may be verified in an order that unsettles it.      *)
UpTo(t, e) == e.defect # "dates" /\ e.issued < t
SettledHistory ==
  [][\A m \in MirrorMandates :
       /\ mandates' = Append(mandates, m) /\ Dated(mandates')
       /\ \A i \in DOMAIN releases : UpTo(m.issued, releases[i])
       => valid' = valid]_releaseVars

(* Publishing a release never takes back another one.                        *)
ReleasesOnlyExtend ==
  [][mandates' = mandates =>
       \A c \in Build : IsPrefix(valid[c], valid'[c])]_releaseVars
=============================================================================
