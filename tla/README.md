# A verification of the maintainers protocol and its programs

TLA+ models of the programs in this repository (`src/`), the TLC runs that
check them on small instances, and the theorems that the TLA+ proof system
(TLAPS) checks for every instance. Paths below are relative to `src/`.

## 1. The system and its parts

A project keeps an append-only log of signed **mandates** per *track* (release,
ca, ...). Each mandate names the holder who has operational authority for a
window of time, and carries the rule its successor must satisfy. A consumer
(an app, the browser extension, a server) has the hash of one mandate compiled
in, its **pin**, and verifies everything forward from there.

| Part | Where | State it keeps | Operations | What is hard about it |
|---|---|---|---|---|
| Mandate verifier | `packages/protocol/src/verifier.ts` | none: a fold over the served log | `verifyMandateChainFromPin`, `currentAuthority` | any host, any order, duplicates, malformed envelopes, several pins, the clock |
| Release endorsements | `protocol/src/endorsement.ts` | the accepted releases (fold) | `verifyChainOfEndorsements` | two logs that grow independently; authority judged at the endorsement's own date |
| CA endorsements (leases) | `protocol/src/caEndorsement.ts` | none: judged at `now` | `verifyCaEndorsements`, `authorizedCaKeys` | lease windows, clock skew, rotation of the holder, a withholding host |
| Checkpoint requests | `protocol/src/checkpointRequest.ts`, `checkpointBot.ts` | none: rules over the registry's file | `verifyCheckpointRequest`, `validateCheckpointSubmission`, `acceptRow` | authority of an old and a new mandate at two times; rate limits |
| Checkpoint bot | `server-adapters/checkpoints-bot/src` | the registry's CSV in git | `runCheckpointBotOnSubmission`, the Action | reads, then appends: two runs at once |
| Commit gate | `server-adapters/cloudflare-worker/src` | the repository, a counter per address | `handleCommit`, `decide` | reads state, decides, then writes over the network: two requests at once, partial failure |
| Encrypted store | `protocol/src/encryptedBlobAdapter.ts`, `storage.ts` | a cached document, one encrypted blob | `read write list log flush reset` | interleaved awaits on one cached document; two devices over one blob |
| Fetch client | `protocol/src/fetchClient.ts` | none | `verifyFromFetch`: a verdict on each track | partial failure of many fetches; a sort by dates that may not parse |
| Signing helpers | `protocol/src/signing.ts` | none | `signMandate`, `collectSignatures` | one signer of several failing |
| CLI ceremonies | `cli/src/commands`, `cli/src/lib` | files in `.maintainers/` | upsert-mandate, endorsement, verify, ... | read, prompt, sign, write: crashes and stale reads |
| PIV and PC/SC | `cli/src/lib/piv-*.ts` | a card handle, a terminal mode | `connectPcscChannel`, `pivPinFromTty` | callbacks racing a timer; leaked handles |
| Browser extension | `extension/src` | a cache with a TTL, the mounted overlay | content script `tick`, `fetchMaintainers` | navigation during an await; late answers |
| Web UI | `web-ui/src` | a state store, the load and the bundle under way | load a project, submit a bundle | late, partial and rejected loads, partially written bundles |

## 2. How the parts interact

`fetchClient`, the CLI, the extension, the Worker and the bot all read a log,
sort it by `issuedAt`, and hand it to the mandate verifier; its result (a
`VerifiedChain`) is what release, CA and checkpoint verification ask for
authority. The Worker and the bot also *write*: they verify what is in the
repository, decide on a submission, and commit it.

The programs meet in six places, and each is where a model has more than one
actor:

- *the log on a host* - anybody may serve any file in any order, drop some, or
  serve more later. `MandateChain`, `CaLease` and `ReleaseLog` have such a host.
- *the repository behind the Worker* - requests interleave at every network
  call, and GitHub compares nothing but the sha of the one path a PUT writes.
- *the registry's CSV in git* - runs of the bot read rows and append later.
- *the cache and the blob* - the extension's storage is shared by content
  scripts and popup; an encrypted blob by the calls of an adapter and by devices.
- *the clone and the token* - a ceremony of the CLI reads the folder, waits for a
  person twice, and writes; files of other maintainers arrive meanwhile, and cards
  and readers come and go between its three visits to the token.
- *the code host* - a page fetches a folder file by file, and sends a bundle file
  by file, while others commit to the branch.

Time is the other shared thing: every verifier takes `now` from its caller, and
nothing in the code keeps two of them in step. Models with time have a clock
that ticks on its own; `CaLease` gives each consumer an offset.

## 3. What the models keep and what they abstract

A **mandate** is a record with the fields the rules test (id, track, holder,
dates, successors, threshold, floor, ceiling, `signedBy`, who signed) and one
`defect` that says what is wrong with the envelope as bytes: its shape, an
unparsable date, bytes that cannot be derived, or a signature that does not
verify. The **pin** of a mandate is the record without its signatures: that is
what the hash commits to, so two mandates with one pin differ in signatures
only. Hashing, signing and the canonical encoding enter nowhere else.

A **rule list** (`Rules.tla`) is the code's chain of `if (bad) return reason`:
an ordered tuple of verdicts of which the first failure counts. Rules are
strings from a declared set, so that the prover can type what is reported.

A definition named `X_Something` and marked *Defect* is a wrong variant of `X`
as a plausible bug would have it; no specification uses it. Each property was
run with one of them in place of `X` and was violated.

## 4. Modules

| Module | Models | State and actions |
|---|---|---|
| `Rules` | the early-return chain | operators only |
| `Verifier` | `verifier.ts` | `VerifyMandateChainFromPin` is the left fold of `Consume`; `SeekRoot` and `WalkForward` are the two loops, `ForwardRules` the succession rule, `CurrentAuthority` the scan from the newest |
| `MandateChain` | consumers with different pins following one log | `Publish` any envelope, `Tick` |
| `CaLease` | `caEndorsement.ts` | `ServeMandate`, `ServeLease`, `Tick`; each consumer judges at its own clock |
| `ReleaseLog` | `endorsement.ts` | `PublishMandate`, `PublishRelease`; a log is verified as `SortOutcomes` leaves it: by date, or in any order if a date does not parse |
| `CommitGate` | the Worker's `POST /commit` and `GET /verify`, `policy.ts` | a request goes list, read (one file a step), decide, sha, put; every call may fail, the PUT also after it took effect; `Summary` is what `/verify` reports |
| `CheckpointRegistry` | the bot and rules 1-11 of `checkpointBot.ts` | a run goes fetch, rows, decide, append; rows may be pruned |
| `Storage` | the in-memory adapter of `storage.ts` | `Write`: the abstract specification |
| `EncryptedBlob` | `encryptedBlobAdapter.ts` | each call goes fetch, merge, ready, flush, store; `Reset`, `Fail` |
| `ExtensionOverlay` | the browser extension | `Visit` and `Load` a page, `Render` the popup; a call goes whitelist or drop, cache, index, files, write, show; `Deliver` an event to the background |
| `PivToken` | `piv-connect.ts`, `piv-pcsc.ts`, `keysource.ts`, `piv-pin.ts` | a visit to the token goes seeking, connecting, exchange, authenticate, answered; `NotReady` ends an attempt, `WakeUp` begins the next; `Move` is a hand on a card or a reader; the terminal is `raw` from `OpenTty` to `CloseTty` |
| `Ceremony` | the signing commands of the CLI, `ceremony.ts`, `store.ts` | a command goes binding (its key), confirming, loading (its signer), pin, signing, checking, creating; `Arrival` of others' files, `Crash` anywhere |
| `WebUi` | `app.ts`, `state.ts`, `adapter.ts`, `parse-folder.ts`, the views | `Navigate`, `ClickTab`; a load goes listing, fetching, probing (or asking a server), answered or failed; a bundle is sent by `PutAnswer`, `PutFailed` or a POST, and again by another `Submit`; others `Commit` |

`CaLease`, `ReleaseLog`, `CommitGate`, `CheckpointRegistry`, `ExtensionOverlay`,
`Ceremony` and `WebUi` extend `Verifier`: each asks the same verifier the code
asks. `Ceremony` also extends `PivToken` and composes with it: its own steps start
a visit and use the answer, the steps of `PivToken` are the visit.
A module `MCx` holds the small instance of `x`, and `xProofs` its theorems, with
three exceptions: `VerifierProofs` has the lemmas on the verifier's operators that
the others cite, `EndorsementProofs` the theorems on `CaLease` and `ReleaseLog`,
and `BrowserProofs` those on `ExtensionOverlay` and `WebUi`.

Choices that a reader of the code should know:

- *Consumers fold.* `verifyMandateChainFromPin` walks the log from its start on
  every call. It is a left fold, so `MandateChain` and `CaLease` keep the verdict
  and extend it with `Consume`; `NothingPoisons` recomputes whole logs.
- *`EmptyChain` remembers why.* A chain without a root is "no pin", "pin not
  in the log" or the reason its root failed; the last is final, because the
  search for the root stops at the first match, good or bad.
- *The Worker's listing* is one step: a request lists all directories it will
  read at one instant and then reads the files one by one. While nothing lands
  in between that is the code exactly; the race that `commit_gate_race` shows
  needs less than what this merging could hide.
- *`overtaken`* is a history variable: the requests for which another one's file
  landed after they had listed, or on the path they had chosen. The properties
  of what is in effect speak of the others, and hold with two requests under
  way; that they fail for overtaken ones is `commit_gate_race`.
- *Careful clients* put a new file into the directory of its track under a
  fresh name. The code leaves this to them (it takes the track from the envelope
  and the log from the directory, `policy.ts:422`),
  and the properties about what is in effect need it.
- *RATE_LIMITER* may refuse anybody at any time: refusing is one of the
  outcomes of a request, and the counter itself is not modelled.
- *`orderly`* is a history variable of the encrypted store: no call failed,
  overlapped another or was reset under way. The refinement speaks of the store
  until that moment; `LogIsOrdered` of all behaviours.
- *A rejected `storeBlob` has settled*: the server either has the blob or will
  not get it. Encryption is the identity on entries; a wrong key is a failure.
- *Dates that do not parse* make the comparator of a sort answer NaN. `ReleaseLog`
  has them: the order is then the engine's, so any, and each build's own. The other
  models that read a sorted log assume that its mandates have dates
  (`DatedAssumption` in `CommitGate` and `WebUi`, a conjunct of `RegistryAssumption`
  and `OverlayAssumption`); `Ceremony` reads in the order of names, and
  `MandateChain` in the order served, where such a mandate is one more that is
  rejected.
- *Pruning* of the registry is somebody's own commit; it may happen between the
  steps of runs only where no run is under way.
- *The extension's anchor* is the first mandate it was served: it has no pin.
  What its panel says is computed with the same verifier. The same is true of
  the page, of `verify` and of the ceremony, which take the log's first mandate.
- *Visits are separate.* Each call of the transport opens a connection of its
  own, so the key that was read, the signer that was loaded and the token that
  signs come from three visits; `swapped` records that a card was moved after
  the signer was loaded, or that two tokens were in two readers, of which each
  visit finds whichever announces itself first.
- *A typed PIN* is a number of characters, and one that was handed over counts in
  `entered`; a card that gets it counts it in `verified`.
- *Other maintainers* use the same commands, with keys in files, and only push a
  mandate that verifies; `ForeignId` keeps the random ids they draw apart from
  those of the process under study: some sort before them, some after.
- *A file name* is a second and a random id. `Ceremony` and `WebUi` read a folder in
  the order of names (`Verifier!InNameOrder`), which among mandates of one second is
  not the order in which they were written; `raced` records that a file came to the
  very name a command is about to write. A clone that a command starts from holds
  files as the command itself names them, one to a name (`FolderAssumption`). That an
  address or a tag is sanitised on its way to a name, and an id cut to its first
  eight characters, is left out: two files have one name if they have one subject.
- *The page* is what `render` would draw from the store; a load is one record that
  holds what it has fetched so far, `lost` records that an answer was refused or
  never came. `None # "failed"` keeps the absence of an error apart from one.
- *A submission* is one call of `submitBundle`, and `created` the entries of its bundle
  that it has stored, an entry whose answer was lost included. The next call comes
  when it is over, for the same bundle or another. A server stores all of a bundle or
  none, and its answer may be lost either way.

## 5. Runs

| Run | Question | Bounds |
|---|---|---|
| `chain_any_host` | Is a verified chain sound whatever a host serves, and do builds agree? | 13 kinds of envelope (a takeover, a renewal, one under quorum, a stripped copy of the pin, a reused id, each way to be rejected), logs of up to 4, an old pin, a newer pin, no pin, five ticks |
| `ca_lease` | Which hot keys are trusted, by slow and fast clocks, across handovers? | 3 mandates, 6 leases of which up to 3 are served, skew 1, offsets -1 and 1, nine ticks |
| `release_log` | Which releases are valid, and what can a late mandate take back? | 5 mandates (one backdated, one broken, one undated), 8 releases (replayed, sideways, by the wrong holder), 3 of each |
| `commit_gate` | Is what the Worker commits allowed where it lands, and does it stay in effect? | 3 requests, 2 at a time, out of 12 kinds, every call may fail, two ticks |
| `commit_gate_race` | Is a commit judged by the state it lands on? **Violated** | 2 requests at once |
| `checkpoint_serial` | What does the registry record, and is its alarm ever false? | 3 runs in turn out of 10 submissions, cap 1, window 2, pruning, two ticks |
| `blob` | Does the encrypted store behave as the in-memory one, and what survives overlaps and failures? | 5 calls, 2 at a time, 2 paths, any call fails at any await, resets between calls |
| `overlay_in_turn` | Does the panel, badge and popup tell the truth about the page? | one repository on two pages and a page of none, a root, a takeover, a handover, a renewal, lost files and broken files, TTL 1, three ticks |
| `overlay_late_answer` | And when two ticks overlap? **Violated** | 2 repositories, 2 calls |
| `ceremony` | Is what a command writes what was shown, signed by whom it names, and accepted by the verifier? Does it end? | 2 commands out of 10 (every verb, token and file keys, a dry run), 2 readers, 2 tokens, one move of a card, 2 attempts, PINs of up to one character, files of another maintainer, a crash anywhere, one tick |
| `ceremony_floor` | Is a mandate the verifier would reject ever brought to the token? **Violated** | one renewal that names one successor where its predecessor asks for two |
| `web_ui` | Does the page show its route's project and a part of its history, and does a bundle count only as a whole? | 3 adapters, 2 projects, one of them with a second branch under a spelling of its own, an url that is none, 3 changes of the route, one commit by others, 2 bundles, submitted any number of times |

*Why these bounds.* A rule of succession relates a mandate to its predecessor
and to the ids before it, so four mandates give every pair of neighbours a
rejected one between them and a predecessor of their own; three builds give an
older pin, a newer one and none. Races need two actors, and a third to be the
one who reads what the two left. Authority depends on the order of at most
four dates (two windows), and the clocks run past all of them, so that every
window opens and closes within a run. `overlay_in_turn` ticks beyond the TTL
and the longest fetch. In `ceremony` the second command meets what the first left,
a killed one included; one move is enough to put another token where the signer
was, to cut a visit, or to make a second reader the one that is found, and two
attempts are the first and a retry; files of others arrive at every point of a
command. In `web_ui` three changes of the route go to a project, away during its
load and back, which are the guards of `ensureProjectLoaded`; the fetched files are
three, so a commit falls before, between and after them.

*Deadlock* is not checked: logs, requests, calls and clocks are bounded, so
every behaviour ends.

### What each property says

- **Chains.** `ChainSound`: a chain starts at its pin and each next mandate meets
  the rule that its predecessor signed. `NothingPoisons`: an envelope that was
  not accepted might as well not have been served. `PinsAgree`: two builds never
  disagree about the part both see, if ids are not reused. `NothingRetracted`:
  serving more only extends, and failing closed is final.
  `AuthorityFallsBackOnlyOnExpiry`: an older mandate resumes only when the newer
  one is over.
- **Leases.** `TrustIsBounded`: a trusted lease is at most twice the skew outside
  its window and its signer held authority within the skew. `SkewTolerated`: a
  good lease is not refused by a tolerable clock. `DeadKeysStayDead`: no mandate
  and no time revives a key. `CurrentStepsBackOnlyOnLapse`: the current key does
  not flip. `WithholdingKills`: when nothing is issued any more, all keys die.
- **Releases.** `OneLineOfReleases`, `InvalidReleasesAreInert`,
  `ReleasesOnlyExtend`; `SettledHistory`: a mandate that turns up late disturbs
  no release dated before it, while every mandate has a date.
- **Commits.** `AcknowledgedIsEffective`: what a client was told is committed is
  accepted by everyone who reads the repository. `ReportStays`: no commit takes
  back what `GET /verify` reported of a track, its anchor and takeovers included.
  `GatedOnCurrentState`: what lands is allowed by the state it lands on;
  `GatedUnlessOvertaken`: so it is for every request that nobody overtook.
  `OneWinnerPerPath`: at most one client is told that it created a path.
- **Checkpoints.** `DatesInOrder`, `RecordsOnlyChanges`, `FlaggedOverCap`;
  `NoFalseTamperAlarm`: the bot cries tamper only if somebody tampered.
- **Storage.** `ImplementsStorage`: refinement of `Storage` while calls are
  orderly. `CacheIsCurrent`: memory is then what is stored. `LogIsOrdered`: no two
  paths share a position, whatever overlaps and fails.
- **Extension.** `PanelMatchesPage`, `BadgeMatchesPanel`; `FreshWithinTTL`: a
  panel misses nothing older than the TTL; `RefreshShowsAll`: the refresh button
  is not answered from the cache; `HolderNeverChangesSilently`: between two
  panels of a repository another holder is announced, expired or handed over.
- **Ceremonies.** `VerifyStaysOk`: a renewal that nobody interfered with, and that
  names enough successors, keeps a track verifying. `SignedAsShown`: what is
  written was shown and confirmed, and signed by the key it names unless a card
  was swapped. `PinDiscipline`: a PIN reaches a card at most once, and the
  terminal is raw only at the prompt. `NeverHangs`: a command waits for a person,
  but never for ever for a token. `NothingIsOverwritten`: files stay.
  `NeverTapForARejectedMandate`: the promise of the header, which fails.
- **Page.** `ShownProjectIsTheRoutes`: no late answer is drawn for another project.
  `ShownChainIsAPrefix`: if no answer was lost, the chain shown is a beginning of
  the branch's, although the folder was read in pieces. `PageSettles`: "Loading"
  ends. `CommittedWholly`: what a submission has stored is a beginning of its bundle,
  so no mandate arrives without the one it succeeds, and all of it if it is reported
  as committed - not for what an earlier attempt left there.

### Fairness

Three properties need any. `WithholdingKills`: weak fairness of `Tick` in
`CaLease!FairSpec`, because time passes whatever programs do. `NeverHangs`: weak
fairness of `Visiting`, since the PC/SC daemon calls back or the 8 s timer of the
attempt does, sleeps end, and the clock reaches the deadline (`MaxAttempts`
stands for it); and of `Proceed`, since the process runs on when it waits for
nobody. No fairness is put on a person, who need not type, confirm, insert a card
or start a command. `PageSettles`: weak fairness of `LoadStep`, since a request of
the page is answered or rejected in the end. No host is assumed to serve anything, and no
other model promises progress: the code has no scheduler that would justify it.

## 6. Theorems

TLAPS checks these for every value of the constants that the named assumptions
of the modules allow.

| Theorem | States | Argument |
|---|---|---|
| `MandateChainProofs!TypeCorrect` | `TypeOK` | `Consume` maps chains to chains: each rule reports a declared reason |
| `ChainIsSound` | `ChainSound` | inductive with `TypeOK`: a mandate is appended only if every rule passed, from which each clause is read off (`VerifierProofs`) |
| `NeverRetracted` | `NothingRetracted` | each step appends to `accepted` or leaves it; a chain with a root error is a fixed point of `Consume` |
| `BuildsAgree` | `PinsAgree` | the invariant that accepted mandates come from the log, in order, and that a consumer is anchored as soon as its pin was served; ids of a fresh log then make the test for duplicates agree |
| `AuthorityFallsBack` | `AuthorityFallsBackOnlyOnExpiry` | chains only extend, so the older position was live in both; the newer one, if live, would still be preferred |
| `ChainIsReplayed` | - | the chain a consumer holds is the walk of `verifyMandateChainFromPin` over the whole log: extending a log by an envelope is one `Consume` |
| `NeverPoisoned` | `NothingPoisons` | two walks are compared step by step, one over the log and one over the log without an envelope that was not accepted; from its place on the two hold the same chain |
| `EndorsementProofs!TrustBounded`, `GoodLeaseTolerated`, `NoResurrection` | `TrustIsBounded`, `SkewTolerated`, `DeadKeysStayDead` | from type correctness, the rules a valid lease passed and arithmetic on the clocks |
| `CurrentStepsBack` | `CurrentStepsBackOnlyOnLapse` | a lease that stays valid stays eligible, and the current one is the latest of these |
| `ReleaseTypeCorrect`, `ReleasesAreOneLine` | -, `OneLineOfReleases` | invariant `Computed`: `valid` is the walk over the releases, over whatever chain a build holds; the walk accepts only what names the release accepted before |
| `ReleasesExtend`, `RejectedReleasesAreInert` | `ReleasesOnlyExtend`, `InvalidReleasesAreInert` | from `Computed`: one more release is one more step, and a step that rejects leaves nothing to later ones |
| `HistoryIsSettled` | `SettledHistory` | while all mandates have dates, the chain is the walk over the sorted log (`Computed`), and the authority at a date is settled by the mandates dated before it, so two walks agree on every release until then |
| `CommitGateProofs!OneWinner` | `OneWinnerPerPath` | invariant `Settled`: an answer "ok" belongs to a request that is done and whose path holds its content or was overwritten by one that named it |
| `CommitsAreGated` | `GatedUnlessOvertaken` | invariant `GateInv`: what a request that nobody overtook has read, and what it has yet to read, is what the repository holds in the directories it listed |
| `AcknowledgedStays`, `ReportsAreKept` | `AcknowledgedIsEffective`, `ReportStays` | invariant `EffectInv`: until somebody is overtaken, a request under way finds its path free or holding its own envelope, what was acknowledged stays where it is, and every track verifies as a whole. What lands was let through on the repository as it is (`GateInv`), so it is dated after the last of its log, is appended there, and is one `Consume` that accepts. Hypotheses: `Careful`, `NamedApart`, `StartsVerified` |
| `CheckpointRegistryProofs!DatesStayInOrder`, `AlarmIsTrue`, `OnlyChanges`, `FlaggedExactly` | the four properties of the registry | invariant `Serial`: one run at a time, and what it read is what the file holds. Hypothesis `MaxRunning = 1`; `FlaggedExactly` also `Window > 0` |
| `EncryptedBlobProofs!Implements`, `MemoryIsACache` | `ImplementsStorage`, `CacheIsCurrent` | invariant `SeqInv`: as long as calls are orderly, at each phase of the one under way, memory, snapshot and blob stand in a known relation. Hypothesis: one adapter |
| `EncryptedBlobProofs!LogStaysOrdered` | `LogIsOrdered` | invariant `PositionsAgree`: every copy of the folder, in memory, fetched or about to be stored, agrees on which path has a position. Hypothesis: one adapter that is never reset; calls may overlap and fail |
| `BrowserProofs!PanelIsOfPage`, `BadgeIsOfPanel` | `PanelMatchesPage`, `BadgeMatchesPanel` | invariant `InTurn`: a tick that found a repository works for the page the tab is on, a running tick has a cleared badge before it, and the last event that waits is the one the panel asks for. Hypothesis: calls do not overlap |
| `PanelsAreFresh` | `FreshWithinTTL` | invariant `UpToDate`: what a call holds, and every entry of the cache, lacks nothing older than its own date. No hypothesis: calls may overlap |
| `RefreshIsWhole`, `TakeoversAreTold` | `RefreshShowsAll`, `HolderNeverChangesSilently` | invariant `InStep`: a call knows what was published when it began, its answer is never shorter than the panel it replaces, and chains of longer logs extend. Hypothesis: calls do not overlap |
| `ShownIsRouted` | `ShownProjectIsTheRoutes` | invariant `StoreInv`: without a load under way and without an error, the project that is loaded is the last one asked for, so a load that is skipped is one whose answer is there; `Update` keeps it for every step |
| `CommittedMeansCreated` | `CommittedWholly` | invariant `BundleInv`: for some n the submission has stored the first n entries and no other, they are on the branch, and n + 1 is the next while it is under way; branches only grow (`TreesGrow`) |
| `ShownIsAPrefix` | `ShownChainIsAPrefix` | invariant `ReadWell`: what a load has and still waits for was the whole branch at one instant; a later file sorts after all of it, so the walk of the verifier over the part is where the walk over the whole passes. Hypotheses: files of one branch differ in name, and each is committed after those it sorts behind |
| `CeremonyProofs!PinIsSpentOnce`, `FolderOnlyGrows`, `WhatIsSignedWasShown` | `PinDiscipline`, `NothingIsOverwritten`, `SignedAsShown` | invariant `CeremonyInv`: which visit a stage waits for and where the terminal is open, what a draft owes to the confirmation, and that a card that was not swapped is the one whose key the draft names |
| `RenewalsVerify` | `VerifyStaysOk` | invariant `RenewalInv`, which adds that the files of mandates are whole records one to a name, and that a draft fits the log it was made for and has a fresh id. A track that verifies has the whole of its log as its chain, so what is written after the last name is one `Consume`, and each rule passes |

An invariant that a run checks is seldom inductive. `OneWinnerPerPath` says
nothing of a request between its sha and its PUT, so `Settled` does;
`DatesInOrder` says nothing of the clock a run took before it read the rows, so
`Serial` does; `CommittedWholly` says nothing of which entry is sent next, so
`BundleInv` does; `VerifyStaysOk` says nothing of a mandate that was drafted and waits for a
person, so `MandateInv` does.

*Walks.* What a walk over a log computes is stated without recursion over the data:
`Walk` gives the chain at every position, `StepByStep` passes a fact from each
position to the next (there is no first position where it fails, `LeastNat`), and
`InNameOrder` is read through the rank of each mandate. So the theorems on chains,
releases, folders and pages are about logs of any length.

The hypotheses are not decoration: without `MaxRunning = 1` the registry's
properties are false (two runs may witness one hash twice, and a run with an
older clock can make the next one raise a false alarm), and with a second
adapter the store loses entries. The
extension's theorems and `overlay_late_answer` are two sides of one fact: the late
answer of an overlapping tick is what breaks the panel, and all that breaks it. A
mandate committed to a branch after its successor would appear in the middle of the
chain, and a page that was read before would not show a beginning of it; commits in
the instance of `web_ui` come in order.

`AcknowledgedIsEffective` and `ReportStays` need three. A client that chooses its paths
without care may put a mandate into the directory of another track. A verdict is
looked up by id, so a mandate that reuses an accepted one is let through, and two
mandates of one date are read in the order of their paths, not of their commits:
`NamedApart`. A mandate that was there before and is rejected may come to be accepted
behind the one that lands, and take authority: `StartsVerified`. `MCCommitGate` has
TLC evaluate the last two.

*Model-checked only:* liveness (`WithholdingKills`, `NeverHangs`, `PageSettles`), which
is out of the prover's reach. Every other property of a passing run is a theorem.

## 7. Where the code disagrees with what is written about it

Three runs end in a violation, each of a sentence of the repository:

- `commit_gate_race`: the Worker judges a mandate by the log it read several
  calls before the PUT; two successions that are each right land both, and the
  second is committed although the chain no longer accepts it.
- `overlay_late_answer`: a slow answer for the page before mounts its panel on
  the page after, and nothing repairs it until the next navigation.
- `ceremony_floor`: the pre-flight holds the successors against the floor of the
  new mandate (`upsertMandate.ts:230`), not of its predecessor, so a mandate that
  the verifier rejects is shown, tapped for, signed and written.

Seen while modelling, without a run of their own:

- A malformed object of the followed track is skipped without being recorded
  (`verifier.ts:243`), where spec v1.md 4 has every case accepted or recorded.
- A lease's track is not tested by `verifyOne` (`caEndorsement.ts:70`), although
  it is what the lease is documented to be scoped to (`types.ts:106`).
- A build pinned after the first release accepts none of them: the first release
  must have no predecessor (`endorsement.ts:76`) and be dated within the chain
  (spec v1.md 4.1 says that pins are each independently valid).
- The Worker looks its verdict up by id (`policy.ts:446-449`), so a mandate that
  reuses an accepted id is let through and then has no effect. It judges a candidate
  as the last of its log, but reads mandates of one date in the order of their paths
  (`worker.ts:426`), where the candidate may come first and displace the other.
- Two overlapping runs of the bot may witness a hash twice (`bot.ts:226`), and a
  run with an older clock causes a false tamper alarm in the next
  (`action.ts:112`). Continuity lets a chain step back to an older mandate
  (`checkpointBot.ts:387`).
- One mandate with a date that does not parse, next to others, leaves them to be
  verified in an order that is the engine's (`fetchClient.ts:332`, and the same sort in
  `worker.ts:426`, `action.ts:178`, `fetcher.ts:175`, `parse-folder.ts:139`): a
  succession that is read before its predecessor is dropped, and what was settled by it
  is not any more. The verifier itself would have passed over that mandate.
- Two devices on one blob overwrite each other, and two snapshots of one adapter
  may be stored in the other order (`encryptedBlobAdapter.ts:211`). A `reset()`
  during a write empties what the write then stores (`encryptedBlobAdapter.ts:209`).
- The token that signs is not the one that was compared with the bytes
  (`ceremony.ts:294`): a card swapped at the PIN prompt, or a second token in a
  second reader, yields a file whose signature is bad, and nothing verifies it
  before it is written.
- The first reader that announces itself is the only one an attempt looks at, even
  if it is empty and a token is in the second. A connect that completes after the
  attempt's timer is never disconnected (`piv-pcsc.ts:546`), where the comment at
  `piv-pcsc.ts:417` says that a card handle is never leaked. A card that is gone in
  mid-exchange "will be retried" by its message, and is not.
- Two mandates of one second are read in the order of their random ids
  (`store.ts:214`). A mandate that arrives between a command's read and its write is
  neither noticed nor replaced (`upsertMandate.ts:380`). A write cut short by a crash
  leaves a file on which every later command of the track fails (`store.ts:111`).
- `boolFlag` is said to fail safe (`args.ts:66`), but `--dry-run=other` is a real run.
- The page: the error of another project stays on the page of a loaded one
  (`app.ts:74`); a project whose load failed is not loaded again until another was
  tried (`app.ts:66`); `@ref` is not a part of the canonical url, so a tab of a
  branch's page leads to the route of the project with that branch's files.
- A listing that is lost, with `README.md` there, shows a project that declares
  nothing; a fetch that is rejected keeps the part that was there and shows it as
  the whole, so that the second mandate may appear as the origin (`adapter.ts:307`).
  The extension can do the same (`verifier-logic.ts:90`).
- A bundle that fails half-way stays half stored, and its retry is refused on the
  file that exists, since the PUT names no sha (`adapter.ts:208`).

## 8. What is not modelled, and the plan

Not modelled because nothing in it changes state: canonical encoding, crypto,
CBOR, ZIP, DOM, URL matching, the generators of test vectors and bundles.

Of parts that are modelled:

- *Worker*: the fallback counter of the rate limit (`worker.ts:238`), whose effect
  `Arrive` allows at any time, and the allow-list of repositories.
- *Checkpoint bot*: the text of the CSV, labels and comments on pull requests.
- *CLI*: the wizard, which assembles a command line and runs it; durations as
  text; the generation of file keys; the resolution of an endorsement's
  intermediates by `git`; the printing of `status` and `verify`.
- *Token*: the bytes of an APDU, and the card handle that a late callback leaks.
- *Web UI*: a list of known paths, the drafts of the propose tab, what the tabs
  contain, a malformed first mandate that makes the drawing throw, and the page's
  clock, which is taken once when it is mounted (`app.ts:53`).
- *Extension*: several tracks, endorsement alarms, the whitelist editor.
- *Fetch client* (`fetchClient.ts`): one call without state. The verification it
  calls is modelled, and the loss of a part of a folder in `ExtensionOverlay` and
  `WebUi`, which fetch likewise.

Theorems next: that tracks verify again once nobody who was overtaken is under way;
the type invariants of `Ceremony` and `CommitGate` as a whole, of which the proofs use
the parts they need; and `LogIsOrdered` with resets between calls.
