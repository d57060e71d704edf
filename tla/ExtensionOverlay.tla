-------------------------- MODULE ExtensionOverlay --------------------------
(***************************************************************************)
(* The browser extension (packages/extension/src): on every navigation of  *)
(* a tab the content script detects a repository page, fetches its         *)
(* .maintainers/ files through a cache in the extension's storage, and     *)
(* mounts a panel with what the verifier says; the background worker keeps *)
(* the badge; the popup goes through the same cache and can refresh it.    *)
(* A call is split at its awaits.  Having no pin, the extension anchors a  *)
(* track at the first mandate it was served.                               *)
(*                                                                         *)
(* External: the browser (events reach the background in order, a tab that *)
(* goes to another URL is reported as loading) and the project, which      *)
(* publishes a mandate of one track on the day it is dated.                *)
(***************************************************************************)
EXTENDS Verifier

CONSTANTS
  Page,         \* URLs
  Repo,         \* repositories
  NoRepo,       \* what detectRepo finds on any other page
  RepoOf,       \* what it finds on each page
  MandatesOf,   \* what each repository may publish
  Call,         \* runs of tick and of the popup's render that may overlap
  NoData,       \* no cached snapshot
  Nobody,       \* no live mandate
  TTL,          \* CACHE_TTL_MS
  ExpirySoon,   \* EXPIRY_SOON_MS
  Failures,     \* TRUE: fetches may fail and files may be malformed
  Slow,         \* bound on how long a call takes
  MaxMail,      \* bound on the events that wait for the background
  MaxTime       \* bound on the clock

(* What one fetch brought back: the mandates that arrived, how many the      *)
(* index listed, how many errors there were, and when it was complete.       *)
Snapshot == [log : Seq(Mandate), listed : Nat, errors : Nat, fetchedAt : Nat]
Alarm == {"takeover", "expiring-soon", "chain-gap", "fetch-failed"}
OverlayState ==
  [mandate : Mandate \cup {Nobody}, alarms : Seq(Alarm), data : Snapshot \cup {NoData}]
Panel == [repo : Repo, state : OverlayState]
NoPanel == [repo |-> NoRepo]   \* nothing mounted, nothing rendered
Badge == [count : Nat, colour : {"none", "red", "yellow"}]
NoBadge == [count |-> 0, colour |-> "none"]

Kind == {"tick", "popup", "refresh"}
Phase == {"idle", "whitelist", "drop", "cache", "index", "files", "write", "show"}
CallState ==
  [kind : Kind, phase : Phase, repo : Repo \cup {NoRepo},
   data : Snapshot \cup {NoData}, began : Nat, known : Nat]

ASSUME OverlayAssumption ==
  /\ RepoOf \in [Page -> Repo \cup {NoRepo}] /\ NoRepo \notin Repo
  /\ \E p \in Page : RepoOf[p] = NoRepo
  /\ MandatesOf \in [Repo -> SUBSET {m \in Mandate : m.defect # "dates"}]
  /\ NoData \notin Snapshot
  /\ Nobody \notin Mandate
  /\ TTL \in Nat /\ ExpirySoon \in Nat /\ Slow \in Nat /\ MaxMail \in Nat
  /\ MaxTime \in Nat /\ Failures \in BOOLEAN

VARIABLES
  url,        \* the page the tab is on
  lastUrl,    \* the page the content script last looked at
  panel,      \* the panel mounted in the page
  view,       \* what the popup shows
  badge,      \* the badge of the tab
  inbox,      \* events the background has not handled
  cache,      \* the extension's storage
  published,  \* what each repository has published
  call,       \* the calls, idle or under way
  now

vars == <<url, lastUrl, panel, view, badge, inbox, cache, published, call, now>>

TypeOK ==
  /\ url \in Page /\ lastUrl \in Page
  /\ panel \in Panel \cup {NoPanel} /\ view \in Panel \cup {NoPanel}
  /\ badge \in Badge
  /\ inbox \in Seq(Badge)
  /\ cache \in [Repo -> Snapshot \cup {NoData}]
  /\ \A r \in Repo : published[r] \in Seq(MandatesOf[r])
  /\ call \in [Call -> CallState]
  /\ now \in Nat

-----------------------------------------------------------------------------
(* WHAT THE PANEL SAYS: computeOverlayState for one track *)

(* Defect: only the newest succession is looked at. *)
TakenOver_Newest(a) ==
  Len(a) > 1 /\ LET m == Last(a)
                    pred == a[Len(a) - 1]
                IN  m.signedBy # pred.holder /\ m.holder # pred.holder

(* detectTakeover: somewhere the holder changed without the old one signing. *)
TakenOver(a) ==
  \E k \in 2 .. Len(a) :
    a[k].signedBy # a[k - 1].holder /\ a[k].holder # a[k - 1].holder

(* verifyTrackChain: the pin is the first mandate's own hash. *)
Anchor(log) ==
  IF log # <<>> /\ HasHash(Head(log)) THEN PinHash(Head(log)) ELSE NoPin
TrackChain(log) == VerifyMandateChainFromPin(Anchor(log), log)

AlarmsOf(ch, t) ==
  (IF TakenOver(ch.accepted) THEN <<"takeover">> ELSE <<>>)
  \o (IF HasAuthority(ch, t) /\ CurrentAuthority(ch, t).expires < t + ExpirySoon
      THEN <<"expiring-soon">> ELSE <<>>)
  \o [k \in DOMAIN ch.rejections |-> "chain-gap"]

ComputeOverlayState(data, t) ==
  LET ch == TrackChain(data.log) IN
  [mandate |-> IF HasAuthority(ch, t) THEN CurrentAuthority(ch, t) ELSE Nobody,
   alarms |-> IF data.listed = 0 THEN <<>>
              ELSE IF ch.accepted = <<>> THEN <<"chain-gap">> ELSE AlarmsOf(ch, t),
   data |-> data]

(* The panel of a tick whose fetch threw. *)
Degraded == [mandate |-> Nobody, alarms |-> <<"fetch-failed">>, data |-> NoData]

BadgeFor(state) ==
  [count |-> Len(state.alarms),
   colour |-> IF state.alarms = <<>> THEN "none"
              ELSE IF ToSet(state.alarms) \cap {"takeover", "chain-gap"} # {} THEN "red"
              ELSE "yellow"]

-----------------------------------------------------------------------------
IdleCall ==
  [kind |-> "tick", phase |-> "idle", repo |-> NoRepo, data |-> NoData, began |-> 0, known |-> 0]

Init ==
  /\ url \in {p \in Page : RepoOf[p] = NoRepo} /\ lastUrl = url
  /\ panel = NoPanel /\ view = NoPanel /\ badge = NoBadge /\ inbox = <<>>
  /\ cache = [r \in Repo |-> NoData]
  /\ published = [r \in Repo |-> <<>>]
  /\ call = [c \in Call |-> IdleCall]
  /\ now = 0

At(c, ph) == call[c].phase = ph
GoTo(c, ph) == call' = [call EXCEPT ![c].phase = ph]
GoWith(c, ph, data) == call' = [call EXCEPT ![c].phase = ph, ![c].data = data]
End(c) == call' = [call EXCEPT ![c] = IdleCall]

NewCall(kind, phase, repo, known) ==
  [kind |-> kind, phase |-> phase, repo |-> repo, data |-> NoData,
   began |-> now, known |-> known]
NewTick == NewCall("tick", "whitelist", NoRepo, 0)

(* The tab reports another URL: the background clears the badge. *)
Reported(p) == IF p = url THEN inbox ELSE Append(inbox, NoBadge)

(* A navigation inside the document, or an event without one: every hook     *)
(* calls tick, which returns at once if the URL is the one it last saw.      *)
Visit(c, p) ==
  /\ At(c, "idle") /\ Len(inbox) < MaxMail
  /\ url' = p /\ inbox' = Reported(p)
  /\ lastUrl' = p
  /\ call' = IF p = lastUrl THEN call ELSE [call EXCEPT ![c] = NewTick]
  /\ UNCHANGED <<panel, view, badge, cache, published, now>>

(* A page is loaded: a new document, a new content script, none of the old   *)
(* script's calls.                                                           *)
Load(c, p) ==
  /\ At(c, "idle") /\ Len(inbox) < MaxMail
  /\ url' = p /\ lastUrl' = p /\ panel' = NoPanel
  /\ inbox' = Append(inbox, NoBadge)
  /\ call' = [d \in Call |-> IF d = c THEN NewTick
                             ELSE IF call[d].kind = "tick" THEN IdleCall
                             ELSE call[d]]
  /\ UNCHANGED <<view, badge, cache, published, now>>

(* Defect: leaving the repositories takes nothing down. *)
DetectRepo_KeepPanel(c) ==
  /\ At(c, "whitelist")
  /\ IF RepoOf[url] = NoRepo THEN End(c)
     ELSE call' = [call EXCEPT ![c].phase = "cache", ![c].repo = RepoOf[url]]
  /\ UNCHANGED <<url, lastUrl, panel, view, badge, inbox, cache, published, now>>

(* tick, once the whitelist is there: the page is the one the tab is on now. *)
DetectRepo(c) ==
  /\ At(c, "whitelist")
  /\ IF RepoOf[url] = NoRepo THEN End(c) /\ panel' = NoPanel
     ELSE /\ call' = [call EXCEPT ![c].phase = "cache", ![c].repo = RepoOf[url]]
          /\ UNCHANGED panel
  /\ UNCHANGED <<url, lastUrl, view, badge, inbox, cache, published, now>>

(* The popup opens on a repository page, or its refresh button is pressed. *)
Render(c, kind) ==
  /\ At(c, "idle") /\ RepoOf[url] # NoRepo
  /\ call' = [call EXCEPT ![c] =
       NewCall(kind, IF kind = "refresh" THEN "drop" ELSE "cache",
               RepoOf[url], Len(published[RepoOf[url]]))]
  /\ view' = NoPanel
  /\ UNCHANGED <<url, lastUrl, panel, badge, inbox, cache, published, now>>

(* Defect: the value stays. *)
DropCache_Nothing(c) ==
  /\ At(c, "drop")
  /\ GoTo(c, "cache")
  /\ UNCHANGED <<url, lastUrl, panel, view, badge, inbox, cache, published, now>>

(* A refresh empties the cached value first. *)
DropCache(c) ==
  /\ At(c, "drop")
  /\ cache' = [cache EXCEPT ![call[c].repo] = NoData]
  /\ GoTo(c, "cache")
  /\ UNCHANGED <<url, lastUrl, panel, view, badge, inbox, published, now>>

-----------------------------------------------------------------------------
(* Defect: the badge is told only when there is something to tell. *)
Finish_TellAlarms(c, state) ==
  /\ End(c)
  /\ IF call[c].kind = "tick"
     THEN /\ panel' = [repo |-> call[c].repo, state |-> state]
          /\ inbox' = IF BadgeFor(state).colour = "red" THEN Append(inbox, BadgeFor(state)) ELSE inbox
          /\ UNCHANGED view
     ELSE view' = [repo |-> call[c].repo, state |-> state] /\ UNCHANGED <<panel, inbox>>

(* tick mounts its panel and tells the background; the popup renders. *)
Finish(c, state) ==
  /\ End(c)
  /\ IF call[c].kind = "tick"
     THEN /\ panel' = [repo |-> call[c].repo, state |-> state]
          /\ inbox' = Append(inbox, BadgeFor(state))
          /\ UNCHANGED view
     ELSE view' = [repo |-> call[c].repo, state |-> state] /\ UNCHANGED <<panel, inbox>>

(* Defect: what is cached is served whatever its age. *)
Usable_AnyAge(data) == data # NoData

(* readCache accepts a snapshot until it is older than the TTL. *)
Usable(data) == data # NoData /\ now <= data.fetchedAt + TTL

(* fetchMaintainers: a hit is shown at once. *)
ReadCache(c) ==
  /\ At(c, "cache")
  /\ IF Usable(cache[call[c].repo])
     THEN Finish(c, ComputeOverlayState(cache[call[c].repo], now))
     ELSE GoTo(c, "index") /\ UNCHANGED <<panel, view, inbox>>
  /\ UNCHANGED <<url, lastUrl, badge, cache, published, now>>

(* The index is there from the first publication on; no branch having one is *)
(* an answer like any other.                                                 *)
FetchIndex(c) ==
  LET log == published[call[c].repo] IN
  /\ At(c, "index")
  /\ \/ /\ log # <<>>
        /\ GoWith(c, "files", [log |-> log, listed |-> Len(log), errors |-> 0, fetchedAt |-> now])
     \/ /\ log = <<>> \/ Failures
        /\ GoWith(c, "write", [log |-> <<>>, listed |-> 0, errors |-> 1, fetchedAt |-> now])
  /\ UNCHANGED <<url, lastUrl, panel, view, badge, inbox, cache, published, now>>

Part(log, kept) ==
  LET place == [k \in kept |-> Cardinality({j \in kept : j <= k})]
  IN  [p \in 1 .. Cardinality(kept) |-> log[CHOOSE k \in kept : place[k] = p]]

(* Each listed file arrives or is left out; then the log is sorted by date.  *)
(* (Published files never change, so it does not matter when each is read.)  *)
FetchFiles(c) ==
  /\ At(c, "files")
  /\ \E kept \in SUBSET DOMAIN call[c].data.log :
       /\ Failures \/ kept = DOMAIN call[c].data.log
       /\ GoWith(c, "write", [call[c].data EXCEPT
            !.fetchedAt = now, !.errors = Len(call[c].data.log) - Cardinality(kept),
            !.log = SortedByIssue(Part(@, kept))])
  /\ UNCHANGED <<url, lastUrl, panel, view, badge, inbox, cache, published, now>>

(* A key file that is null makes the fetch throw; one without its history,   *)
(* or an endorsement that is no object, makes the verification throw, from   *)
(* the cache too.  tick mounts a degraded panel, the popup stays empty.      *)
Broken(data) == Failures /\ data.listed > 0
Throws(c) ==
  /\ \/ At(c, "files") /\ Failures
     \/ At(c, "show") /\ Broken(call[c].data)
     \/ At(c, "cache") /\ Usable(cache[call[c].repo]) /\ Broken(cache[call[c].repo])
  /\ IF call[c].kind = "tick" THEN Finish(c, Degraded)
     ELSE End(c) /\ UNCHANGED <<panel, view, inbox>>
  /\ UNCHANGED <<url, lastUrl, badge, cache, published, now>>

WriteCache(c) ==
  /\ At(c, "write")
  /\ cache' = [cache EXCEPT ![call[c].repo] = call[c].data]
  /\ GoTo(c, "show")
  /\ UNCHANGED <<url, lastUrl, panel, view, badge, inbox, published, now>>

Show(c) ==
  /\ At(c, "show")
  /\ Finish(c, ComputeOverlayState(call[c].data, now))
  /\ UNCHANGED <<url, lastUrl, badge, cache, published, now>>

-----------------------------------------------------------------------------
(* The background handles its next event. *)
Deliver ==
  /\ inbox # <<>>
  /\ badge' = Head(inbox) /\ inbox' = Tail(inbox)
  /\ UNCHANGED <<url, lastUrl, panel, view, cache, published, call, now>>

Publish(r, m) ==
  /\ m.issued = now /\ m \notin ToSet(published[r])
  /\ published' = [published EXCEPT ![r] = Append(@, m)]
  /\ UNCHANGED <<url, lastUrl, panel, view, badge, inbox, cache, call, now>>

Tick ==
  /\ now < MaxTime
  /\ \A c \in Call : ~At(c, "idle") => now < call[c].began + Slow
  /\ now' = now + 1
  /\ UNCHANGED <<url, lastUrl, panel, view, badge, inbox, cache, published, call>>

Step(c) ==
  \/ \E p \in Page : Visit(c, p) \/ Load(c, p)
  \/ \E kind \in {"popup", "refresh"} : Render(c, kind)
  \/ DetectRepo(c) \/ DropCache(c) \/ ReadCache(c) \/ FetchIndex(c)
  \/ FetchFiles(c) \/ Throws(c) \/ WriteCache(c) \/ Show(c)

Next ==
  \/ \E c \in Call : Step(c)
  \/ Deliver
  \/ \E r \in Repo : \E m \in MandatesOf[r] : Publish(r, m)
  \/ Tick

Spec == Init /\ [][Next]_vars

-----------------------------------------------------------------------------
(* PROPERTIES *)

Ticking == \E c \in Call : call[c].kind = "tick" /\ ~At(c, "idle")

(* When the content script is at rest, the panel is that of the page the tab *)
(* is on, and there is none on a page of no repository ("Re-runs on SPA      *)
(* navigation", content-script.ts 9): no late answer shows one repository's  *)
(* holders on another's page.                                                *)
PanelMatchesPage ==
  ~Ticking => panel.repo = RepoOf[url]

(* When the script is at rest and every event was handled, the badge counts  *)
(* the alarms of the panel, in the colour of the worst, and is clear when    *)
(* there is no panel (background.ts, content-script.ts 98-107).              *)
BadgeMatchesPanel ==
  ~Ticking /\ inbox = <<>> =>
    badge = IF panel = NoPanel THEN NoBadge ELSE BadgeFor(panel.state)

(* Nothing that the extension fetched went wrong.                            *)
Sound(p) == p # NoPanel /\ p.state.data # NoData /\ p.state.data.errors = 0

(* A panel is never older than the cache allows: if nothing was lost on the  *)
(* way, whatever was published before the TTL and the time of one fetch is   *)
(* in it.                                                                    *)
FreshWithinTTL ==
  [][panel' # panel /\ Sound(panel') =>
       \A m \in ToSet(published[panel'.repo]) :
         m.issued + TTL + Slow < now => m \in ToSet(panel'.state.data.log)]_vars

(* A refresh shows all that was published when the button was pressed,       *)
(* whatever the content script left in the cache they share (popup.ts 80-84). *)
RefreshShowsAll ==
  [][\A c \in Call :
       /\ call[c].kind = "refresh" /\ call'[c] = IdleCall
       /\ Sound(view')
       => call[c].known <= Len(view'.state.data.log)]_vars

(* From one panel of a repository to the next, the holder it names never     *)
(* changes silently: there is a takeover alarm, or the old mandate expired,  *)
(* or every change since was signed by the holder it displaced.              *)
HandedOver(a, m, n) ==
  \E i, j \in DOMAIN a : /\ i < j /\ a[i] = m /\ a[j] = n
                         /\ \A k \in i + 1 .. j : \/ a[k].signedBy = a[k - 1].holder
                                                  \/ a[k].holder = a[k - 1].holder
HolderNeverChangesSilently ==
  [][/\ Sound(panel) /\ Sound(panel') /\ panel'.repo = panel.repo
     /\ panel.state.mandate # Nobody /\ panel'.state.mandate # Nobody
     /\ panel.state.mandate.holder # panel'.state.mandate.holder
     => \/ "takeover" \in ToSet(panel'.state.alarms)
        \/ panel.state.mandate.expires <= now
        \/ HandedOver(TrackChain(published[panel.repo]).accepted,
                      panel.state.mandate, panel'.state.mandate)]_vars
=============================================================================
