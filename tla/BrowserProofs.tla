---------------------------- MODULE BrowserProofs ----------------------------
(***************************************************************************)
(* What a person sees in a browser.  The panel of the extension is never   *)
(* older than the cache allows, whatever calls overlap; as long as none    *)
(* do, panel and badge say what is right, a refresh is whole and a         *)
(* takeover is told, for any pages, repositories, mandates, TTL and        *)
(* failures.  What the status page shows belongs to its route, and is a    *)
(* beginning of what its branch holds as long as files come in the order   *)
(* of their names; a bundle that is reported as committed was created as a *)
(* whole, for every set of urls, repositories and bundles.                 *)
(***************************************************************************)
EXTENDS ExtensionOverlay, WebUi, VerifierProofs

-----------------------------------------------------------------------------
(* THE EXTENSION, ONE CALL AT A TIME *)

OneAtATime == \A c, d \in Call : c = d

(* Calls are records; what a snapshot holds does not matter here. *)
CallFields == {"kind", "phase", "repo", "data", "began", "known"}
CallsAreRecords ==
  DOMAIN call = Call /\ \A c \in Call : DOMAIN call[c] = CallFields

(* Only ticks ask for the whitelist, and one that has found a repository     *)
(* works for the page the tab is on.                                         *)
OnPage(c) ==
  /\ call[c].phase = "whitelist" => call[c].kind = "tick"
  /\ call[c].kind = "tick" /\ call[c].phase \notin {"idle", "whitelist"} =>
       call[c].repo = RepoOf[url] /\ RepoOf[url] # NoRepo

(* The event that decides the badge once all are handled, and what the panel *)
(* asks of it.                                                               *)
IsInbox == \E S : inbox \in Seq(S)
Latest == IF inbox = <<>> THEN badge ELSE inbox[Len(inbox)]
Asked == IF panel = NoPanel THEN NoBadge ELSE BadgeFor(panel.state)

(* The invariant: a tick runs only after a navigation, which cleared the     *)
(* badge; at rest the panel is the page's and the badge the panel's.         *)
InTurn ==
  /\ CallsAreRecords
  /\ url \in Page /\ lastUrl = url
  /\ \A c \in Call : OnPage(c)
  /\ PanelMatchesPage
  /\ IsInbox
  /\ Latest = IF Ticking THEN NoBadge ELSE Asked

-----------------------------------------------------------------------------
(* The ways a step moves its call on. *)
Moved(c) ==
  /\ CallsAreRecords'
  /\ call'[c].kind = call[c].kind /\ call'[c].repo = call[c].repo
  /\ call'[c].began = call[c].began /\ call'[c].known = call[c].known
  /\ \A d \in Call : d # c => call'[d] = call[d]

LEMMA Moves ==
  ASSUME CallsAreRecords, NEW c \in Call, NEW ph, NEW data
  PROVE  /\ GoTo(c, ph) => /\ Moved(c)
                           /\ call'[c].phase = ph /\ call'[c].data = call[c].data
         /\ GoWith(c, ph, data) => Moved(c) /\ call'[c].phase = ph /\ call'[c].data = data
         /\ End(c) => /\ CallsAreRecords' /\ call'[c] = IdleCall
                      /\ \A d \in Call : d # c => call'[d] = call[d]
BY DEF Moved, CallsAreRecords, CallFields, GoTo, GoWith, End, IdleCall

LEMMA NewCallIsRecord ==
  ASSUME NEW kind, NEW phase, NEW repo, NEW known
  PROVE  /\ DOMAIN NewCall(kind, phase, repo, known) = CallFields
         /\ NewCall(kind, phase, repo, known).kind = kind
         /\ NewCall(kind, phase, repo, known).phase = phase
         /\ NewCall(kind, phase, repo, known).repo = repo
BY DEF NewCall, CallFields

(* One more event, and one handled. *)
LEMMA InboxAppend ==
  ASSUME IsInbox, NEW e, inbox' = Append(inbox, e)
  PROVE  IsInbox' /\ Latest' = e
<1>1. PICK S : inbox \in Seq(S)
  BY DEF IsInbox
<1>2. inbox \in Seq(S \cup {e}) /\ e \in S \cup {e}
  BY <1>1
<1>3. inbox' \in Seq(S \cup {e}) /\ inbox'[Len(inbox')] = e /\ inbox' # <<>>
  BY <1>2
<1> QED
  BY <1>3 DEF IsInbox, Latest

LEMMA InboxDeliver ==
  ASSUME IsInbox, Deliver
  PROVE  IsInbox' /\ Latest' = Latest
<1>1. PICK S : inbox \in Seq(S)
  BY DEF IsInbox
<1>2. inbox' \in Seq(S)
  BY <1>1 DEF Deliver
<1>3. CASE Len(inbox) = 1
  BY <1>1, <1>2, <1>3 DEF Deliver, IsInbox, Latest
<1>4. CASE Len(inbox) # 1
  <2> DEFINE n == Len(inbox)
  <2>3. n \in Nat /\ n # 0
    BY <1>1 DEF Deliver
  <2>4. inbox' = Tail(inbox)
    BY DEF Deliver
  <2>5. n > 1
    BY <1>4, <2>3
  <2>6. inbox # <<>>
    BY DEF Deliver
  <2>7. Len(Tail(inbox)) = Len(inbox) - 1
    BY <1>1, <2>6
  <2>1. n > 1 /\ Len(inbox') = n - 1
    BY <2>4, <2>5, <2>7
  <2>2. inbox'[Len(inbox')] = inbox[Len(inbox)]
    BY <1>1, <2>1 DEF Deliver
  <2> QED
    BY <1>1, <1>2, <2>1, <2>2 DEF IsInbox, Latest
<1> QED
  BY <1>3, <1>4

-----------------------------------------------------------------------------
(* With one call there are few ways to be ticking. *)
LEMMA OneTick ==
  ASSUME OneAtATime, NEW c \in Call
  PROVE  /\ Ticking <=> call[c].kind = "tick" /\ call[c].phase # "idle"
         /\ Ticking' <=> call'[c].kind = "tick" /\ call'[c].phase # "idle"
         /\ OnPage(c)' => \A d \in Call : OnPage(d)'
BY DEF OneAtATime, Ticking, At, OnPage

(* A step that moves the call on and shows nothing yet. *)
LEMMA MovesOn ==
  ASSUME OneAtATime, InTurn, NEW c \in Call, CallsAreRecords',
         call[c].phase \notin {"idle", "whitelist"},
         call'[c].kind = call[c].kind, call'[c].repo = call[c].repo,
         call'[c].phase \notin {"idle", "whitelist"},
         UNCHANGED <<url, lastUrl, panel, badge, inbox>>
  PROVE  InTurn'
<1>1. Ticking' <=> Ticking
  BY OneTick
<1>2. OnPage(c)'
  BY DEF InTurn, OnPage
<1>3. Latest' = Latest /\ Asked' = Asked /\ IsInbox' /\ (PanelMatchesPage <=> PanelMatchesPage')
  BY <1>1 DEF InTurn, Latest, Asked, IsInbox, PanelMatchesPage
<1> QED
  BY <1>1, <1>2, <1>3, OneTick DEF InTurn

LEMMA GoesOn ==
  ASSUME OneAtATime, InTurn, NEW c \in Call, NEW ph \in {"cache", "index", "files", "write", "show"},
         NEW data, GoTo(c, ph) \/ GoWith(c, ph, data),
         call[c].phase \notin {"idle", "whitelist"},
         UNCHANGED <<url, lastUrl, panel, badge, inbox>>
  PROVE  InTurn'
<1>1. CallsAreRecords
  BY DEF InTurn
<1>2. /\ CallsAreRecords' /\ call'[c].kind = call[c].kind
      /\ call'[c].repo = call[c].repo /\ call'[c].phase = ph
  BY <1>1, Moves DEF Moved
<1> QED
  BY <1>2, MovesOn

(* A call that ends with something to show. *)
LEMMA FinishInTurn ==
  ASSUME OneAtATime, InTurn, NEW c \in Call, NEW state, Finish(c, state),
         call[c].phase \notin {"idle", "whitelist"},
         UNCHANGED <<url, lastUrl, badge>>
  PROVE  InTurn'
<1>1. CallsAreRecords' /\ call'[c] = IdleCall
  BY Moves DEF Finish, InTurn
<1>2. ~Ticking' /\ OnPage(c)'
  BY <1>1, OneTick DEF IdleCall, OnPage
<1>3. CASE call[c].kind = "tick"
  <2>1. panel' = [repo |-> call[c].repo, state |-> state] /\ inbox' = Append(inbox, BadgeFor(state))
    BY <1>3 DEF Finish
  <2>2. IsInbox' /\ Latest' = BadgeFor(state)
    BY <2>1, InboxAppend DEF InTurn
  <2>3. panel'.repo = RepoOf[url] /\ panel'.repo # NoRepo /\ panel'.state = state
    BY <2>1, <1>3 DEF InTurn, OnPage
  <2>4. Asked' = BadgeFor(state)
    BY <2>3 DEF Asked, NoPanel
  <2>5. PanelMatchesPage'
    BY <2>3 DEF PanelMatchesPage
  <2> QED
    BY <1>1, <1>2, <2>2, <2>4, <2>5, OneTick DEF InTurn
<1>4. CASE call[c].kind # "tick"
  <2>1. UNCHANGED <<panel, inbox>> /\ ~Ticking
    BY <1>4, OneTick DEF Finish
  <2>2. Latest' = Latest /\ Asked' = Asked /\ IsInbox' /\ PanelMatchesPage'
    BY <2>1 DEF InTurn, Latest, Asked, IsInbox, PanelMatchesPage
  <2> QED
    BY <1>1, <1>2, <2>1, <2>2, OneTick DEF InTurn
<1> QED
  BY <1>3, <1>4

(* A step that leaves all of it alone. *)
LEMMA ElsewhereInTurn ==
  ASSUME InTurn, UNCHANGED <<url, lastUrl, panel, badge, inbox, call>>
  PROVE  InTurn'
<1>1. /\ CallsAreRecords' /\ (Ticking' <=> Ticking) /\ (\A c \in Call : OnPage(c)')
      /\ PanelMatchesPage' /\ IsInbox' /\ Latest' = Latest /\ Asked' = Asked
  BY DEF InTurn, CallsAreRecords, Ticking, At, OnPage, PanelMatchesPage, IsInbox, Latest, Asked
<1> QED
  BY <1>1 DEF InTurn

LEMMA InTurnStep ==
  ASSUME OneAtATime, InTurn, [Next]_vars
  PROVE  InTurn'
<1>1. CASE UNCHANGED vars
  BY <1>1, ElsewhereInTurn DEF vars
<1>2. ASSUME NEW c \in Call, NEW p \in Page, Visit(c, p) PROVE InTurn'
  <2>1. ~Ticking /\ lastUrl = url
    BY <1>2, OneTick DEF Visit, At, InTurn
  <2>2. CASE p = url
    BY <1>2, <2>1, <2>2, ElsewhereInTurn DEF Visit, Reported, InTurn
  <2>3. CASE p # url
    <3>1. call' = [call EXCEPT ![c] = NewTick] /\ inbox' = Append(inbox, NoBadge)
      BY <1>2, <2>1, <2>3 DEF Visit, Reported
    <3>2. CallsAreRecords' /\ call'[c] = NewTick
      BY <3>1, NewCallIsRecord DEF InTurn, CallsAreRecords, NewTick
    <3>3. call'[c].kind = "tick" /\ call'[c].phase = "whitelist"
      BY <3>2, NewCallIsRecord DEF NewTick
    <3>4. Ticking' /\ OnPage(c)' /\ PanelMatchesPage'
      BY <3>3, OneTick DEF OnPage, PanelMatchesPage
    <3>5. IsInbox' /\ Latest' = NoBadge
      BY <3>1, InboxAppend DEF InTurn
    <3>6. url' \in Page /\ lastUrl' = url'
      BY <1>2 DEF Visit
    <3> QED
      BY <3>2, <3>4, <3>5, <3>6, OneTick DEF InTurn
  <2> QED
    BY <2>2, <2>3
<1>3. ASSUME NEW c \in Call, NEW p \in Page, Load(c, p) PROVE InTurn'
  <2>1. call' = [d \in Call |-> NewTick]
    BY <1>3 DEF Load, OneAtATime
  <2>2. CallsAreRecords' /\ call'[c] = NewTick
    BY <2>1, NewCallIsRecord DEF CallsAreRecords, NewTick
  <2>3. call'[c].kind = "tick" /\ call'[c].phase = "whitelist"
    BY <2>2, NewCallIsRecord DEF NewTick
  <2>4. Ticking' /\ OnPage(c)' /\ PanelMatchesPage'
    BY <2>3, OneTick DEF OnPage, PanelMatchesPage
  <2>5. IsInbox' /\ Latest' = NoBadge
    BY <1>3, InboxAppend DEF InTurn, Load
  <2>6. url' \in Page /\ lastUrl' = url'
    BY <1>3 DEF Load
  <2> QED
    BY <2>2, <2>4, <2>5, <2>6, OneTick DEF InTurn
<1>4. ASSUME NEW c \in Call, DetectRepo(c) PROVE InTurn'
  <2>1. CASE RepoOf[url] = NoRepo
    <3>1. CallsAreRecords' /\ call'[c] = IdleCall
      BY <1>4, <2>1, Moves DEF DetectRepo, InTurn
    <3>2. ~Ticking' /\ OnPage(c)'
      BY <3>1, OneTick DEF IdleCall, OnPage
    <3>3. panel' = NoPanel /\ UNCHANGED <<url, lastUrl, badge, inbox>>
      BY <1>4, <2>1 DEF DetectRepo
    <3>4. Asked' = NoBadge /\ PanelMatchesPage'
      BY <2>1, <3>3 DEF Asked, NoPanel, PanelMatchesPage
    <3>5. Latest = NoBadge
      BY <1>4, OneTick DEF DetectRepo, At, InTurn, OnPage
    <3>6. IsInbox' /\ Latest' = Latest
      BY <3>3 DEF InTurn, IsInbox, Latest
    <3> QED
      BY <3>1, <3>2, <3>3, <3>4, <3>5, <3>6, OneTick DEF InTurn
  <2>2. CASE RepoOf[url] # NoRepo
    <3>1. call' = [call EXCEPT ![c].phase = "cache", ![c].repo = RepoOf[url]]
          /\ UNCHANGED <<url, lastUrl, panel, badge, inbox>>
      BY <1>4, <2>2 DEF DetectRepo
    <3>2. /\ CallsAreRecords' /\ call'[c].kind = call[c].kind
          /\ call'[c].phase = "cache" /\ call'[c].repo = RepoOf[url]
      BY <3>1 DEF InTurn, CallsAreRecords, CallFields
    <3>3. Ticking /\ Ticking'
      BY <1>4, <3>2, OneTick DEF DetectRepo, At, InTurn, OnPage
    <3>4. OnPage(c)' /\ PanelMatchesPage'
      BY <2>2, <3>1, <3>2, <3>3 DEF OnPage, PanelMatchesPage
    <3>5. IsInbox' /\ Latest' = Latest
      BY <3>1 DEF InTurn, IsInbox, Latest
    <3> QED
      BY <3>1, <3>2, <3>3, <3>4, <3>5, OneTick DEF InTurn
  <2> QED
    BY <2>1, <2>2
<1>5. ASSUME NEW c \in Call, NEW kind \in {"popup", "refresh"}, Render(c, kind) PROVE InTurn'
  <2> DEFINE first == IF kind = "refresh" THEN "drop" ELSE "cache"
             new == NewCall(kind, first, RepoOf[url], Len(published[RepoOf[url]]))
  <2>1. call' = [call EXCEPT ![c] = new] /\ UNCHANGED <<url, lastUrl, panel, badge, inbox>>
    BY <1>5 DEF Render
  <2>2. DOMAIN new = CallFields /\ new.kind = kind /\ new.phase = first
    BY NewCallIsRecord
  <2> HIDE DEF new
  <2>3. CallsAreRecords' /\ call'[c] = new
    BY <2>1, <2>2 DEF InTurn, CallsAreRecords
  <2>4. ~Ticking /\ ~Ticking' /\ OnPage(c)'
    BY <1>5, <2>2, <2>3, OneTick DEF Render, At, OnPage
  <2>5. IsInbox' /\ Latest' = Latest /\ Asked' = Asked /\ PanelMatchesPage'
    BY <2>1, <2>4 DEF InTurn, IsInbox, Latest, Asked, PanelMatchesPage
  <2> QED
    BY <2>1, <2>3, <2>4, <2>5, OneTick DEF InTurn
<1>6. ASSUME NEW c \in Call, DropCache(c) PROVE InTurn'
  BY <1>6, GoesOn DEF DropCache, At
<1>7. ASSUME NEW c \in Call, ReadCache(c) PROVE InTurn'
  <2>1. CASE Usable(cache[call[c].repo])
    BY <1>7, <2>1, FinishInTurn DEF ReadCache, At
  <2>2. CASE ~Usable(cache[call[c].repo])
    BY <1>7, <2>2, GoesOn DEF ReadCache, At
  <2> QED
    BY <2>1, <2>2
<1>8. ASSUME NEW c \in Call, FetchIndex(c) PROVE InTurn'
  <2>1. PICK data : GoWith(c, "files", data) \/ GoWith(c, "write", data)
    BY <1>8 DEF FetchIndex
  <2> QED
    BY <1>8, <2>1, GoesOn DEF FetchIndex, At
<1>9. ASSUME NEW c \in Call, FetchFiles(c) PROVE InTurn'
  <2>1. PICK data : GoWith(c, "write", data)
    BY <1>9 DEF FetchFiles
  <2> QED
    BY <1>9, <2>1, GoesOn DEF FetchFiles, At
<1>10. ASSUME NEW c \in Call, Throws(c) PROVE InTurn'
  <2>1. call[c].phase \notin {"idle", "whitelist"} /\ UNCHANGED <<url, lastUrl, badge>>
    BY <1>10 DEF Throws, At
  <2>2. CASE call[c].kind = "tick"
    BY <1>10, <2>1, <2>2, FinishInTurn DEF Throws
  <2>3. CASE call[c].kind # "tick"
    <3>1. CallsAreRecords' /\ call'[c] = IdleCall /\ UNCHANGED <<panel, inbox>>
      BY <1>10, <2>3, Moves DEF Throws, InTurn
    <3>2. ~Ticking /\ ~Ticking' /\ OnPage(c)'
      BY <2>3, <3>1, OneTick DEF IdleCall, OnPage
    <3>3. IsInbox' /\ Latest' = Latest /\ Asked' = Asked /\ PanelMatchesPage'
      BY <2>1, <3>1, <3>2 DEF InTurn, IsInbox, Latest, Asked, PanelMatchesPage
    <3> QED
      BY <2>1, <3>1, <3>2, <3>3, OneTick DEF InTurn
  <2> QED
    BY <2>2, <2>3
<1>11. ASSUME NEW c \in Call, WriteCache(c) PROVE InTurn'
  BY <1>11, GoesOn DEF WriteCache, At
<1>12. ASSUME NEW c \in Call, Show(c) PROVE InTurn'
  BY <1>12, FinishInTurn DEF Show, At
<1>13. ASSUME Deliver PROVE InTurn'
  <2>1. IsInbox' /\ Latest' = Latest
    BY <1>13, InboxDeliver DEF InTurn
  <2>2. UNCHANGED <<url, lastUrl, panel, call>>
    BY <1>13 DEF Deliver
  <2>3. /\ CallsAreRecords' /\ (Ticking' <=> Ticking) /\ (\A c \in Call : OnPage(c)')
        /\ PanelMatchesPage' /\ Asked' = Asked
    BY <2>2 DEF InTurn, CallsAreRecords, Ticking, At, OnPage, PanelMatchesPage, Asked
  <2> QED
    BY <2>1, <2>2, <2>3 DEF InTurn
<1>14. ASSUME NEW r \in Repo, NEW m \in MandatesOf[r], Publish(r, m) PROVE InTurn'
  BY <1>14, ElsewhereInTurn DEF Publish
<1>15. ASSUME Tick PROVE InTurn'
  BY <1>15, ElsewhereInTurn DEF Tick
<1> QED
  BY <1>1, <1>2, <1>3, <1>4, <1>5, <1>6, <1>7, <1>8, <1>9, <1>10, <1>11, <1>12,
     <1>13, <1>14, <1>15 DEF Next, Step

LEMMA InTurnAlways ==
  ASSUME OneAtATime
  PROVE  Spec => []InTurn
<1>1. Init => InTurn
  <2> SUFFICES ASSUME Init PROVE InTurn
    OBVIOUS
  <2>1. \A c \in Call : call[c] = IdleCall /\ OnPage(c)
    BY DEF Init, IdleCall, OnPage
  <2>2. CallsAreRecords /\ ~Ticking
    BY <2>1 DEF Init, CallsAreRecords, Ticking, At, IdleCall, CallFields
  <2>3. IsInbox /\ Latest = NoBadge /\ Asked = NoBadge
    <3>1. inbox \in Seq({})
      BY DEF Init
    <3> QED
      BY <3>1 DEF Init, IsInbox, Latest, Asked
  <2>4. url \in Page /\ lastUrl = url /\ PanelMatchesPage
    BY DEF Init, PanelMatchesPage, NoPanel
  <2> QED
    BY <2>1, <2>2, <2>3, <2>4 DEF InTurn
<1>2. InTurn /\ [Next]_vars => InTurn'
  BY InTurnStep
<1> QED
  BY <1>1, <1>2, PTL DEF Spec

(* If no two calls overlap, the panel is always that of the page: what the   *)
(* late answer of a tick breaks is all that can break (content-script.ts     *)
(* 56-107).                                                                  *)
THEOREM PanelIsOfPage ==
  ASSUME OneAtATime
  PROVE  Spec => []PanelMatchesPage
<1>1. InTurn => PanelMatchesPage
  BY DEF InTurn
<1> QED
  BY <1>1, InTurnAlways, PTL

(* If no two calls overlap, the badge ends up telling what the panel tells,  *)
(* however late the background handles its events (background.ts 36-66).     *)
THEOREM BadgeIsOfPanel ==
  ASSUME OneAtATime
  PROVE  Spec => []BadgeMatchesPanel
<1>1. InTurn => BadgeMatchesPanel
  BY DEF InTurn, Latest, Asked, BadgeMatchesPanel
<1> QED
  BY <1>1, InTurnAlways, PTL

-----------------------------------------------------------------------------
(* WHAT A SNAPSHOT IS WORTH *)

(* A log is the beginning of what a repository has published, and holds all  *)
(* that is dated before t.                                                   *)
Tells(log, whole, t) ==
  /\ IsStart(log, whole)
  /\ \A k \in DOMAIN whole : whole[k].issued < t => k <= Len(log)

InDateOrder(log) ==
  \A i, j \in DOMAIN log : i <= j => log[i].issued <= log[j].issued

PublishedOnTheDay ==
  /\ DOMAIN published = Repo /\ now \in Nat
  /\ \A r \in Repo : /\ published[r] \in Seq(Mandate)
                     /\ InDateOrder(published[r])
                     /\ \A k \in DOMAIN published[r] : published[r][k].issued <= now

SnapshotFields == {"log", "listed", "errors", "fetchedAt"}

CacheTells ==
  /\ DOMAIN cache = Repo
  /\ \A r \in Repo :
       cache[r] # NoData =>
         /\ DOMAIN cache[r] = SnapshotFields /\ cache[r].fetchedAt \in 0 .. now
         /\ cache[r].errors = 0 =>
              /\ cache[r].listed # 0
              /\ Tells(cache[r].log, published[r], cache[r].fetchedAt - Slow)

(* A call knows its repository, and takes no longer than it may. *)
InTime(c) ==
  /\ call[c].phase \notin {"idle", "whitelist"} => call[c].repo \in Repo
  /\ call[c].phase # "idle" =>
       call[c].began \in Nat /\ call[c].began <= now /\ now <= call[c].began + Slow

Complete(c) ==
  call[c].phase = "files" \/ (call[c].phase \in {"write", "show"} /\ call[c].data.errors = 0)

CallTells(c) ==
  /\ call[c].phase \in {"files", "write", "show"} =>
       /\ DOMAIN call[c].data = SnapshotFields /\ call[c].data.fetchedAt \in 0 .. now
       /\ call[c].data.fetchedAt <= call[c].began + Slow
  /\ Complete(c) =>
       /\ call[c].data.listed # 0
       /\ Tells(call[c].data.log, published[call[c].repo], call[c].began)

(* The invariant: whatever arrived whole, in a call or in the cache, was all *)
(* that had been published when its fetch began.                             *)
UpToDate ==
  /\ CallsAreRecords /\ url \in Page
  /\ PublishedOnTheDay /\ CacheTells
  /\ \A c \in Call : InTime(c) /\ CallTells(c)

-----------------------------------------------------------------------------
LEMMA OverlayConstants ==
  /\ Slow \in Nat /\ TTL \in Nat
  /\ \A p \in Page : RepoOf[p] # NoRepo => RepoOf[p] \in Repo
  /\ \A r \in Repo : MandatesOf[r] \subseteq Mandate
  /\ \A m \in Mandate : m.issued \in Nat
<1>1. /\ Slow \in Nat /\ TTL \in Nat
      /\ \A p \in Page : RepoOf[p] # NoRepo => RepoOf[p] \in Repo
  BY OverlayAssumption
<1>2. \A r \in Repo : MandatesOf[r] \subseteq Mandate
  BY OverlayAssumption
<1>3. \A m \in Mandate : m.issued \in Nat
  BY DEF Mandate
<1> QED
  BY <1>1, <1>2, <1>3

LEMMA TellsMore ==
  ASSUME NEW log, NEW whole, NEW m \in Mandate, NEW t, Tells(log, whole, t), t <= m.issued,
         t \in Int
  PROVE  Tells(log, Append(whole, m), t)
<1>1. whole \in Seq(Mandate) /\ log \in Seq(Mandate) /\ m.issued \in Nat
  BY OverlayConstants DEF Tells, IsStart
<1> DEFINE n == Len(whole)
           more == Append(whole, m)
<1>2. /\ n \in Nat /\ more \in Seq(Mandate) /\ Len(more) = n + 1 /\ more[n + 1] = m
      /\ \A k \in 1 .. n : more[k] = whole[k]
  BY <1>1
<1> HIDE DEF more
<1>3. IsStart(log, more)
  BY <1>1, <1>2 DEF Tells, IsStart
<1>4. ASSUME NEW k \in DOMAIN more, more[k].issued < t PROVE k <= Len(log)
  <2>1. k # n + 1
    BY <1>1, <1>2, <1>4
  <2> QED
    BY <1>1, <1>2, <1>4, <2>1 DEF Tells
<1> QED
  BY <1>3, <1>4 DEF Tells, more

LEMMA TellsLess ==
  ASSUME NEW log, NEW whole, NEW t \in Int, NEW u \in Int, Tells(log, whole, t), u <= t
  PROVE  Tells(log, whole, u)
<1>1. whole \in Seq(Mandate)
  BY DEF Tells, IsStart
<1>2. \A k \in DOMAIN whole : whole[k].issued \in Nat
  BY <1>1, OverlayConstants
<1> QED
  BY <1>2 DEF Tells

(* A fetch that loses no file changes nothing about the log of the index. *)
LEMMA NothingLost ==
  ASSUME NEW log, NEW whole, IsStart(log, whole), InDateOrder(whole),
         NEW kept \in SUBSET DOMAIN log, Len(log) - Cardinality(kept) = 0
  PROVE  SortedByIssue(Part(log, kept)) = log
<1> DEFINE n == Len(log)
<1>1. log \in Seq(Mandate) /\ n \in Nat /\ DOMAIN log = 1 .. n
  BY DEF IsStart
<1>2. IsFiniteSet(1 .. n) /\ Cardinality(1 .. n) = n
  <2> HIDE DEF n
  <2>1. 0 <= n /\ 1 \in Int /\ n \in Int
    BY <1>1
  <2>2. IsFiniteSet(1 .. n) /\ Cardinality(1 .. n) = IF 1 > n THEN 0 ELSE n - 1 + 1
    BY <2>1, FS_Interval
  <2> QED
    BY <2>1, <2>2
<1>3. kept = 1 .. n
  <2>1. IsFiniteSet(kept) /\ Cardinality(kept) \in Nat
    BY <1>1, <1>2, FS_Subset, FS_CardinalityType
  <2>2. Cardinality(kept) = n
    BY <1>1, <2>1
  <2> QED
    BY <1>1, <1>2, <2>2, FS_Subset
<1>4. ASSUME NEW k \in 1 .. n PROVE Cardinality({j \in 1 .. n : j <= k}) = k
  <2>1. {j \in 1 .. n : j <= k} = 1 .. k
    BY <1>1
  <2>2. Cardinality(1 .. k) = k
    BY FS_Interval
  <2> QED
    BY <2>1, <2>2
<1> DEFINE place == [k \in 1 .. n |-> Cardinality({j \in 1 .. n : j <= k})]
<1>5. \A k \in 1 .. n : place[k] = k
  BY <1>4
<1>6. Part(log, kept) = [p \in 1 .. n |-> log[CHOOSE k \in 1 .. n : place[k] = p]]
  BY <1>2, <1>3 DEF Part
<1> HIDE DEF place
<1>7. \A p \in 1 .. n : (CHOOSE k \in 1 .. n : place[k] = p) = p
  BY <1>5
<1>8. Part(log, kept) = [p \in 1 .. n |-> log[p]]
  BY <1>6, <1>7
<1>9. Part(log, kept) = log
  BY <1>1, <1>8
<1>10. \A i, j \in DOMAIN log : i <= j => log[i].issued <= log[j].issued
  <2>1. \A i \in DOMAIN log : i \in DOMAIN whole /\ log[i] = whole[i]
    BY DEF IsStart
  <2> QED
    BY <2>1 DEF InDateOrder
<1> QED
  BY <1>1, <1>9, <1>10, SortedAlready

(* A step of one call. *)
LEMMA CallStep ==
  ASSUME UpToDate, NEW c \in Call, UNCHANGED <<published, now>>, url' \in Page,
         CallsAreRecords', \A d \in Call : d # c => call'[d] = call[d],
         CacheTells', InTime(c)', CallTells(c)'
  PROVE  UpToDate'
<1>1. PublishedOnTheDay'
  BY DEF UpToDate, PublishedOnTheDay
<1>2. ASSUME NEW d \in Call, d # c PROVE InTime(d)' /\ CallTells(d)'
  <2>1. call'[d] = call[d] /\ InTime(d) /\ CallTells(d)
    BY <1>2 DEF UpToDate
  <2> QED
    BY <2>1 DEF InTime, CallTells, Complete
<1> QED
  BY <1>1, <1>2 DEF UpToDate

LEMMA CacheStays ==
  ASSUME UpToDate, UNCHANGED <<published, cache, now>>
  PROVE  CacheTells'
BY DEF UpToDate, CacheTells

(* A call that ends, or has nothing yet. *)
LEMMA CallEnds ==
  ASSUME UpToDate, NEW c \in Call, UNCHANGED <<published, cache, now>>, url' \in Page,
         CallsAreRecords', \A d \in Call : d # c => call'[d] = call[d],
         call'[c].phase \in {"idle", "whitelist", "drop", "cache", "index"},
         InTime(c)'
  PROVE  UpToDate'
<1>1. CallTells(c)'
  BY DEF CallTells, Complete
<1> QED
  BY <1>1, CacheStays, CallStep

LEMMA BeginsInTime ==
  ASSUME UpToDate, NEW kind, NEW phase, NEW repo, NEW known,
         phase = "whitelist" \/ repo \in Repo
  PROVE  LET new == NewCall(kind, phase, repo, known) IN
         /\ new.phase \notin {"idle", "whitelist"} => new.repo \in Repo
         /\ new.began \in Nat /\ new.began <= now /\ now <= new.began + Slow
BY OverlayConstants DEF NewCall, UpToDate, PublishedOnTheDay

(* The files of an index: if all arrive, the log is that of the index. *)
LEMMA FilesFetched ==
  ASSUME UpToDate, NEW c \in Call, FetchFiles(c)
  PROVE  /\ Moved(c) /\ call'[c].phase = "write" /\ Complete(c)
         /\ DOMAIN call'[c].data = SnapshotFields /\ call'[c].data.fetchedAt = now
         /\ call'[c].data.listed = call[c].data.listed
         /\ call'[c].data.errors = 0 => call'[c].data.log = call[c].data.log
<1> DEFINE old == call[c].data
<1>1. CallsAreRecords /\ call[c].phase = "files"
  BY DEF UpToDate, FetchFiles, At
<1>2. PICK whole : /\ DOMAIN old = SnapshotFields /\ IsStart(old.log, whole)
                   /\ InDateOrder(whole)
  <2>1. /\ DOMAIN old = SnapshotFields /\ call[c].repo \in Repo
        /\ IsStart(old.log, published[call[c].repo])
    BY <1>1 DEF UpToDate, InTime, CallTells, Complete, Tells
  <2>2. InDateOrder(published[call[c].repo])
    BY <2>1 DEF UpToDate, PublishedOnTheDay
  <2> QED
    BY <2>1, <2>2
<1>3. PICK kept \in SUBSET DOMAIN old.log :
        GoWith(c, "write", [old EXCEPT
          !.fetchedAt = now, !.errors = Len(old.log) - Cardinality(kept),
          !.log = SortedByIssue(Part(@, kept))])
  BY DEF FetchFiles
<1>4. PICK lost, log : /\ lost = Len(old.log) - Cardinality(kept)
                       /\ log = SortedByIssue(Part(old.log, kept))
  OBVIOUS
<1>5. /\ Moved(c) /\ call'[c].phase = "write"
      /\ call'[c].data = [old EXCEPT !.fetchedAt = now, !.errors = lost, !.log = log]
  BY <1>1, <1>3, <1>4, Moves
<1>6. lost = 0 => log = old.log
  BY <1>2, <1>4, NothingLost
<1> QED
  BY <1>1, <1>2, <1>5, <1>6 DEF SnapshotFields, Complete

LEMMA UpToDateStep ==
  ASSUME UpToDate, [Next]_vars
  PROVE  UpToDate'
<1> USE OverlayConstants
<1>0. CallsAreRecords /\ url \in Page
  BY DEF UpToDate
<1>1. CASE UNCHANGED vars
  BY <1>1 DEF vars, UpToDate, CallsAreRecords, PublishedOnTheDay, CacheTells, InTime,
              CallTells, Complete
<1>2. ASSUME NEW c \in Call, NEW p \in Page, Visit(c, p) PROVE UpToDate'
  <2>1. UNCHANGED <<published, cache, now>> /\ url' \in Page
    BY <1>2 DEF Visit
  <2>2. CASE call' = call
    <3>1. InTime(c)' /\ CallsAreRecords'
      BY <2>1, <2>2, <1>0 DEF UpToDate, InTime, CallsAreRecords
    <3> QED
      BY <1>2, <2>1, <2>2, <3>1, CallEnds DEF Visit, At
  <2>3. CASE call' = [call EXCEPT ![c] = NewTick]
    <3>1. /\ CallsAreRecords' /\ call'[c] = NewTick
          /\ \A d \in Call : d # c => call'[d] = call[d]
      BY <1>0, <2>3, NewCallIsRecord DEF CallsAreRecords, NewTick
    <3>2. InTime(c)' /\ call'[c].phase = "whitelist"
      BY <2>1, <3>1, NewCallIsRecord, BeginsInTime DEF NewTick, InTime
    <3> QED
      BY <2>1, <3>1, <3>2, CallEnds
  <2> QED
    BY <1>2, <2>2, <2>3 DEF Visit
<1>3. ASSUME NEW c \in Call, NEW p \in Page, Load(c, p) PROVE UpToDate'
  <2>1. UNCHANGED <<published, cache, now>> /\ url' \in Page
    BY <1>3 DEF Load
  <2>2. \A d \in Call : call'[d] \in {NewTick, IdleCall, call[d]}
    BY <1>3 DEF Load
  <2>3. DOMAIN NewTick = CallFields /\ DOMAIN IdleCall = CallFields
    BY NewCallIsRecord DEF NewTick, IdleCall, CallFields
  <2>4. CallsAreRecords'
    BY <1>0, <1>3, <2>2, <2>3 DEF CallsAreRecords, Load
  <2>5. PublishedOnTheDay' /\ CacheTells'
    BY <2>1 DEF UpToDate, PublishedOnTheDay, CacheTells
  <2>6. ASSUME NEW d \in Call PROVE InTime(d)' /\ CallTells(d)'
    <3>1. CASE call'[d] = NewTick
      BY <2>1, <3>1, NewCallIsRecord, BeginsInTime DEF NewTick, InTime, CallTells, Complete
    <3>2. CASE call'[d] = IdleCall
      BY <3>2 DEF IdleCall, InTime, CallTells, Complete
    <3>3. CASE call'[d] = call[d]
      BY <2>1, <3>3 DEF UpToDate, InTime, CallTells, Complete
    <3> QED
      BY <2>2, <3>1, <3>2, <3>3
  <2> QED
    BY <2>1, <2>4, <2>5, <2>6 DEF UpToDate
<1>4. ASSUME NEW c \in Call, DetectRepo(c) PROVE UpToDate'
  <2>1. UNCHANGED <<published, cache, now, url>>
    BY <1>4 DEF DetectRepo
  <2>2. CASE RepoOf[url] = NoRepo
    <3>1. End(c)
      BY <1>4, <2>2 DEF DetectRepo
    <3>2. /\ CallsAreRecords' /\ call'[c] = IdleCall
          /\ \A d \in Call : d # c => call'[d] = call[d]
      BY <1>0, <3>1, Moves
    <3> QED
      BY <1>0, <2>1, <3>2, CallEnds DEF IdleCall, InTime
  <2>3. CASE RepoOf[url] # NoRepo
    <3>1. call' = [call EXCEPT ![c].phase = "cache", ![c].repo = RepoOf[url]]
      BY <1>4, <2>3 DEF DetectRepo
    <3>2. /\ CallsAreRecords' /\ call'[c].phase = "cache" /\ call'[c].repo = RepoOf[url]
          /\ call'[c].began = call[c].began
          /\ \A d \in Call : d # c => call'[d] = call[d]
      BY <1>0, <3>1 DEF CallsAreRecords, CallFields
    <3>3. RepoOf[url] \in Repo
      BY <1>0, <2>3
    <3>4. InTime(c)'
      BY <1>4, <2>1, <3>2, <3>3 DEF DetectRepo, At, UpToDate, InTime
    <3> QED
      BY <1>0, <2>1, <3>2, <3>4, CallEnds
  <2> QED
    BY <2>2, <2>3
<1>5. ASSUME NEW c \in Call, NEW kind \in {"popup", "refresh"}, Render(c, kind)
      PROVE  UpToDate'
  <2> DEFINE first == IF kind = "refresh" THEN "drop" ELSE "cache"
             new == NewCall(kind, first, RepoOf[url], Len(published[RepoOf[url]]))
  <2>1. /\ call' = [call EXCEPT ![c] = new] /\ UNCHANGED <<published, cache, now, url>>
        /\ RepoOf[url] \in Repo
    BY <1>0, <1>5 DEF Render
  <2>2. /\ DOMAIN new = CallFields /\ new.phase = first
        /\ new.repo \in Repo /\ new.began \in Nat /\ new.began <= now /\ now <= new.began + Slow
    BY <2>1, NewCallIsRecord, BeginsInTime
  <2> HIDE DEF new
  <2>3. CallsAreRecords' /\ call'[c] = new /\ \A d \in Call : d # c => call'[d] = call[d]
    BY <1>0, <2>1, <2>2 DEF CallsAreRecords
  <2>4. InTime(c)'
    BY <2>1, <2>2, <2>3 DEF InTime
  <2> QED
    BY <1>0, <2>1, <2>2, <2>3, <2>4, CallEnds
<1>6. ASSUME NEW c \in Call, DropCache(c) PROVE UpToDate'
  <2>1. /\ cache' = [cache EXCEPT ![call[c].repo] = NoData] /\ GoTo(c, "cache")
        /\ UNCHANGED <<published, now, url>> /\ call[c].phase = "drop"
    BY <1>6 DEF DropCache, At
  <2>2. Moved(c) /\ call'[c].phase = "cache"
    BY <1>0, <2>1, Moves
  <2>3. CacheTells'
    BY <2>1 DEF UpToDate, CacheTells
  <2>4. InTime(c)' /\ CallTells(c)'
    BY <2>1, <2>2 DEF Moved, UpToDate, InTime, CallTells, Complete
  <2> QED
    BY <1>0, <2>1, <2>2, <2>3, <2>4, CallStep DEF Moved
<1>7. ASSUME NEW c \in Call, End(c), UNCHANGED <<published, cache, now, url>> PROVE UpToDate'
  <2>1. /\ CallsAreRecords' /\ call'[c] = IdleCall
        /\ \A d \in Call : d # c => call'[d] = call[d]
    BY <1>0, <1>7, Moves
  <2> QED
    BY <1>0, <1>7, <2>1, CallEnds DEF IdleCall, InTime
<1>8. ASSUME NEW c \in Call, ReadCache(c) PROVE UpToDate'
  <2>1. UNCHANGED <<published, cache, now, url>> /\ call[c].phase = "cache"
    BY <1>8 DEF ReadCache, At
  <2>2. CASE Usable(cache[call[c].repo])
    BY <1>7, <1>8, <2>1, <2>2 DEF ReadCache, Finish
  <2>3. CASE ~Usable(cache[call[c].repo])
    <3>1. Moved(c) /\ call'[c].phase = "index"
      BY <1>0, <1>8, <2>3, Moves DEF ReadCache
    <3>2. InTime(c)'
      BY <2>1, <3>1 DEF Moved, UpToDate, InTime
    <3> QED
      BY <1>0, <2>1, <3>1, <3>2, CallEnds DEF Moved
  <2> QED
    BY <2>2, <2>3
<1>9. ASSUME NEW c \in Call, FetchIndex(c) PROVE UpToDate'
  <2> DEFINE r == call[c].repo
             log == published[r]
  <2>1. UNCHANGED <<published, cache, now, url>> /\ call[c].phase = "index"
    BY <1>9 DEF FetchIndex, At
  <2>2. /\ r \in Repo /\ log \in Seq(Mandate) /\ now \in Nat /\ InTime(c)
        /\ call[c].began \in Nat /\ now <= call[c].began + Slow
    BY <2>1 DEF UpToDate, InTime, PublishedOnTheDay
  <2>3. CASE /\ log # <<>>
             /\ GoWith(c, "files",
                       [log |-> log, listed |-> Len(log), errors |-> 0, fetchedAt |-> now])
    <3>1. Moved(c) /\ call'[c].phase = "files"
          /\ call'[c].data = [log |-> log, listed |-> Len(log), errors |-> 0, fetchedAt |-> now]
      BY <1>0, <2>3, Moves
    <3>2. Len(log) # 0 /\ Tells(log, log, call[c].began)
      BY <2>2, <2>3 DEF Tells, IsStart
    <3>3. InTime(c)'
      BY <2>1, <2>2, <3>1 DEF Moved, InTime
    <3>4. CallTells(c)'
      BY <2>1, <2>2, <3>1, <3>2 DEF Moved, CallTells, SnapshotFields
    <3> QED
      BY <1>0, <2>1, <3>1, <3>3, <3>4, CacheStays, CallStep DEF Moved
  <2>4. CASE GoWith(c, "write", [log |-> <<>>, listed |-> 0, errors |-> 1, fetchedAt |-> now])
    <3>1. /\ Moved(c) /\ call'[c].phase = "write"
          /\ call'[c].data = [log |-> <<>>, listed |-> 0, errors |-> 1, fetchedAt |-> now]
      BY <1>0, <2>4, Moves
    <3>2. InTime(c)'
      BY <2>1, <2>2, <3>1 DEF Moved, InTime
    <3>3. CallTells(c)'
      BY <2>1, <2>2, <3>1 DEF Moved, CallTells, SnapshotFields, Complete
    <3> QED
      BY <1>0, <2>1, <3>1, <3>2, <3>3, CacheStays, CallStep DEF Moved
  <2> QED
    BY <1>9, <2>3, <2>4 DEF FetchIndex
<1>10. ASSUME NEW c \in Call, FetchFiles(c) PROVE UpToDate'
  <2>1. UNCHANGED <<published, cache, now, url>> /\ call[c].phase = "files"
    BY <1>10 DEF FetchFiles, At
  <2>2. InTime(c) /\ call[c].began \in Nat /\ now <= call[c].began + Slow /\ now \in Nat
    BY <2>1 DEF UpToDate, InTime, PublishedOnTheDay
  <2>3. /\ Moved(c) /\ call'[c].phase = "write" /\ Complete(c)
        /\ DOMAIN call'[c].data = SnapshotFields /\ call'[c].data.fetchedAt = now
        /\ call'[c].data.listed = call[c].data.listed
        /\ call'[c].data.errors = 0 => call'[c].data.log = call[c].data.log
    BY <1>10, FilesFetched
  <2>4. InTime(c)'
    BY <2>1, <2>2, <2>3 DEF Moved, InTime
  <2>5. CallTells(c)'
    BY <2>1, <2>2, <2>3 DEF UpToDate, CallTells, Moved, Complete
  <2> QED
    BY <1>0, <2>1, <2>3, <2>4, <2>5, CacheStays, CallStep DEF Moved
<1>11. ASSUME NEW c \in Call, Throws(c) PROVE UpToDate'
  BY <1>7, <1>11 DEF Throws, Finish
<1>12. ASSUME NEW c \in Call, WriteCache(c) PROVE UpToDate'
  <2> DEFINE r == call[c].repo
             data == call[c].data
  <2>1. /\ cache' = [cache EXCEPT ![r] = data] /\ GoTo(c, "show")
        /\ UNCHANGED <<published, now, url>> /\ call[c].phase = "write"
    BY <1>12 DEF WriteCache, At
  <2>2. /\ Moved(c) /\ call'[c].phase = "show" /\ call'[c].data = data
    BY <1>0, <2>1, Moves
  <2>3. /\ r \in Repo /\ InTime(c) /\ CallTells(c) /\ call[c].began \in Nat
        /\ DOMAIN data = SnapshotFields /\ data.fetchedAt \in 0 .. now /\ now \in Nat
        /\ data.fetchedAt <= call[c].began + Slow
    BY <2>1 DEF UpToDate, InTime, CallTells, PublishedOnTheDay
  <2>4. data.errors = 0 =>
          data.listed # 0 /\ Tells(data.log, published[r], data.fetchedAt - Slow)
    <3> SUFFICES ASSUME data.errors = 0
                 PROVE  data.listed # 0 /\ Tells(data.log, published[r], data.fetchedAt - Slow)
      OBVIOUS
    <3>1. data.listed # 0 /\ Tells(data.log, published[r], call[c].began)
      BY <2>1, <2>3 DEF CallTells, Complete
    <3>2. data.fetchedAt - Slow <= call[c].began /\ data.fetchedAt - Slow \in Int
      BY <2>3
    <3> QED
      BY <2>3, <3>1, <3>2, TellsLess
  <2>5. CacheTells'
    <3>1. CacheTells
      BY DEF UpToDate
    <3>2. DOMAIN cache' = Repo /\ cache'[r] = data
          /\ \A q \in Repo : q # r => cache'[q] = cache[q]
      BY <2>1, <2>3, <3>1 DEF CacheTells
    <3> QED
      BY <2>1, <2>3, <2>4, <3>1, <3>2 DEF CacheTells
  <2>6. InTime(c)' /\ CallTells(c)'
    BY <2>1, <2>2, <2>3 DEF Moved, InTime, CallTells, Complete
  <2> QED
    BY <1>0, <2>1, <2>2, <2>5, <2>6, CallStep DEF Moved
<1>13. ASSUME NEW c \in Call, Show(c) PROVE UpToDate'
  BY <1>7, <1>13 DEF Show, Finish
<1>14. ASSUME Deliver PROVE UpToDate'
  BY <1>14 DEF Deliver, UpToDate, CallsAreRecords, PublishedOnTheDay, CacheTells, InTime,
              CallTells, Complete
<1>15. ASSUME NEW r \in Repo, NEW m \in MandatesOf[r], Publish(r, m) PROVE UpToDate'
  <2>1. /\ published' = [published EXCEPT ![r] = Append(@, m)] /\ m.issued = now
        /\ UNCHANGED <<cache, now, call, url>> /\ m \in Mandate
    BY <1>15 DEF Publish
  <2>2. /\ DOMAIN published = Repo /\ now \in Nat
        /\ \A q \in Repo : published[q] \in Seq(Mandate)
    BY DEF UpToDate, PublishedOnTheDay
  <2>3. /\ DOMAIN published' = Repo /\ published'[r] = Append(published[r], m)
        /\ \A q \in Repo : q # r => published'[q] = published[q]
    BY <2>1, <2>2
  <2>4. PublishedOnTheDay'
    <3> DEFINE old == published[r]
               n == Len(old)
    <3>1. /\ published'[r] \in Seq(Mandate) /\ Len(published'[r]) = n + 1 /\ n \in Nat
          /\ published'[r][n + 1] = m /\ \A k \in 1 .. n : published'[r][k] = old[k]
      BY <2>1, <2>2, <2>3
    <3>2. \A k \in 1 .. n : old[k].issued \in Nat /\ old[k].issued <= now
      BY <2>2 DEF UpToDate, PublishedOnTheDay
    <3>3. \A k \in DOMAIN published'[r] : published'[r][k].issued <= now
      BY <2>1, <2>2, <3>1, <3>2
    <3>4. InDateOrder(published[r])
      BY DEF UpToDate, PublishedOnTheDay
    <3>5. InDateOrder(published'[r])
      <4> SUFFICES ASSUME NEW i \in 1 .. n + 1, NEW j \in 1 .. n + 1, i <= j
                   PROVE  published'[r][i].issued <= published'[r][j].issued
        BY <3>1 DEF InDateOrder
      <4>1. CASE j = n + 1
        BY <2>1, <2>2, <3>1, <3>3, <4>1
      <4>2. CASE j # n + 1
        <5>1. i \in 1 .. n /\ j \in 1 .. n
          BY <3>1, <4>2
        <5>2. old[i].issued <= old[j].issued
          <6>1. DOMAIN old = 1 .. n
            BY <2>2
          <6> QED
            BY <3>4, <5>1, <6>1 DEF InDateOrder
        <5> QED
          BY <3>1, <5>1, <5>2
      <4> QED
        BY <4>1, <4>2
    <3> QED
      BY <2>1, <2>2, <2>3, <3>1, <3>3, <3>5 DEF UpToDate, PublishedOnTheDay
  <2>5. ASSUME NEW q \in Repo, NEW log, NEW t \in Int, t <= now, Tells(log, published[q], t)
        PROVE  Tells(log, published'[q], t)
    <3>1. CASE q = r
      BY <2>1, <2>3, <2>5, <3>1, TellsMore
    <3>2. CASE q # r
      BY <2>3, <2>5, <3>2
    <3> QED
      BY <3>1, <3>2
  <2>6. CacheTells'
    <3>1. CacheTells
      BY DEF UpToDate
    <3>2. ASSUME NEW q \in Repo, cache[q] # NoData, cache[q].errors = 0
          PROVE  Tells(cache[q].log, published'[q], cache[q].fetchedAt - Slow)
      <4>1. /\ Tells(cache[q].log, published[q], cache[q].fetchedAt - Slow)
            /\ cache[q].fetchedAt \in 0 .. now
        BY <3>1, <3>2 DEF CacheTells
      <4>2. cache[q].fetchedAt - Slow \in Int /\ cache[q].fetchedAt - Slow <= now
        BY <2>2, <4>1
      <4> QED
        BY <2>5, <4>1, <4>2
    <3> QED
      BY <2>1, <3>1, <3>2 DEF CacheTells
  <2>7. ASSUME NEW c \in Call PROVE InTime(c)' /\ CallTells(c)'
    <3>1. InTime(c) /\ CallTells(c)
      BY DEF UpToDate
    <3>2. InTime(c)'
      BY <2>1, <3>1 DEF InTime
    <3>3. Complete(c) => Tells(call[c].data.log, published'[call[c].repo], call[c].began)
      <4> SUFFICES ASSUME Complete(c)
                   PROVE  Tells(call[c].data.log, published'[call[c].repo], call[c].began)
        OBVIOUS
      <4>1. /\ call[c].repo \in Repo /\ call[c].began \in Int /\ call[c].began <= now
            /\ Tells(call[c].data.log, published[call[c].repo], call[c].began)
        BY <3>1 DEF Complete, InTime, CallTells
      <4> QED
        BY <2>5, <4>1
    <3> QED
      BY <2>1, <3>1, <3>2, <3>3 DEF CallTells, Complete
  <2> QED
    BY <1>0, <2>1, <2>4, <2>6, <2>7 DEF UpToDate, CallsAreRecords
<1>16. ASSUME Tick PROVE UpToDate'
  <2>1. /\ now' = now + 1 /\ UNCHANGED <<url, cache, published, call>>
        /\ \A c \in Call : call[c].phase # "idle" => now < call[c].began + Slow
    BY <1>16 DEF Tick, At
  <2>2. PublishedOnTheDay'
    <3>1. \A r \in Repo : \A k \in DOMAIN published[r] : published[r][k].issued \in Nat
      BY DEF UpToDate, PublishedOnTheDay
    <3> QED
      BY <2>1, <3>1 DEF UpToDate, PublishedOnTheDay
  <2>3. ASSUME NEW c \in Call PROVE InTime(c)' /\ CallTells(c)'
    BY <2>1 DEF UpToDate, PublishedOnTheDay, InTime, CallTells, Complete
  <2>4. CacheTells'
    <3>1. \A x : x \in 0 .. now => x \in 0 .. now'
      BY <2>1 DEF UpToDate, PublishedOnTheDay
    <3> QED
      BY <2>1, <3>1 DEF UpToDate, CacheTells
  <2> QED
    BY <1>0, <2>1, <2>2, <2>3, <2>4 DEF UpToDate, CallsAreRecords
<1> QED
  BY <1>1, <1>2, <1>3, <1>4, <1>5, <1>6, <1>8, <1>9, <1>10, <1>11, <1>12,
     <1>13, <1>14, <1>15, <1>16 DEF Next, Step

LEMMA UpToDateAlways ==
  Spec => []UpToDate
<1>1. Init => UpToDate
  <2> SUFFICES ASSUME Init PROVE UpToDate
    OBVIOUS
  <2>1. CallsAreRecords /\ \A c \in Call : InTime(c) /\ CallTells(c)
    BY DEF Init, IdleCall, CallsAreRecords, CallFields, InTime, CallTells, Complete
  <2>2. PublishedOnTheDay
    <3>1. \A r \in Repo : published[r] \in Seq(Mandate) /\ DOMAIN published[r] = {}
      BY DEF Init
    <3> QED
      BY <3>1 DEF Init, PublishedOnTheDay, InDateOrder
  <2> QED
    BY <2>1, <2>2 DEF Init, UpToDate, CacheTells
<1>2. UpToDate /\ [Next]_vars => UpToDate'
  BY UpToDateStep
<1> QED
  BY <1>1, <1>2, PTL DEF Spec

(* A panel on which nothing went wrong shows what a call found in the cache  *)
(* or has just written to it.                                                *)
Shows(c, data) ==
  /\ call[c].kind = "tick" /\ call[c].repo \in Repo /\ call'[c] = IdleCall
  /\ panel' = [repo |-> call[c].repo, state |-> ComputeOverlayState(data, now)]
  /\ data # NoData /\ data.errors = 0
  /\ \/ data = cache[call[c].repo] /\ Usable(data)
     \/ data = call[c].data /\ call[c].phase = "show"

LEMMA ShownFrom ==
  ASSUME UpToDate, [Next]_vars, panel' # panel, Sound(panel')
  PROVE  \E c \in Call : \E data : Shows(c, data) /\ UNCHANGED <<published, now, cache>>
<1>1. CallsAreRecords /\ panel' # NoPanel
  BY DEF UpToDate, Sound
<1>2. ASSUME NEW c \in Call, NEW data, Finish(c, ComputeOverlayState(data, now)),
             call[c].phase \in {"cache", "show"}, UNCHANGED <<published, now, cache>>,
             \/ data = cache[call[c].repo] /\ Usable(data)
             \/ data = call[c].data /\ call[c].phase = "show"
      PROVE  Shows(c, data) /\ UNCHANGED <<published, now, cache>>
  <2>1. call[c].kind = "tick" /\ End(c)
        /\ panel' = [repo |-> call[c].repo, state |-> ComputeOverlayState(data, now)]
    BY <1>2 DEF Finish
  <2>2. call[c].repo \in Repo /\ call'[c] = IdleCall
    BY <1>1, <1>2, <2>1, Moves DEF UpToDate, InTime
  <2>3. panel'.state.data = data
    BY <2>1 DEF ComputeOverlayState
  <2>4. data # NoData /\ data.errors = 0
    BY <2>3 DEF Sound
  <2> QED
    BY <1>2, <2>1, <2>2, <2>4 DEF Shows
<1>3. ASSUME NEW c \in Call, ReadCache(c)
      PROVE  \E data : Shows(c, data) /\ UNCHANGED <<published, now, cache>>
  <2>1. /\ Usable(cache[call[c].repo])
        /\ Finish(c, ComputeOverlayState(cache[call[c].repo], now))
        /\ call[c].phase = "cache" /\ UNCHANGED <<published, now, cache>>
    BY <1>3 DEF ReadCache, At
  <2> QED
    BY <1>2, <2>1
<1>4. ASSUME NEW c \in Call, Show(c)
      PROVE  \E data : Shows(c, data) /\ UNCHANGED <<published, now, cache>>
  <2>1. /\ Finish(c, ComputeOverlayState(call[c].data, now))
        /\ call[c].phase = "show" /\ UNCHANGED <<published, now, cache>>
    BY <1>4 DEF Show, At
  <2> QED
    BY <1>2, <2>1
<1>5. ASSUME NEW c \in Call, Throws(c) PROVE FALSE
  <2>1. panel'.state = Degraded
    BY <1>5 DEF Throws, Finish
  <2> QED
    BY <2>1 DEF Degraded, Sound
<1>6. ~UNCHANGED vars
  BY DEF vars
<1> QED
  BY <1>1, <1>3, <1>4, <1>5, <1>6
  DEF Next, Step, Visit, Load, DetectRepo, Render, DropCache, FetchIndex, FetchFiles,
      WriteCache, Deliver, Publish, Tick

(* A panel is never older than the cache allows, whatever overlaps: what was *)
(* published before the TTL and the time of one fetch is in it (fetcher.ts). *)
THEOREM PanelsAreFresh ==
  Spec => FreshWithinTTL
<1> DEFINE Fresh == panel' # panel /\ Sound(panel') =>
                      \A m \in ToSet(published[panel'.repo]) :
                        m.issued + TTL + Slow < now => m \in ToSet(panel'.state.data.log)
<1>1. UpToDate /\ [Next]_vars => Fresh
  <2> SUFFICES ASSUME UpToDate, [Next]_vars, panel' # panel, Sound(panel'),
                      NEW m \in ToSet(published[panel'.repo]), m.issued + TTL + Slow < now
               PROVE  m \in ToSet(panel'.state.data.log)
    OBVIOUS
  <2>1. PICK c, data : c \in Call /\ Shows(c, data)
    BY ShownFrom
  <2> DEFINE r == call[c].repo
             whole == published[r]
  <2>2. panel'.repo = r /\ panel'.state.data = data
    BY <2>1 DEF Shows, ComputeOverlayState
  <2>3. /\ r \in Repo /\ whole \in Seq(Mandate) /\ now \in Nat
        /\ Slow \in Nat /\ TTL \in Nat
    BY <2>1, OverlayConstants DEF UpToDate, PublishedOnTheDay, Shows
  <2>4. PICK k \in DOMAIN whole : whole[k] = m
    BY <2>2 DEF ToSet
  <2>5. m.issued \in Nat
    BY <2>3, <2>4, OverlayConstants
  <2>6. PICK t \in Int : Tells(data.log, whole, t) /\ m.issued < t
    <3>1. CASE data = cache[r] /\ Usable(data)
      <4>1. /\ Tells(data.log, whole, data.fetchedAt - Slow)
            /\ data.fetchedAt \in Nat /\ now <= data.fetchedAt + TTL
        BY <2>1, <2>3, <3>1 DEF UpToDate, CacheTells, Usable, Shows
      <4> QED
        BY <2>3, <2>5, <4>1
    <3>2. CASE data = call[c].data /\ call[c].phase = "show"
      <4>1. Tells(data.log, whole, call[c].began)
        BY <2>1, <3>2 DEF UpToDate, CallTells, Complete, Shows
      <4>2. call[c].began \in Nat /\ now <= call[c].began + Slow
        BY <2>1, <3>2 DEF UpToDate, InTime
      <4> QED
        BY <2>3, <2>5, <4>1, <4>2
    <3> QED
      BY <2>1, <3>1, <3>2 DEF Shows
  <2>7. k <= Len(data.log) /\ IsStart(data.log, whole)
    BY <2>4, <2>6 DEF Tells
  <2>8. k \in DOMAIN data.log /\ data.log[k] = m
    BY <2>3, <2>4, <2>7 DEF IsStart
  <2> QED
    BY <2>2, <2>8 DEF ToSet
<1>2. Fresh => [Fresh]_vars
  OBVIOUS
<1> QED
  BY <1>1, UpToDateAlways, PTL DEF Spec, FreshWithinTTL

-----------------------------------------------------------------------------
(* ONE CALL AFTER ANOTHER *)

(* A refresh has emptied the popup and the cache, and what it gets is all    *)
(* that was published when it began.                                         *)
Refreshing(c) ==
  call[c].kind = "refresh" =>
    /\ call[c].phase # "idle" /\ view = NoPanel /\ call[c].known \in Nat
    /\ call[c].phase \in {"drop", "cache", "index"} =>
         call[c].known <= Len(published[call[c].repo])
    /\ call[c].phase = "cache" => cache[call[c].repo] = NoData
    /\ Complete(c) => call[c].known <= Len(call[c].data.log)

(* The panel shows the state of its log at some moment, and what the cache   *)
(* and the calls hold of its repository is no older.                         *)
Newer(c) ==
  /\ call[c].phase = "show" => cache[call[c].repo] = call[c].data
  /\ Sound(panel) /\ Complete(c) /\ call[c].repo = panel.repo =>
       Len(panel.state.data.log) <= Len(call[c].data.log)

PanelTells ==
  Sound(panel) =>
    /\ panel.repo \in Repo
    /\ IsStart(panel.state.data.log, published[panel.repo])
    /\ \E t \in 0 .. now :
         panel.state.mandate = ComputeOverlayState(panel.state.data, t).mandate
    /\ cache[panel.repo] # NoData /\ cache[panel.repo].errors = 0 =>
         Len(panel.state.data.log) <= Len(cache[panel.repo].log)

InStep == PanelTells /\ \A c \in Call : Refreshing(c) /\ Newer(c)

-----------------------------------------------------------------------------
LEMMA NothingOnPanel ==
  ~Sound(NoPanel)
BY DEF Sound

(* The panel stays, and nothing new is in the cache. *)
LEMMA PanelStays ==
  ASSUME UpToDate, PanelTells, UNCHANGED <<panel, published>>, now' \in {now, now + 1},
         \A r \in Repo : cache'[r] \in {cache[r], NoData}
  PROVE  PanelTells'
<1> SUFFICES ASSUME Sound(panel) PROVE PanelTells'
  BY DEF PanelTells, Sound
<1>1. PICK t \in 0 .. now :
        panel.state.mandate = ComputeOverlayState(panel.state.data, t).mandate
  BY DEF PanelTells
<1>2. t \in 0 .. now'
  BY DEF UpToDate, PublishedOnTheDay
<1>3. panel'.state.mandate = ComputeOverlayState(panel'.state.data, t).mandate
  BY <1>1 DEF ComputeOverlayState
<1> QED
  BY <1>2, <1>3 DEF PanelTells

(* A call that ends, and what it may have shown. *)
LEMMA EndsInStep ==
  ASSUME OneAtATime, UpToDate, InStep, NEW c \in Call, call'[c] = IdleCall, PanelTells'
  PROVE  InStep'
<1>1. Refreshing(c)' /\ Newer(c)'
  BY DEF IdleCall, Refreshing, Newer, Complete
<1> QED
  BY <1>1 DEF OneAtATime, InStep

LEMMA InStepStep ==
  ASSUME OneAtATime, InTurn, UpToDate, InStep, [Next]_vars
  PROVE  InStep'
<1>1. /\ CallsAreRecords /\ url \in Page /\ now \in Nat
      /\ \A r \in Repo : published[r] \in Seq(Mandate)
      /\ PanelTells /\ \A c \in Call : Refreshing(c) /\ Newer(c)
  BY DEF UpToDate, PublishedOnTheDay, InStep
<1>2. ASSUME NEW c \in Call, UNCHANGED <<panel, published, cache, now>>,
             Refreshing(c)', Newer(c)'
      PROVE  InStep'
  BY <1>1, <1>2, PanelStays DEF OneAtATime, InStep
<1>3. CASE UNCHANGED vars
  BY <1>1, <1>3, PanelStays DEF vars, InStep, Refreshing, Newer, Complete
<1>4. ASSUME NEW c \in Call, NEW p \in Page, Visit(c, p) PROVE InStep'
  <2>1. UNCHANGED <<panel, published, cache, now, view>>
    BY <1>4 DEF Visit
  <2>2. CASE call' = call
    BY <1>1, <1>2, <2>1, <2>2 DEF Refreshing, Newer, Complete
  <2>3. CASE call' = [call EXCEPT ![c] = NewTick]
    <3>1. call'[c] = NewTick
      BY <1>1, <2>3 DEF CallsAreRecords
    <3>2. call'[c].kind = "tick" /\ call'[c].phase = "whitelist"
      BY <3>1, NewCallIsRecord DEF NewTick
    <3> QED
      BY <1>2, <2>1, <3>2 DEF Refreshing, Newer, Complete
  <2> QED
    BY <1>4, <2>2, <2>3 DEF Visit
<1>5. ASSUME NEW c \in Call, NEW p \in Page, Load(c, p) PROVE InStep'
  <2>1. call'[c] = NewTick /\ panel' = NoPanel
    BY <1>5 DEF Load
  <2>2. call'[c].kind = "tick" /\ call'[c].phase = "whitelist"
    BY <2>1, NewCallIsRecord DEF NewTick
  <2>3. PanelTells' /\ Refreshing(c)' /\ Newer(c)'
    BY <2>1, <2>2, NothingOnPanel DEF PanelTells, Refreshing, Newer, Complete
  <2> QED
    BY <2>3 DEF OneAtATime, InStep
<1>6. ASSUME NEW c \in Call, DetectRepo(c) PROVE InStep'
  <2>1. call[c].kind = "tick"
    BY <1>6 DEF DetectRepo, At, InTurn, OnPage
  <2>2. CASE RepoOf[url] = NoRepo
    <3>1. End(c) /\ panel' = NoPanel
      BY <1>6, <2>2 DEF DetectRepo
    <3>2. call'[c] = IdleCall
      BY <1>1, <3>1, Moves
    <3>3. PanelTells'
      BY <3>1, NothingOnPanel DEF PanelTells
    <3> QED
      BY <3>2, <3>3, EndsInStep
  <2>3. CASE RepoOf[url] # NoRepo
    <3>1. /\ call' = [call EXCEPT ![c].phase = "cache", ![c].repo = RepoOf[url]]
          /\ UNCHANGED <<panel, published, cache, now>>
      BY <1>6, <2>3 DEF DetectRepo
    <3>2. call'[c].phase = "cache" /\ call'[c].kind = "tick"
      BY <1>1, <2>1, <3>1 DEF CallsAreRecords, CallFields
    <3> QED
      BY <1>2, <3>1, <3>2 DEF Refreshing, Newer, Complete
  <2> QED
    BY <2>2, <2>3
<1>7. ASSUME NEW c \in Call, NEW kind \in {"popup", "refresh"}, Render(c, kind)
      PROVE  InStep'
  <2> DEFINE first == IF kind = "refresh" THEN "drop" ELSE "cache"
             known == Len(published[RepoOf[url]])
             new == NewCall(kind, first, RepoOf[url], known)
  <2>1. /\ call' = [call EXCEPT ![c] = new] /\ view' = NoPanel
        /\ UNCHANGED <<panel, published, cache, now>> /\ RepoOf[url] \in Repo
    BY <1>1, <1>7, OverlayConstants DEF Render
  <2>2. /\ new.kind = kind /\ new.phase = first /\ new.repo = RepoOf[url] /\ new.known = known
    BY DEF NewCall
  <2>3. known \in Nat
    BY <1>1, <2>1
  <2> HIDE DEF new
  <2>4. call'[c] = new
    BY <1>1, <2>1 DEF CallsAreRecords
  <2>5. known <= Len(published[new.repo])
    BY <2>2, <2>3
  <2>6. Refreshing(c)' /\ Newer(c)'
    BY <2>1, <2>2, <2>3, <2>4, <2>5 DEF Refreshing, Newer, Complete
  <2> QED
    BY <1>2, <2>1, <2>6
<1>8. ASSUME NEW c \in Call, DropCache(c) PROVE InStep'
  <2>1. /\ cache' = [cache EXCEPT ![call[c].repo] = NoData] /\ GoTo(c, "cache")
        /\ UNCHANGED <<panel, published, now, view>> /\ call[c].phase = "drop"
    BY <1>8 DEF DropCache, At
  <2>2. Moved(c) /\ call'[c].phase = "cache"
    BY <1>1, <2>1, Moves
  <2>3. call[c].repo \in Repo /\ DOMAIN cache = Repo
    BY <2>1 DEF UpToDate, InTime, CacheTells
  <2>4. PanelTells'
    BY <1>1, <2>1, <2>3, PanelStays
  <2>5. Refreshing(c)' /\ Newer(c)'
    BY <1>1, <2>1, <2>2, <2>3 DEF Moved, Refreshing, Newer, Complete
  <2> QED
    BY <2>4, <2>5 DEF OneAtATime, InStep
<1>9. ASSUME NEW c \in Call, NEW data, Finish(c, ComputeOverlayState(data, now)),
             UNCHANGED <<published, now, cache>>, call[c].repo \in Repo,
             data = cache[call[c].repo], data # NoData
      PROVE  InStep'
  <2>1. call'[c] = IdleCall
    BY <1>1, <1>9, Moves DEF Finish
  <2>2. PanelTells'
    <3>1. CASE call[c].kind = "tick"
      <4> SUFFICES ASSUME Sound(panel') PROVE PanelTells'
        BY DEF PanelTells
      <4>1. /\ panel'.repo = call[c].repo /\ panel'.state = ComputeOverlayState(data, now)
            /\ panel'.state.data = data
        BY <1>9, <3>1 DEF Finish, ComputeOverlayState
      <4>2. data.errors = 0
        BY <4>1 DEF Sound
      <4>3. IsStart(data.log, published[call[c].repo])
        BY <1>9, <4>2 DEF UpToDate, CacheTells, Tells
      <4>4. now \in 0 .. now /\ Len(data.log) \in Nat
        BY <1>1, <4>3 DEF IsStart
      <4>5. panel'.state.mandate = ComputeOverlayState(panel'.state.data, now).mandate
        BY <4>1
      <4> QED
        BY <1>9, <4>1, <4>3, <4>4, <4>5 DEF PanelTells
    <3>2. CASE call[c].kind # "tick"
      BY <1>1, <1>9, <3>2, PanelStays DEF Finish
    <3> QED
      BY <3>1, <3>2
  <2> QED
    BY <2>1, <2>2, EndsInStep
<1>10. ASSUME NEW c \in Call, ReadCache(c) PROVE InStep'
  <2>1. /\ UNCHANGED <<published, now, cache>> /\ call[c].phase = "cache"
        /\ call[c].repo \in Repo
    BY <1>10 DEF ReadCache, At, UpToDate, InTime
  <2>2. CASE Usable(cache[call[c].repo])
    BY <1>9, <1>10, <2>1, <2>2 DEF ReadCache, Usable
  <2>3. CASE ~Usable(cache[call[c].repo])
    <3>1. GoTo(c, "index") /\ UNCHANGED <<panel, view>>
      BY <1>10, <2>3 DEF ReadCache
    <3>2. Moved(c) /\ call'[c].phase = "index"
      BY <1>1, <3>1, Moves
    <3>3. Refreshing(c)' /\ Newer(c)'
      BY <1>1, <2>1, <3>1, <3>2 DEF Moved, Refreshing, Newer, Complete
    <3> QED
      BY <1>2, <2>1, <3>1, <3>3
  <2> QED
    BY <2>2, <2>3
<1>11. ASSUME NEW c \in Call, FetchIndex(c) PROVE InStep'
  <2> DEFINE r == call[c].repo
             log == published[r]
  <2>1. UNCHANGED <<panel, published, cache, now, view>> /\ call[c].phase = "index" /\ r \in Repo
    BY <1>11 DEF FetchIndex, At, UpToDate, InTime
  <2>2. CASE GoWith(c, "files",
                    [log |-> log, listed |-> Len(log), errors |-> 0, fetchedAt |-> now])
    <3>1. Moved(c) /\ call'[c].phase = "files" /\ call'[c].data.log = log
      BY <1>1, <2>2, Moves
    <3>2. Sound(panel) /\ r = panel.repo => Len(panel.state.data.log) <= Len(log)
      BY <1>1 DEF PanelTells, IsStart
    <3>3. Refreshing(c)' /\ Newer(c)'
      BY <1>1, <2>1, <3>1, <3>2 DEF Moved, Refreshing, Newer, Complete, Sound
    <3> QED
      BY <1>2, <2>1, <3>3
  <2>3. CASE GoWith(c, "write", [log |-> <<>>, listed |-> 0, errors |-> 1, fetchedAt |-> now])
    <3>1. Moved(c) /\ call'[c].phase = "write" /\ call'[c].data.errors = 1
      BY <1>1, <2>3, Moves
    <3>2. Refreshing(c)' /\ Newer(c)'
      BY <1>1, <2>1, <3>1 DEF Moved, Refreshing, Newer, Complete
    <3> QED
      BY <1>2, <2>1, <3>2
  <2> QED
    BY <1>11, <2>2, <2>3 DEF FetchIndex
<1>12. ASSUME NEW c \in Call, FetchFiles(c) PROVE InStep'
  <2>1. UNCHANGED <<panel, published, cache, now, view>>
    BY <1>12 DEF FetchFiles
  <2>2. /\ Moved(c) /\ call'[c].phase = "write" /\ Complete(c)
        /\ call'[c].data.errors = 0 => call'[c].data.log = call[c].data.log
    BY <1>12, FilesFetched
  <2>3. call[c].phase # "idle"
    BY <2>2 DEF Complete
  <2>4. Refreshing(c)' /\ Newer(c)'
    BY <1>1, <2>1, <2>2 DEF Moved, Refreshing, Newer, Complete, Sound
  <2> QED
    BY <1>2, <2>1, <2>4
<1>13. ASSUME NEW c \in Call, Throws(c) PROVE InStep'
  <2>1. UNCHANGED <<published, now, cache>> /\ End(c)
    BY <1>13 DEF Throws, Finish
  <2>2. call'[c] = IdleCall
    BY <1>1, <2>1, Moves
  <2>3. PanelTells'
    <3>1. CASE call[c].kind = "tick"
      <4>1. panel'.state = Degraded
        BY <1>13, <3>1 DEF Throws, Finish
      <4> QED
        BY <4>1 DEF Degraded, Sound, PanelTells
    <3>2. CASE call[c].kind # "tick"
      BY <1>1, <1>13, <2>1, <3>2, PanelStays DEF Throws
    <3> QED
      BY <3>1, <3>2
  <2> QED
    BY <2>2, <2>3, EndsInStep
<1>14. ASSUME NEW c \in Call, WriteCache(c) PROVE InStep'
  <2> DEFINE r == call[c].repo
             data == call[c].data
  <2>1. /\ cache' = [cache EXCEPT ![r] = data] /\ GoTo(c, "show")
        /\ UNCHANGED <<panel, published, now, view>> /\ call[c].phase = "write" /\ r \in Repo
        /\ DOMAIN cache = Repo
    BY <1>14 DEF WriteCache, At, UpToDate, InTime, CacheTells
  <2>2. Moved(c) /\ call'[c].phase = "show" /\ call'[c].data = data
    BY <1>1, <2>1, Moves
  <2>3. /\ cache'[r] = data /\ \A q \in Repo : q # r => cache'[q] = cache[q]
    BY <2>1
  <2>4. Refreshing(c)' /\ Newer(c)'
    BY <1>1, <2>1, <2>2, <2>3 DEF Moved, Refreshing, Newer, Complete, Sound
  <2>5. PanelTells'
    <3>1. CASE Sound(panel) /\ panel.repo = r
      <4>1. data.errors = 0 => Len(panel.state.data.log) <= Len(data.log)
        BY <1>1, <2>1, <3>1 DEF Newer, Complete
      <4>2. PICK t \in 0 .. now :
              panel.state.mandate = ComputeOverlayState(panel.state.data, t).mandate
        BY <1>1, <3>1 DEF PanelTells
      <4>3. panel'.state.mandate = ComputeOverlayState(panel'.state.data, t).mandate
        BY <2>1, <4>2 DEF ComputeOverlayState
      <4> QED
        BY <1>1, <2>1, <2>3, <3>1, <4>1, <4>3 DEF PanelTells
    <3>2. CASE ~(Sound(panel) /\ panel.repo = r)
      <4> SUFFICES ASSUME Sound(panel), panel.repo # r PROVE PanelTells'
        BY <2>1, <3>2 DEF PanelTells, Sound
      <4>1. panel.repo \in Repo /\ cache'[panel.repo] = cache[panel.repo]
        BY <1>1, <2>3 DEF PanelTells
      <4>2. PICK t \in 0 .. now :
              panel.state.mandate = ComputeOverlayState(panel.state.data, t).mandate
        BY <1>1 DEF PanelTells
      <4>3. panel'.state.mandate = ComputeOverlayState(panel'.state.data, t).mandate
        BY <2>1, <4>2 DEF ComputeOverlayState
      <4> QED
        BY <1>1, <2>1, <4>1, <4>3 DEF PanelTells
    <3> QED
      BY <3>1, <3>2
  <2> QED
    BY <2>4, <2>5 DEF OneAtATime, InStep
<1>15. ASSUME NEW c \in Call, Show(c) PROVE InStep'
  <2>1. /\ Finish(c, ComputeOverlayState(call[c].data, now)) /\ call[c].phase = "show"
        /\ UNCHANGED <<published, now, cache>> /\ call[c].repo \in Repo
        /\ call[c].data = cache[call[c].repo]
    BY <1>1, <1>15 DEF Show, At, UpToDate, InTime, Newer
  <2>2. CASE call[c].data # NoData
    BY <1>9, <2>1, <2>2
  <2>3. CASE call[c].data = NoData
    <3>1. call'[c] = IdleCall
      BY <1>1, <2>1, Moves DEF Finish
    <3>2. PanelTells'
      <4>1. CASE call[c].kind = "tick"
        <5>1. panel'.state.data = NoData
          BY <2>1, <2>3, <4>1 DEF Finish, ComputeOverlayState
        <5> QED
          BY <5>1 DEF Sound, PanelTells
      <4>2. CASE call[c].kind # "tick"
        BY <1>1, <2>1, <4>2, PanelStays DEF Finish
      <4> QED
        BY <4>1, <4>2
    <3> QED
      BY <3>1, <3>2, EndsInStep
  <2> QED
    BY <2>2, <2>3
<1>16. ASSUME Deliver PROVE InStep'
  BY <1>1, <1>16, PanelStays DEF Deliver, InStep, Refreshing, Newer, Complete
<1>17. ASSUME NEW r \in Repo, NEW m \in MandatesOf[r], Publish(r, m) PROVE InStep'
  <2>1. /\ published' = [published EXCEPT ![r] = Append(@, m)] /\ DOMAIN published = Repo
        /\ UNCHANGED <<panel, cache, now, view, call>> /\ m \in Mandate
    BY <1>17, OverlayConstants DEF Publish, UpToDate, PublishedOnTheDay
  <2>2. \A q \in Repo : published'[q] \in {published[q], Append(published[q], m)}
    BY <2>1
  <2>3. \A q \in Repo : IsStart(published[q], published'[q])
    BY <1>1, <2>1, <2>2, StartOfMore
  <2>4. PanelTells'
    <3> SUFFICES ASSUME Sound(panel) PROVE PanelTells'
      BY <2>1 DEF PanelTells, Sound
    <3>1. panel.repo \in Repo /\ IsStart(panel.state.data.log, published[panel.repo])
      BY <1>1 DEF PanelTells
    <3>2. IsStart(panel.state.data.log, published'[panel.repo])
      BY <2>3, <3>1, StartIsTransitive
    <3>3. PICK t \in 0 .. now :
            panel.state.mandate = ComputeOverlayState(panel.state.data, t).mandate
      BY <1>1 DEF PanelTells
    <3>4. panel'.state.mandate = ComputeOverlayState(panel'.state.data, t).mandate
      BY <2>1, <3>3 DEF ComputeOverlayState
    <3> QED
      BY <1>1, <2>1, <3>2, <3>4 DEF PanelTells
  <2>5. ASSUME NEW c \in Call PROVE Refreshing(c)' /\ Newer(c)'
    <3>1. Refreshing(c) /\ Newer(c)
      BY <1>1
    <3>2. Newer(c)'
      BY <2>1, <3>1 DEF Newer, Complete, Sound
    <3>3. call[c].phase \in {"drop", "cache", "index"} =>
            /\ call[c].repo \in Repo
            /\ Len(published[call[c].repo]) <= Len(published'[call[c].repo])
            /\ Len(published[call[c].repo]) \in Nat /\ Len(published'[call[c].repo]) \in Nat
      <4>1. \A q \in Repo : /\ Len(published[q]) <= Len(published'[q])
                            /\ Len(published[q]) \in Nat /\ Len(published'[q]) \in Nat
        BY <2>3 DEF IsStart
      <4> QED
        BY <4>1 DEF UpToDate, InTime
    <3>4. Refreshing(c)'
      <4>1. ASSUME call[c].kind = "refresh", call[c].phase \in {"drop", "cache", "index"}
            PROVE  call[c].known <= Len(published'[call[c].repo])
        BY <3>1, <3>3, <4>1 DEF Refreshing
      <4> QED
        BY <2>1, <3>1, <4>1 DEF Refreshing, Complete
    <3> QED
      BY <3>2, <3>4
  <2> QED
    BY <2>4, <2>5 DEF InStep
<1>18. ASSUME Tick PROVE InStep'
  <2>1. PanelTells'
    BY <1>1, <1>18, PanelStays DEF Tick
  <2> QED
    BY <1>1, <1>18, <2>1 DEF Tick, InStep, Refreshing, Newer, Complete, Sound
<1> QED
  BY <1>3, <1>4, <1>5, <1>6, <1>7, <1>8, <1>10, <1>11, <1>12, <1>13, <1>14, <1>15,
     <1>16, <1>17, <1>18 DEF Next, Step

LEMMA InStepAlways ==
  ASSUME OneAtATime
  PROVE  Spec => [](InTurn /\ UpToDate /\ InStep)
<1>1. Init => InStep
  BY NothingOnPanel DEF Init, InStep, PanelTells, Refreshing, Newer, Complete, IdleCall
<1>2. InTurn /\ UpToDate /\ InStep /\ [Next]_vars => InStep'
  BY InStepStep
<1> QED
  BY <1>1, <1>2, InTurnAlways, UpToDateAlways, PTL DEF Spec

(* If no two calls overlap, a refresh shows all that was published when the  *)
(* button was pressed, however long it takes and whatever the content script *)
(* had left in the cache (popup.ts 80-84).                                   *)
THEOREM RefreshIsWhole ==
  ASSUME OneAtATime
  PROVE  Spec => RefreshShowsAll
<1> DEFINE Whole == \A c \in Call :
                      /\ call[c].kind = "refresh" /\ call'[c] = IdleCall
                      /\ Sound(view')
                      => call[c].known <= Len(view'.state.data.log)
<1>1. InTurn /\ UpToDate /\ InStep /\ [Next]_vars => Whole
  <2> SUFFICES ASSUME InTurn, UpToDate, InStep, [Next]_vars,
                      NEW c \in Call, call[c].kind = "refresh", call'[c] = IdleCall, Sound(view')
               PROVE  call[c].known <= Len(view'.state.data.log)
    OBVIOUS
  <2>1. /\ CallsAreRecords /\ call[c].phase \notin {"idle", "whitelist"} /\ view = NoPanel
        /\ Refreshing(c) /\ view' # view /\ \A d \in Call : d = c
    BY DEF InTurn, OnPage, InStep, Refreshing, Sound, OneAtATime
  <2>2. CASE ReadCache(c)
    <3>1. cache[call[c].repo] = NoData
      BY <2>1, <2>2 DEF ReadCache, At, Refreshing
    <3> QED
      BY <2>1, <2>2, <3>1 DEF ReadCache, Usable
  <2>3. CASE Show(c)
    <3>1. view'.state.data = call[c].data
      BY <2>3 DEF Show, Finish, ComputeOverlayState
    <3>2. Complete(c)
      BY <2>3, <3>1 DEF Show, At, Complete, Sound
    <3> QED
      BY <2>1, <3>1, <3>2 DEF Refreshing
  <2>4. ~Throws(c) /\ ~UNCHANGED vars
    BY <2>1 DEF Throws, vars
  <2> QED
    BY <2>1, <2>2, <2>3, <2>4
    DEF Next, Step, Visit, Load, DetectRepo, Render, DropCache, FetchIndex, FetchFiles,
        WriteCache, Deliver, Publish, Tick, At
<1>2. Whole => [Whole]_vars
  OBVIOUS
<1> QED
  BY <1>1, InStepAlways, PTL DEF Spec, RefreshShowsAll

-----------------------------------------------------------------------------
(* WHO HOLDS A TRACK, FROM ONE PANEL TO THE NEXT *)

(* All logs that begin alike have one anchor. *)
LEMMA TrackChainOfStart ==
  ASSUME NEW s, NEW t, IsStart(s, t)
  PROVE  /\ TrackChain(s) \in VerifiedChain /\ TrackChain(t) \in VerifiedChain
         /\ IsStart(TrackChain(s).accepted, TrackChain(t).accepted)
<1>1. s \in Seq(Mandate) /\ t \in Seq(Mandate)
  BY DEF IsStart
<1>2. TrackChain(s) \in VerifiedChain /\ TrackChain(t) \in VerifiedChain
  BY <1>1, VerifyType DEF TrackChain
<1>3. CASE s = <<>>
  <2>1. TrackChain(s).accepted = <<>>
    BY <1>3, VerifyEmpty DEF TrackChain, EmptyChain
  <2>2. TrackChain(t).accepted \in Seq(Mandate)
    BY <1>2 DEF VerifiedChain
  <2> QED
    BY <1>2, <2>1, <2>2 DEF IsStart
<1>4. CASE s # <<>>
  <2>1. t # <<>> /\ Head(s) = Head(t)
    BY <1>1, <1>4 DEF IsStart
  <2>2. Anchor(s) = Anchor(t)
    BY <1>4, <2>1 DEF Anchor
  <2> QED
    BY <1>2, <2>2, ChainOfStart DEF TrackChain
<1> QED
  BY <1>2, <1>3, <1>4

(* The mandate a panel names is the last one live in its chain. *)
LEMMA NamedIsLive ==
  ASSUME NEW data, NEW t \in Nat, TrackChain(data.log) \in VerifiedChain,
         ComputeOverlayState(data, t).mandate # Nobody
  PROVE  LET a == TrackChain(data.log).accepted
             m == ComputeOverlayState(data, t).mandate
         IN  \E i \in 1 .. Len(a) :
               /\ a[i] = m /\ LiveAt(m, t)
               /\ \A j \in 1 .. Len(a) : LiveAt(a[j], t) => j <= i
<1> DEFINE ch == TrackChain(data.log)
<1>1. HasAuthority(ch, t) /\ ComputeOverlayState(data, t).mandate = CurrentAuthority(ch, t)
  BY DEF ComputeOverlayState
<1>2. ch.accepted \in Seq(Mandate)
  BY DEF VerifiedChain
<1> HIDE DEF ch
<1>3. /\ AuthorityPosition(ch, t) \in LivePositions(ch, t)
      /\ \A j \in LivePositions(ch, t) : j <= AuthorityPosition(ch, t)
  BY <1>1, AuthorityIsNewest DEF ch
<1>4. DOMAIN ch.accepted = 1 .. Len(ch.accepted)
  BY <1>2
<1> QED
  BY <1>1, <1>3, <1>4 DEF LivePositions, CurrentAuthority, ch

(* A panel without a takeover alarm tells that there is no takeover. *)
LEMMA AlarmTells ==
  ASSUME NEW data, NEW t, TrackChain(data.log) \in VerifiedChain, data.listed # 0,
         TrackChain(data.log).accepted # <<>>,
         "takeover" \notin ToSet(ComputeOverlayState(data, t).alarms)
  PROVE  ~TakenOver(TrackChain(data.log).accepted)
<1> DEFINE ch == TrackChain(data.log)
           soon == IF HasAuthority(ch, t) /\ CurrentAuthority(ch, t).expires < t + ExpirySoon
                   THEN <<"expiring-soon">> ELSE <<>>
           gaps == [k \in DOMAIN ch.rejections |-> "chain-gap"]
<1> SUFFICES ASSUME TakenOver(ch.accepted)
             PROVE  "takeover" \in ToSet(ComputeOverlayState(data, t).alarms)
  OBVIOUS
<1>1. ComputeOverlayState(data, t).alarms = <<"takeover">> \o soon \o gaps
  BY DEF ComputeOverlayState, AlarmsOf
<1>0. "takeover" \in Alarm /\ "expiring-soon" \in Alarm /\ "chain-gap" \in Alarm
  BY DEF Alarm
<1>2. <<"takeover">> \in Seq(Alarm) /\ soon \in Seq(Alarm)
  <2>1. <<"takeover">> \in Seq(Alarm) /\ <<"expiring-soon">> \in Seq(Alarm)
    BY <1>0
  <2>2. <<>> \in Seq(Alarm)
    OBVIOUS
  <2>3. soon \in {<<"expiring-soon">>, <<>>}
    OBVIOUS
  <2> HIDE DEF soon
  <2> QED
    BY <2>1, <2>2, <2>3
<1>3. gaps \in Seq(Alarm)
  <2>1. ch.rejections \in Seq([mandate : Mandate, reason : V2FailReason])
    BY DEF VerifiedChain
  <2>2. PICK n \in Nat : DOMAIN ch.rejections = 1 .. n
    BY <2>1
  <2>3. gaps \in [1 .. n -> Alarm]
    BY <1>0, <2>2
  <2> HIDE DEF gaps
  <2> QED
    BY <2>3
<1> HIDE DEF soon, gaps, ch
<1> DEFINE alarms == <<"takeover">> \o soon \o gaps
<1>4. 1 \in DOMAIN alarms /\ alarms[1] = "takeover"
  BY <1>2, <1>3
<1> QED
  BY <1>1, <1>4 DEF ToSet

(* Two panels of a repository, the later of which had more to look at. *)
LEMMA NamedInTurn ==
  ASSUME NEW old, NEW new, NEW whole, NEW t \in Nat, NEW u \in Nat, t <= u,
         IsStart(old.log, whole), IsStart(new.log, whole), Len(old.log) <= Len(new.log),
         new.listed # 0,
         NEW m, m = ComputeOverlayState(old, t).mandate, m # Nobody,
         NEW n, n = ComputeOverlayState(new, u).mandate, n # Nobody,
         m.holder # n.holder, ~(m.expires <= u),
         "takeover" \notin ToSet(ComputeOverlayState(new, u).alarms)
  PROVE  HandedOver(TrackChain(whole).accepted, m, n)
<1> DEFINE a == TrackChain(old.log).accepted
           b == TrackChain(new.log).accepted
           c == TrackChain(whole).accepted
<1>1. IsStart(old.log, new.log)
  BY DEF IsStart
<1>2. /\ IsStart(a, b) /\ IsStart(b, c)
      /\ TrackChain(old.log) \in VerifiedChain /\ TrackChain(new.log) \in VerifiedChain
  BY <1>1, TrackChainOfStart
<1>3. PICK i \in 1 .. Len(a) : a[i] = m /\ LiveAt(m, t)
  BY <1>2, NamedIsLive
<1>4. PICK j \in 1 .. Len(b) : b[j] = n /\ \A k \in 1 .. Len(b) : LiveAt(b[k], u) => k <= j
  BY <1>2, NamedIsLive
<1> HIDE DEF a, b, c
<1>5. /\ a \in Seq(Mandate) /\ b \in Seq(Mandate) /\ c \in Seq(Mandate)
      /\ i \in 1 .. Len(b) /\ b[i] = m
      /\ Len(b) \in Nat /\ Len(c) \in Nat /\ Len(b) <= Len(c)
      /\ \A k \in 1 .. Len(b) : c[k] = b[k]
  BY <1>2, <1>3 DEF IsStart
<1>6. m \in Mandate /\ m.issued \in Nat /\ m.expires \in Nat
  <2>1. m \in Mandate
    BY <1>5
  <2> QED
    BY <2>1 DEF Mandate
<1>7. LiveAt(m, u)
  BY <1>3, <1>6 DEF LiveAt
<1>8. i < j
  BY <1>4, <1>5, <1>7
<1>9. ~TakenOver(b)
  <2>1. b # <<>>
    BY <1>5
  <2> QED
    BY <1>2, <2>1, AlarmTells DEF b
<1>10. ASSUME NEW k \in i + 1 .. j
       PROVE  c[k].signedBy = c[k - 1].holder \/ c[k].holder = c[k - 1].holder
  <2>1. k \in 2 .. Len(b) /\ k \in 1 .. Len(b) /\ k - 1 \in 1 .. Len(b)
    BY <1>4, <1>5, <1>8
  <2>2. b[k].signedBy = b[k - 1].holder \/ b[k].holder = b[k - 1].holder
    BY <1>9, <2>1 DEF TakenOver
  <2> QED
    BY <1>5, <2>1, <2>2
<1>11. i \in DOMAIN c /\ j \in DOMAIN c /\ c[i] = m /\ c[j] = n
  BY <1>4, <1>5
<1> QED
  BY <1>8, <1>10, <1>11 DEF HandedOver, c

(* If no two calls overlap, the holder a panel names never changes silently: *)
(* a takeover raises the alarm, whatever the panel before it had seen        *)
(* (verifier-logic.ts, detectTakeover).                                      *)
THEOREM TakeoversAreTold ==
  ASSUME OneAtATime
  PROVE  Spec => HolderNeverChangesSilently
<1> DEFINE Told ==
      /\ Sound(panel) /\ Sound(panel') /\ panel'.repo = panel.repo
      /\ panel.state.mandate # Nobody /\ panel'.state.mandate # Nobody
      /\ panel.state.mandate.holder # panel'.state.mandate.holder
      => \/ "takeover" \in ToSet(panel'.state.alarms)
         \/ panel.state.mandate.expires <= now
         \/ HandedOver(TrackChain(published[panel.repo]).accepted,
                       panel.state.mandate, panel'.state.mandate)
<1>1. InTurn /\ UpToDate /\ InStep /\ [Next]_vars => Told
  <2> SUFFICES ASSUME InTurn, UpToDate, InStep, [Next]_vars,
                      Sound(panel), Sound(panel'), panel'.repo = panel.repo,
                      panel.state.mandate # Nobody, panel'.state.mandate # Nobody,
                      panel.state.mandate.holder # panel'.state.mandate.holder,
                      "takeover" \notin ToSet(panel'.state.alarms),
                      ~(panel.state.mandate.expires <= now)
               PROVE  HandedOver(TrackChain(published[panel.repo]).accepted,
                                 panel.state.mandate, panel'.state.mandate)
    OBVIOUS
  <2>1. PICK c, new : c \in Call /\ Shows(c, new)
    <3>1. panel' # panel
      OBVIOUS
    <3> QED
      BY <3>1, ShownFrom
  <2>2. PICK m, n, old, whole :
          /\ m = panel.state.mandate /\ n = panel'.state.mandate
          /\ old = panel.state.data /\ whole = published[panel.repo]
    OBVIOUS
  <2>3. PICK t \in 0 .. now : m = ComputeOverlayState(old, t).mandate
    BY <2>2 DEF InStep, PanelTells
  <2>4. /\ panel'.state = ComputeOverlayState(new, now) /\ panel.repo = call[c].repo
        /\ call[c].repo \in Repo /\ new # NoData /\ new.errors = 0
    BY <2>1 DEF Shows
  <2>5. now \in Nat /\ t \in Nat /\ t <= now /\ IsStart(old.log, whole)
    BY <2>2, <2>3 DEF UpToDate, PublishedOnTheDay, InStep, PanelTells
  <2>6. /\ new.listed # 0 /\ IsStart(new.log, whole) /\ Len(old.log) <= Len(new.log)
    <3>1. CASE new = cache[call[c].repo]
      BY <2>1, <2>2, <2>4, <3>1 DEF UpToDate, CacheTells, Tells, InStep, PanelTells
    <3>2. CASE new = call[c].data /\ call[c].phase = "show"
      BY <2>1, <2>2, <2>4, <3>2 DEF UpToDate, CallTells, Complete, Tells, InStep, Newer
    <3> QED
      BY <2>1, <3>1, <3>2 DEF Shows
  <2>7. HandedOver(TrackChain(whole).accepted, m, n)
    BY <2>2, <2>3, <2>4, <2>5, <2>6, NamedInTurn
  <2> QED
    BY <2>2, <2>7
<1>2. Told => [Told]_vars
  OBVIOUS
<1> QED
  BY <1>1, InStepAlways, PTL DEF Spec, HolderNeverChangesSilently

-----------------------------------------------------------------------------
(* THE STATUS PAGE *)

RequestFields == {"url", "todo", "files", "lost", "phase"}
LoadedWell == loaded.url \in Parsed /\ loaded.canonical = Canon[loaded.url]

(* A load under way is the one for the last url, and wiped the error; when   *)
(* none is and none failed, the answer for the last url is in the store; and *)
(* the project on the route is the one loaded, or its load was the last one. *)
StoreInv ==
  /\ route \in Url \cup {Home} /\ last \in Url \cup {Home} /\ loading \in BOOLEAN
  /\ request # None => /\ loading /\ error = None /\ request.url = last /\ last \in Url
                       /\ DOMAIN request = RequestFields
                       /\ request.phase \in {"listing", "fetching", "probing", "answered"}
                            => request.url \in Parsed
  /\ loaded # None => LoadedWell
  /\ ~loading /\ error = None /\ last # Home => LoadedWell /\ loaded.url = last
  /\ route # Home /\ ~loading => route = last \/ (loaded # None /\ loaded.canonical = route)

(* store.update keeps the invariant, for any new route, project and error    *)
(* that keep its parts.                                                      *)
LEMMA UpdateKeepsStore ==
  ASSUME StoreInv, NEW r \in Url \cup {Home}, NEW l, NEW busy \in BOOLEAN, NEW e,
         l # None => l.url \in Parsed /\ l.canonical = Canon[l.url],
         busy => busy = loading /\ e = error,
         ~busy /\ e = None /\ last # Home =>
           l.url = last /\ l.url \in Parsed /\ l.canonical = Canon[l.url],
         Update(r, l, busy, e)
  PROVE  StoreInv'
<1> DEFINE starts == (r # Home /\ ~busy /\ (l = None \/ l.canonical # r)) /\ r # last
<1>1. CASE starts
  <2>1. route' = r /\ loaded' = l /\ last' = r /\ loading' = TRUE /\ error' = None
        /\ request' = LoadProject(r) /\ r \in Url
    BY <1>1 DEF Update
  <2>2. /\ request'.url = r /\ DOMAIN request' = RequestFields
        /\ request'.phase \in {"listing", "fetching", "probing", "answered"} => r \in Parsed
    BY <2>1 DEF LoadProject, Parsed, RequestFields
  <2> QED BY <2>1, <2>2 DEF StoreInv, LoadedWell
<1>2. CASE ~starts
  <2>1. route' = r /\ loaded' = l /\ last' = last /\ loading' = busy /\ error' = e
        /\ request' = IF busy THEN request ELSE None
    BY <1>2 DEF Update
  <2>2. r = Home \/ busy \/ (l # None /\ l.canonical = r) \/ r = last
    BY <1>2
  <2> QED BY <2>1, <2>2 DEF StoreInv, LoadedWell
<1> QED BY <1>1, <1>2

(* One answer of a load keeps the invariant: it goes on, or waits to be read. *)
LEMMA AnswerKeepsStore ==
  ASSUME StoreInv, request # None, NEW next, Answer(next), next.url = request.url,
         DOMAIN next = RequestFields,
         next.phase \in {"listing", "fetching", "probing", "answered"} => request.url \in Parsed
  PROVE  StoreInv'
BY DEF StoreInv, LoadedWell, Answer

(* Every step of a load keeps the invariant of the store. *)
LEMMA LoadKeepsStore ==
  ASSUME StoreInv, LoadStep PROVE StoreInv'
<1>1. ASSUME NEW ok \in BOOLEAN, ListAnswer(ok) PROVE StoreInv'
  <2> DEFINE listed == IF ok THEN trees[Reads[request.url]] ELSE {}
             next == [request EXCEPT !.todo = listed, !.lost = ~ok,
                        !.phase = IF listed = {} THEN "probing" ELSE "fetching"]
  <2>1. request # None /\ request.url \in Parsed /\ Answer(next)
    BY <1>1 DEF ListAnswer, Awaiting, StoreInv
  <2>2. next.url = request.url /\ DOMAIN next = RequestFields
    BY <2>1 DEF StoreInv, RequestFields
  <2> HIDE DEF next
  <2> QED BY <2>1, <2>2, AnswerKeepsStore
<1>2. ASSUME NEW ok \in BOOLEAN, ServerAnswer(ok) PROVE StoreInv'
  <2> DEFINE next == [request EXCEPT
                        !.files = IF ok THEN trees[Reads[request.url]] ELSE {},
                        !.phase = IF ok THEN "answered" ELSE "failed"]
  <2>1. request # None /\ (ok => request.url \in Parsed) /\ Answer(next)
    BY <1>2 DEF ServerAnswer, Awaiting
  <2>2. next.url = request.url /\ DOMAIN next = RequestFields
        /\ (next.phase \in {"listing", "fetching", "probing", "answered"} => ok)
    BY <2>1 DEF StoreInv, RequestFields
  <2> HIDE DEF next
  <2> QED BY <2>1, <2>2, AnswerKeepsStore
<1>3. ASSUME NEW f \in request.todo, NEW ok \in BOOLEAN, FetchAnswer(f, ok) PROVE StoreInv'
  <2> DEFINE got == IF ok THEN request.files \cup {f} ELSE request.files
             rest == request.todo \ {f}
             next == [request EXCEPT !.files = got, !.todo = rest, !.lost = @ \/ ~ok,
                        !.phase = CASE rest # {} -> "fetching"
                                    [] rest = {} /\ got = {} -> "probing"
                                    [] OTHER -> "answered"]
  <2>1. request # None /\ request.url \in Parsed /\ Answer(next)
    BY <1>3 DEF FetchAnswer, Awaiting, StoreInv
  <2>2. next.url = request.url /\ DOMAIN next = RequestFields
    BY <2>1 DEF StoreInv, RequestFields
  <2> HIDE DEF next
  <2> QED BY <2>1, <2>2, AnswerKeepsStore
<1>4. ASSUME FetchRejected PROVE StoreInv'
  <2> DEFINE next == [request EXCEPT !.lost = TRUE, !.phase = "probing"]
  <2>1. request # None /\ request.url \in Parsed /\ Answer(next)
    BY <1>4 DEF FetchRejected, Awaiting, StoreInv
  <2>2. next.url = request.url /\ DOMAIN next = RequestFields
    BY <2>1 DEF StoreInv, RequestFields
  <2> HIDE DEF next
  <2> QED BY <2>1, <2>2, AnswerKeepsStore
<1>5. ASSUME NEW outcome \in {"ok", "not ok", "rejected"}, ProbeAnswer(outcome) PROVE StoreInv'
  <2> DEFINE next == [request EXCEPT
                        !.files = IF outcome = "ok" THEN @ \cup {Readme} ELSE @,
                        !.phase = IF outcome = "rejected" THEN "failed" ELSE "answered"]
  <2>1. request # None /\ request.url \in Parsed /\ Answer(next)
    BY <1>5 DEF ProbeAnswer, Awaiting, StoreInv
  <2>2. next.url = request.url /\ DOMAIN next = RequestFields
    BY <2>1 DEF StoreInv, RequestFields
  <2> HIDE DEF next
  <2> QED BY <2>1, <2>2, AnswerKeepsStore
<1>6. ASSUME Loaded PROVE StoreInv'
  <2> DEFINE l == [url |-> request.url, canonical |-> Canon[request.url],
                   files |-> request.files, lost |-> request.lost,
                   exists |-> request.files # {}]
  <2>1. request # None /\ request.url \in Parsed /\ request.url = last
        /\ Update(route, l, FALSE, error)
    BY <1>6 DEF Loaded, Awaiting, StoreInv
  <2>2. l.url = request.url /\ l.canonical = Canon[request.url] OBVIOUS
  <2>3. route \in Url \cup {Home} BY DEF StoreInv
  <2> HIDE DEF l
  <2> QED BY <2>1, <2>2, <2>3, UpdateKeepsStore
<1>7. ASSUME LoadFailed PROVE StoreInv'
  <2>1. Update(route, loaded, FALSE, "failed") BY <1>7 DEF LoadFailed
  <2>2. "failed" # None BY WebUiAssumption
  <2>3. route \in Url \cup {Home} /\ (loaded # None => LoadedWell) BY DEF StoreInv
  <2> QED BY <2>1, <2>2, <2>3, UpdateKeepsStore DEF LoadedWell
<1>8. request = None => ~\E f \in (IF request = None THEN {} ELSE request.todo) : TRUE
  OBVIOUS
<1> QED BY <1>1, <1>2, <1>3, <1>4, <1>5, <1>6, <1>7, <1>8 DEF LoadStep

(* A change of the route keeps it. *)
LEMMA RouteKeepsStore ==
  ASSUME StoreInv, NEW r \in Url \cup {Home}, Update(r, loaded, loading, error)
  PROVE  StoreInv'
<1>1. loading \in BOOLEAN /\ (loaded # None => LoadedWell)
      /\ (~loading /\ error = None /\ last # Home => LoadedWell /\ loaded.url = last)
  BY DEF StoreInv
<1> QED BY <1>1, UpdateKeepsStore DEF LoadedWell

LEMMA StoreAlways == WebSpec => []StoreInv
<1>1. WebInit => StoreInv
  BY WebUiAssumption DEF WebInit, StoreInv, LoadedWell
<1>2. StoreInv /\ [WebNext]_webVars => StoreInv'
  <2> SUFFICES ASSUME StoreInv, [WebNext]_webVars PROVE StoreInv'
    OBVIOUS
  <2>1. ASSUME NEW r \in Url \cup {Home}, Navigate(r) PROVE StoreInv'
    BY <2>1, RouteKeepsStore DEF Navigate
  <2>2. ASSUME ClickTab PROVE StoreInv'
    <3>1. Update(loaded.canonical, loaded, loading, error) /\ loaded # None
      BY <2>2 DEF ClickTab, ShownPage, StoreInv
    <3>2. loaded.canonical \in Url
      BY <3>1, WebUiAssumption DEF StoreInv, LoadedWell, Parsed
    <3> QED BY <3>1, <3>2, RouteKeepsStore
  <2>3. CASE LoadStep BY <2>3, LoadKeepsStore
  <2>4. CASE UNCHANGED store BY <2>4 DEF store, StoreInv, LoadedWell
  <2>5. ASSUME NEW b \in Bundles, Submit(b) PROVE UNCHANGED store
    BY <2>5 DEF Submit
  <2>6. PutAnswer \/ PostAnswer => UNCHANGED store
    BY DEF PutAnswer, PostAnswer
  <2>7. ASSUME NEW stored \in BOOLEAN, PutFailed(stored) \/ PostFailed(stored)
        PROVE  UNCHANGED store
    BY <2>7 DEF PutFailed, PostFailed
  <2>8. ASSUME NEW b \in Branch, Commit(b) PROVE UNCHANGED store
    BY <2>8 DEF Commit
  <2>9. UNCHANGED webVars => UNCHANGED store
    BY DEF webVars
  <2> QED BY <2>1, <2>2, <2>3, <2>4, <2>5, <2>6, <2>7, <2>8, <2>9 DEF WebNext
<1> QED BY <1>1, <1>2, PTL DEF WebSpec

(* For every set of urls, whatever spellings they have, however often the    *)
(* route changes and whichever answers fail: a page that shows a project     *)
(* shows that of its route.                                                  *)
THEOREM ShownIsRouted == WebSpec => []ShownProjectIsTheRoutes
<1>1. StoreInv => ShownProjectIsTheRoutes
  <2> SUFFICES ASSUME StoreInv, ShownPage \in {"project", "absent"}
               PROVE  route \in Parsed /\ loaded.canonical = Canon[route]
    BY DEF ShownProjectIsTheRoutes
  <2>1. route # Home /\ ~loading /\ error = None /\ loaded # None
    BY DEF ShownPage, StoreInv
  <2>2. LoadedWell BY <2>1 DEF StoreInv
  <2>3. CASE route = last
    BY <2>1, <2>3 DEF StoreInv, LoadedWell
  <2>4. CASE loaded.canonical = route
    BY <2>2, <2>4, WebUiAssumption DEF LoadedWell
  <2> QED BY <2>1, <2>3, <2>4 DEF StoreInv
<1> QED BY <1>1, StoreAlways, PTL

-----------------------------------------------------------------------------
BundleRecord ==
  [url : Parsed, files : Seq(Mandate), next : Nat, created : SUBSET Nat,
   outcome : {"pending", "downloadable", "committed", "failed"}]

(* The entries before k are on the branch. *)
StoredBefore(k) ==
  \A j \in DOMAIN bundle.files : j < k => bundle.files[j] \in trees[Target]

(* The submission has stored the first n entries and no other.               *)
Sent(n) ==
  /\ n <= Len(bundle.files) /\ bundle.created = 1 .. n /\ StoredBefore(n + 1)
  /\ bundle.outcome = "pending" => n < Len(bundle.files) /\ bundle.next = n + 1
  /\ bundle.outcome = "committed" => n = Len(bundle.files)

(* What was sent of a bundle is a beginning of it, created by it, and stays; *)
(* it is committed only when nothing is left to be sent.                     *)
BundleInv ==
  /\ trees \in [Branch -> SUBSET File] /\ upcoming \in [Branch -> Seq(File)]
  /\ bundle # None =>
       bundle \in BundleRecord /\ bundle.files # <<>> /\ \E n \in Nat : Sent(n)

(* A commit adds to the trees, so what was stored stays stored. *)
LEMMA TreesGrow ==
  ASSUME BundleInv, bundle' = bundle, upcoming' \in [Branch -> Seq(File)],
         trees' \in [Branch -> SUBSET File],
         \A b \in Branch : trees[b] \subseteq trees'[b]
  PROVE  BundleInv'
<1> CASE bundle = None BY DEF BundleInv
<1> CASE bundle # None
  <2>1. Target \in Branch
    BY WebUiAssumption DEF BundleInv, BundleRecord, Target
  <2>2. Target' = Target BY DEF Target
  <2>3. ASSUME NEW k, Sent(k) PROVE Sent(k)'
    BY <2>1, <2>2, <2>3 DEF Sent, StoredBefore
  <2> QED BY <2>3 DEF BundleInv
<1> QED OBVIOUS

(* A PUT that creates entry k of the bundle adds it to its branch. *)
LEMMA CreateAdds ==
  ASSUME BundleInv, bundle # None, NEW k \in DOMAIN bundle.files, Create(k)
  PROVE  /\ Target \in Branch /\ trees' \in [Branch -> SUBSET File]
         /\ \A b \in Branch : trees[b] \subseteq trees'[b]
         /\ bundle.files[k] \in trees'[Target]
<1>1. Target \in Branch
  BY WebUiAssumption DEF BundleInv, BundleRecord, Target
<1>2. bundle.files[k] \in File
  <2>1. bundle.files \in Seq(Mandate) BY DEF BundleInv, BundleRecord
  <2> HIDE DEF Mandate
  <2> QED BY <2>1 DEF File
<1> QED BY <1>1, <1>2 DEF Create, BundleInv

(* The PUT after n entries adds one more to what was sent. *)
LEMMA CreateSends ==
  ASSUME BundleInv, bundle # None, NEW n \in Nat, Sent(n), n < Len(bundle.files), Create(n + 1)
  PROVE  /\ trees' \in [Branch -> SUBSET File]
         /\ \A j \in DOMAIN bundle.files : j < n + 2 => bundle.files[j] \in trees'[Target]
<1>1. PICK len \in Nat : len = Len(bundle.files) /\ DOMAIN bundle.files = 1 .. len
  BY LenProperties DEF BundleInv, BundleRecord
<1>2. PICK k \in 1 .. len : k = n + 1
  BY <1>1
<1>3. Target \in Branch /\ trees' \in [Branch -> SUBSET File]
      /\ trees[Target] \subseteq trees'[Target] /\ bundle.files[k] \in trees'[Target]
  BY <1>1, <1>2, CreateAdds
<1>4. ASSUME NEW j \in 1 .. len, j < n + 2 PROVE bundle.files[j] \in trees'[Target]
  <2>1. CASE j < n + 1 BY <1>1, <1>3, <2>1 DEF Sent, StoredBefore
  <2>2. CASE j = k BY <1>3, <2>2
  <2> QED BY <1>2, <1>4, <2>1, <2>2
<1> QED BY <1>1, <1>3, <1>4

(* A server that stores a bundle stores all of it. *)
LEMMA StoreAllSends ==
  ASSUME BundleInv, bundle # None, StoreAll
  PROVE  /\ trees' \in [Branch -> SUBSET File]
         /\ \A j \in DOMAIN bundle.files : bundle.files[j] \in trees'[Target]
<1>1. bundle.files \in Seq(Mandate) /\ bundle.url \in Parsed
  BY DEF BundleInv, BundleRecord
<1>2. ToSet(bundle.files) \subseteq File
  <2> HIDE DEF Mandate
  <2> QED BY <1>1 DEF ToSet, File
<1>3. Target \in Branch
  BY <1>1, WebUiAssumption DEF Target
<1>4. trees' \in [Branch -> SUBSET File] /\ ToSet(bundle.files) \subseteq trees'[Target]
  BY <1>2, <1>3 DEF BundleInv, StoreAll
<1> QED BY <1>4 DEF ToSet

(* A submission that is answered after n entries were stored. *)
LEMMA AnswerKeepsBundle ==
  ASSUME bundle # None, bundle \in BundleRecord, bundle.files # <<>>,
         NEW n \in Nat, n <= Len(bundle.files), NEW x \in Nat,
         NEW o \in {"pending", "committed", "failed"},
         bundle' = [bundle EXCEPT !.next = x, !.created = 1 .. n, !.outcome = o],
         o = "pending" => n < Len(bundle.files) /\ x = n + 1,
         o = "committed" => n = Len(bundle.files),
         trees' \in [Branch -> SUBSET File], upcoming' \in [Branch -> Seq(File)],
         \A j \in DOMAIN bundle.files : j < n + 1 => bundle.files[j] \in trees'[Target]
  PROVE  BundleInv'
<1>1. bundle' \in BundleRecord /\ bundle'.files = bundle.files /\ bundle'.url = bundle.url
      /\ bundle'.next = x /\ bundle'.created = 1 .. n /\ bundle'.outcome = o
  <2> HIDE DEF Mandate
  <2>1. 1 .. n \in SUBSET Nat OBVIOUS
  <2> QED BY <2>1 DEF BundleRecord
<1>2. StoredBefore(n + 1)'
  BY <1>1 DEF StoredBefore, Target
<1>3. Sent(n)'
  BY <1>1, <1>2 DEF Sent
<1> QED BY <1>1, <1>3 DEF BundleInv

LEMMA BundleAlways == WebSpec => []BundleInv
<1> USE DEF Pending
<1>1. WebInit => BundleInv
  BY WebUiAssumption DEF WebInit, BundleInv
<1>2. BundleInv /\ [WebNext]_webVars => BundleInv'
  <2> SUFFICES ASSUME BundleInv, [WebNext]_webVars PROVE BundleInv'
    OBVIOUS
  <2>1. ASSUME UNCHANGED world PROVE BundleInv'
    BY <2>1, TreesGrow DEF world, BundleInv
  <2>2. ASSUME NEW r \in Url \cup {Home}, Navigate(r) PROVE UNCHANGED world
    BY <2>2 DEF Navigate
  <2>3. ClickTab => UNCHANGED world BY DEF ClickTab
  <2>4. LoadStep => UNCHANGED world
    BY DEF LoadStep, ListAnswer, ServerAnswer, FetchAnswer, FetchRejected, ProbeAnswer, Loaded,
           LoadFailed, Answer
  <2>5. UNCHANGED webVars => UNCHANGED world BY DEF webVars
  <2>6. ASSUME NEW b \in Bundles, Submit(b) PROVE BundleInv'
    <3>1. b.url \in Parsed /\ b.files \in Seq(Mandate) /\ b.files # <<>>
      BY WebUiAssumption
    <3>2. bundle' \in BundleRecord /\ bundle'.files = b.files /\ bundle'.next = 1
          /\ bundle'.created = {} /\ bundle'.outcome \in {"downloadable", "pending"}
      BY <2>6, <3>1 DEF Submit, BundleRecord
    <3>3. Len(b.files) \in Nat /\ Len(b.files) # 0 /\ DOMAIN b.files = 1 .. Len(b.files)
      BY <3>1, EmptySeq, LenProperties
    <3>4. Sent(0)'
      BY <3>2, <3>3 DEF Sent, StoredBefore
    <3>5. trees' = trees /\ upcoming' = upcoming BY <2>6 DEF Submit
    <3> QED BY <3>1, <3>2, <3>4, <3>5 DEF BundleInv
  <2>7. ASSUME bundle # None
        PROVE  /\ bundle \in BundleRecord /\ bundle.files # <<>>
               /\ trees \in [Branch -> SUBSET File] /\ upcoming \in [Branch -> Seq(File)]
               /\ Len(bundle.files) \in Nat /\ DOMAIN bundle.files = 1 .. Len(bundle.files)
               /\ \E n \in Nat : Sent(n)
    BY <2>7, LenProperties DEF BundleInv, BundleRecord
  <2>8. ASSUME PutAnswer PROVE BundleInv'
    <3>1. bundle # None /\ bundle.outcome = "pending" /\ upcoming' = upcoming
      BY <2>8 DEF PutAnswer
    <3>2. PICK n \in Nat : Sent(n)
      BY <2>7, <3>1
    <3>3. n < Len(bundle.files) /\ bundle.next = n + 1 /\ bundle.created = 1 .. n
      BY <3>1, <3>2 DEF Sent
    <3>4. Create(n + 1)
      BY <2>8, <3>3 DEF PutAnswer
    <3>5. PICK len \in Nat : len = Len(bundle.files)
      BY <2>7, <3>1
    <3>6. PICK m \in Nat, o \in {"pending", "committed"} :
            m = n + 1 /\ o = IF m = len THEN "committed" ELSE "pending"
      OBVIOUS
    <3>7. (1 .. n) \cup {n + 1} = 1 .. m
      BY <3>6
    <3>8. bundle' = [bundle EXCEPT !.next = m + 1, !.created = 1 .. m, !.outcome = o]
      BY <2>8, <3>1, <3>3, <3>5, <3>6, <3>7 DEF PutAnswer
    <3>9. m <= len /\ (o = "pending" => m < len) /\ (o = "committed" => m = len)
          /\ m + 1 \in Nat /\ m + 1 = n + 2
      BY <3>3, <3>5, <3>6
    <3>10. trees' \in [Branch -> SUBSET File]
           /\ \A j \in DOMAIN bundle.files : j < m + 1 => bundle.files[j] \in trees'[Target]
      BY <3>1, <3>2, <3>3, <3>4, <3>9, CreateSends
    <3> QED BY <2>7, <3>1, <3>5, <3>8, <3>9, <3>10, AnswerKeepsBundle
  <2>9. ASSUME NEW stored \in BOOLEAN, PutFailed(stored) PROVE BundleInv'
    <3>1. bundle # None /\ bundle.outcome = "pending" /\ upcoming' = upcoming
      BY <2>9 DEF PutFailed
    <3>2. PICK n \in Nat : Sent(n)
      BY <2>7, <3>1
    <3>3. n < Len(bundle.files) /\ bundle.next = n + 1 /\ bundle.created = 1 .. n
          /\ StoredBefore(n + 1)
      BY <3>1, <3>2 DEF Sent
    <3>4. CASE stored
      <4>1. Create(n + 1) /\ n + 1 \in Nat /\ n + 1 <= Len(bundle.files) /\ n + 1 + 1 = n + 2
        BY <2>7, <2>9, <3>1, <3>3, <3>4 DEF PutFailed
      <4>2. bundle' = [bundle EXCEPT !.next = n + 1, !.created = 1 .. n + 1, !.outcome = "failed"]
        <5>1. (1 .. n) \cup {n + 1} = 1 .. n + 1
          OBVIOUS
        <5> QED BY <2>7, <2>9, <3>1, <3>3, <3>4, <5>1 DEF PutFailed, BundleRecord
      <4>3. trees' \in [Branch -> SUBSET File]
            /\ \A j \in DOMAIN bundle.files : j < n + 1 + 1 => bundle.files[j] \in trees'[Target]
        BY <3>1, <3>2, <3>3, <4>1, CreateSends
      <4> QED BY <2>7, <3>1, <4>1, <4>2, <4>3, AnswerKeepsBundle
    <3>5. CASE ~stored
      <4>1. trees' = trees
        BY <2>9, <3>5 DEF PutFailed
      <4>2. bundle' = [bundle EXCEPT !.next = n + 1, !.created = 1 .. n, !.outcome = "failed"]
        BY <2>7, <2>9, <3>1, <3>3, <3>5 DEF PutFailed, BundleRecord
      <4>3. n + 1 \in Nat /\ n <= Len(bundle.files)
        BY <2>7, <3>1, <3>3
      <4>4. \A j \in DOMAIN bundle.files : j < n + 1 => bundle.files[j] \in trees'[Target]
        BY <3>3, <4>1 DEF StoredBefore
      <4> QED BY <2>7, <3>1, <4>1, <4>2, <4>3, <4>4, AnswerKeepsBundle
    <3> QED BY <3>4, <3>5
  <2>10. ASSUME PostAnswer \/ \E stored \in BOOLEAN : PostFailed(stored) PROVE BundleInv'
    <3>1. bundle # None /\ upcoming' = upcoming
      BY <2>10 DEF PostAnswer, PostFailed
    <3>2. PICK len \in Nat : len = Len(bundle.files) /\ DOMAIN bundle.files = 1 .. len
      BY <2>7, <3>1
    <3>3. PICK x \in Nat : x = bundle.next
      BY <2>7, <3>1 DEF BundleRecord
    <3>4. CASE StoreAll /\ \E o \in {"committed", "failed"} :
                 bundle' = [bundle EXCEPT !.created = DOMAIN bundle.files, !.outcome = o]
      <4>1. PICK o \in {"committed", "failed"} :
              bundle' = [bundle EXCEPT !.next = x, !.created = 1 .. len, !.outcome = o]
        BY <2>7, <3>1, <3>2, <3>3, <3>4 DEF BundleRecord
      <4>2. trees' \in [Branch -> SUBSET File]
            /\ \A j \in DOMAIN bundle.files : bundle.files[j] \in trees'[Target]
        BY <3>1, <3>4, StoreAllSends
      <4>3. /\ o \in {"pending", "committed", "failed"} /\ o # "pending" /\ len <= len
            /\ \A j \in DOMAIN bundle.files : j < len + 1 => bundle.files[j] \in trees'[Target]
        BY <4>1, <4>2
      <4> QED BY <2>7, <3>1, <3>2, <4>1, <4>2, <4>3, AnswerKeepsBundle
    <3>5. CASE trees' = trees /\ bundle' = [bundle EXCEPT !.created = {}, !.outcome = "failed"]
      <4>1. bundle' = [bundle EXCEPT !.next = x, !.created = 1 .. 0, !.outcome = "failed"]
        <5>1. 1 .. 0 = {} OBVIOUS
        <5> QED BY <2>7, <3>1, <3>3, <3>5, <5>1 DEF BundleRecord
      <4>2. \A j \in DOMAIN bundle.files : ~(j < 0 + 1)
        BY <3>2
      <4>3. 0 \in Nat /\ 0 <= Len(bundle.files) /\ "failed" # "pending" /\ "failed" # "committed"
            /\ trees' \in [Branch -> SUBSET File] /\ upcoming' \in [Branch -> Seq(File)]
        BY <2>7, <3>1, <3>2, <3>5
      <4> QED BY <2>7, <3>1, <3>2, <4>1, <4>2, <4>3, AnswerKeepsBundle
    <3> QED BY <2>10, <3>4, <3>5 DEF PostAnswer, PostFailed
  <2>11. ASSUME NEW b \in Branch, Commit(b) PROVE BundleInv'
    <3>1. upcoming[b] \in Seq(File) /\ upcoming[b] # <<>> BY <2>11 DEF Commit, BundleInv
    <3>2. Head(upcoming[b]) \in File /\ Tail(upcoming[b]) \in Seq(File)
      BY <3>1, HeadTailProperties
    <3>3. trees' \in [Branch -> SUBSET File] /\ upcoming' \in [Branch -> Seq(File)]
          /\ \A c \in Branch : trees[c] \subseteq trees'[c]
      BY <2>11, <3>2 DEF Commit, BundleInv
    <3> QED BY <2>11, <3>3, TreesGrow DEF Commit
  <2> QED
    BY <2>1, <2>2, <2>3, <2>4, <2>5, <2>6, <2>8, <2>9, <2>10, <2>11 DEF WebNext
<1> QED BY <1>1, <1>2, PTL DEF WebSpec

(* For every bundle, every set of other writers, every loss of answers and   *)
(* every retry: what a submission has stored is a beginning of its bundle,   *)
(* and all of it when it is reported as committed.                           *)
THEOREM CommittedMeansCreated == WebSpec => []CommittedWholly
<1>1. BundleInv => CommittedWholly
  <2> SUFFICES ASSUME BundleInv, bundle # None
               PROVE  /\ \E n \in 0 .. Len(bundle.files) : bundle.created = 1 .. n
                      /\ \A k \in bundle.created : bundle.files[k] \in trees[Target]
                      /\ bundle.outcome = "committed" => bundle.created = DOMAIN bundle.files
    BY DEF CommittedWholly
  <2>1. PICK n \in Nat : Sent(n)
    BY DEF BundleInv
  <2>2. PICK len \in Nat : len = Len(bundle.files) /\ DOMAIN bundle.files = 1 .. len
    BY LenProperties DEF BundleInv, BundleRecord
  <2>3. n \in 0 .. len /\ bundle.created = 1 .. n
    BY <2>1, <2>2 DEF Sent
  <2>4. ASSUME NEW k \in 1 .. n PROVE bundle.files[k] \in trees[Target]
    BY <2>1, <2>2, <2>3 DEF Sent, StoredBefore
  <2>5. bundle.outcome = "committed" => n = len
    BY <2>1, <2>2 DEF Sent
  <2> QED BY <2>2, <2>3, <2>4, <2>5
<1> QED BY <1>1, BundleAlways, PTL

-----------------------------------------------------------------------------
(* THE STATUS PAGE: A PREFIX OF THE BRANCH *)

MandatesOn(b) == trees[b] \ {Readme}

(* What the theorem asks of a branch: finitely many files, no two of one     *)
(* name; and what is committed to it is dated after what is there - on one   *)
(* date, named after it.  A mandate that is committed later than its         *)
(* successor would appear in the middle of the chain.                        *)
NamesDiffer == \A b \in Branch : IsFolder(MandatesOn(b))
ComesLater ==
  \A b \in Branch :
    \A m \in MandatesOn(b), k \in MandatesOn(b)' \ MandatesOn(b) : EarlierName(m, k)
CommitsComeLater == [][ComesLater]_trees

BranchesGrow == \A b \in Branch : trees[b] \subseteq trees'[b]

(* Files that were on the branch when nothing later was. *)
IsView(fs, b) ==
  /\ fs \ {Readme} \subseteq trees[b]
  /\ \A m \in fs \ {Readme}, k \in MandatesOn(b) \ fs : EarlierName(m, k)

(* What a load has and still waits for was the whole branch when it was      *)
(* listed, and so was what is loaded, unless an answer was lost.             *)
ReadWell ==
  /\ request # None =>
       /\ request.phase \in {"listing", "asking"} => request.files = {} /\ request.todo = {}
       /\ ~request.lost =>
            /\ request.phase # "fetching" => request.todo = {}
            /\ request.url \in Parsed =>
                 IsView(request.files \cup request.todo, Reads[request.url])
  /\ loaded # None /\ ~loaded.lost => IsView(loaded.files, Reads[loaded.url])

(* No step takes a file off a branch. *)
LEMMA TreesOnlyGrow ==
  ASSUME BundleInv, [WebNext]_webVars PROVE BranchesGrow
<1>1. UNCHANGED trees => BranchesGrow
  BY DEF BranchesGrow
<1>2. trees \in [Branch -> SUBSET File]
  BY DEF BundleInv
<1>3. ASSUME NEW k, Create(k) PROVE BranchesGrow
  BY <1>2, <1>3 DEF Create, BranchesGrow
<1>4. ASSUME NEW b \in Branch, Commit(b) PROVE BranchesGrow
  BY <1>2, <1>4 DEF Commit, BranchesGrow
<1>5. PutAnswer => BranchesGrow
  BY <1>3 DEF PutAnswer
<1>6. ASSUME NEW stored \in BOOLEAN, PutFailed(stored) PROVE BranchesGrow
  BY <1>1, <1>3, <1>6 DEF PutFailed
<1>7. StoreAll => BranchesGrow
  BY <1>2 DEF StoreAll, BranchesGrow
<1>8. PostAnswer \/ (\E stored \in BOOLEAN : PostFailed(stored)) => BranchesGrow
  BY <1>1, <1>7 DEF PostAnswer, PostFailed
<1>9. ASSUME NEW b \in Bundles, Submit(b) PROVE UNCHANGED trees
  BY <1>9 DEF Submit
<1>10. ASSUME NEW r \in Url \cup {Home}, Navigate(r) PROVE UNCHANGED trees
  BY <1>10 DEF Navigate, world
<1>11. ClickTab \/ UNCHANGED webVars => UNCHANGED trees
  BY DEF ClickTab, world, webVars
<1>12. LoadStep => UNCHANGED trees
  BY DEF LoadStep, ListAnswer, ServerAnswer, FetchAnswer, FetchRejected, ProbeAnswer, Loaded,
         LoadFailed, Answer, world
<1> QED
  BY <1>1, <1>4, <1>5, <1>6, <1>7, <1>8, <1>9, <1>10, <1>11, <1>12 DEF WebNext

(* What was a view stays one while only later files come. *)
LEMMA ViewStays ==
  ASSUME NEW fs, NEW b \in Branch, IsView(fs, b), BranchesGrow, ComesLater
  PROVE  IsView(fs, b)'
BY DEF IsView, BranchesGrow, ComesLater, MandatesOn

LEMMA NothingIsAView ==
  ASSUME NEW b PROVE IsView({}, b) /\ IsView(trees[b], b)
BY DEF IsView, MandatesOn

LEMMA CommitsKeepReading ==
  ASSUME StoreInv, ReadWell, UNCHANGED <<request, loaded>>, BranchesGrow, ComesLater
  PROVE  ReadWell'
<1>1. /\ request # None /\ request.url \in Parsed => Reads[request.url] \in Branch
      /\ loaded # None => Reads[loaded.url] \in Branch
  BY WebUiAssumption DEF StoreInv, LoadedWell
<1>2. ASSUME request # None, ~request.lost, request.url \in Parsed
      PROVE  IsView(request.files \cup request.todo, Reads[request.url])'
  <2>1. IsView(request.files \cup request.todo, Reads[request.url])
    BY <1>2 DEF ReadWell
  <2> QED
    BY <1>1, <1>2, <2>1, ViewStays
<1>3. ASSUME loaded # None, ~loaded.lost PROVE IsView(loaded.files, Reads[loaded.url])'
  <2>1. IsView(loaded.files, Reads[loaded.url])
    BY <1>3 DEF ReadWell
  <2> QED
    BY <1>1, <1>3, <2>1, ViewStays
<1> QED
  BY <1>2, <1>3 DEF ReadWell

LEMMA SameTreesSameViews ==
  ASSUME UNCHANGED trees, NEW fs, NEW b PROVE IsView(fs, b)' <=> IsView(fs, b)
BY DEF IsView, MandatesOn

(* store.update keeps what was read; the load it may begin has read nothing. *)
LEMMA UpdateKeepsReading ==
  ASSUME ReadWell, UNCHANGED trees, NEW r, NEW l, NEW busy, NEW e, Update(r, l, busy, e),
         l # None /\ ~l.lost => IsView(l.files, Reads[l.url])
  PROVE  ReadWell'
<1>1. loaded' = l /\ request' \in {LoadProject(r), request, None}
  BY DEF Update
<1>2. request' = LoadProject(r) =>
        /\ request'.files = {} /\ request'.todo = {}
        /\ request'.files \cup request'.todo = {}
  BY DEF LoadProject
<1>3. \A b : IsView({}, b)
  BY NothingIsAView
<1> QED
  BY <1>1, <1>2, <1>3, SameTreesSameViews DEF ReadWell

LEMMA AnswerKeepsReading ==
  ASSUME ReadWell, NEW next, Answer(next),
         next.phase \in {"listing", "asking"} => next.files = {} /\ next.todo = {},
         ~next.lost =>
            /\ next.phase # "fetching" => next.todo = {}
            /\ next.url \in Parsed => IsView(next.files \cup next.todo, Reads[next.url])
  PROVE  ReadWell'
<1>1. UNCHANGED trees /\ request' = next /\ loaded' = loaded
  BY DEF Answer, world
<1> QED
  BY <1>1, SameTreesSameViews DEF ReadWell

(* Every step of a load keeps it: what is fetched is what was listed.        *)
LEMMA LoadKeepsReading ==
  ASSUME StoreInv, ReadWell, LoadStep PROVE ReadWell'
<1>1. ASSUME NEW ok \in BOOLEAN, ListAnswer(ok) PROVE ReadWell'
  <2> DEFINE listed == IF ok THEN trees[Reads[request.url]] ELSE {}
             next == [request EXCEPT !.todo = listed, !.lost = ~ok,
                        !.phase = IF listed = {} THEN "probing" ELSE "fetching"]
  <2>1. /\ request # None /\ request.phase = "listing" /\ Answer(next)
        /\ request.files = {} /\ DOMAIN request = RequestFields
    BY <1>1 DEF ListAnswer, Awaiting, StoreInv, ReadWell
  <2>2. /\ next.files = {} /\ next.todo = listed /\ next.url = request.url
        /\ next.phase = IF listed = {} THEN "probing" ELSE "fetching"
        /\ next.lost <=> ~ok
    BY <2>1 DEF RequestFields
  <2>3. ok => IsView(listed, Reads[request.url])
    BY NothingIsAView
  <2> HIDE DEF next, listed
  <2> QED
    BY <2>1, <2>2, <2>3, AnswerKeepsReading
<1>2. ASSUME NEW ok \in BOOLEAN, ServerAnswer(ok) PROVE ReadWell'
  <2> DEFINE got == IF ok THEN trees[Reads[request.url]] ELSE {}
             next == [request EXCEPT !.files = got,
                        !.phase = IF ok THEN "answered" ELSE "failed"]
  <2>1. /\ request # None /\ request.phase = "asking" /\ Answer(next)
        /\ request.todo = {} /\ DOMAIN request = RequestFields
    BY <1>2 DEF ServerAnswer, Awaiting, StoreInv, ReadWell
  <2>2. /\ next.files = got /\ next.todo = {} /\ next.url = request.url
        /\ next.phase \in {"answered", "failed"}
    BY <2>1 DEF RequestFields
  <2>3. IsView(got, Reads[request.url])
    BY NothingIsAView
  <2> HIDE DEF next, got
  <2> QED
    BY <2>1, <2>2, <2>3, AnswerKeepsReading
<1>3. ASSUME NEW f \in request.todo, NEW ok \in BOOLEAN, FetchAnswer(f, ok) PROVE ReadWell'
  <2> DEFINE got == IF ok THEN request.files \cup {f} ELSE request.files
             rest == request.todo \ {f}
             next == [request EXCEPT !.files = got, !.todo = rest, !.lost = @ \/ ~ok,
                        !.phase = CASE rest # {} -> "fetching"
                                    [] rest = {} /\ got = {} -> "probing"
                                    [] OTHER -> "answered"]
  <2>1. /\ request # None /\ Answer(next) /\ request.url \in Parsed
        /\ DOMAIN request = RequestFields
    BY <1>3 DEF FetchAnswer, Awaiting, StoreInv
  <2>2. /\ next.files = got /\ next.todo = rest /\ next.url = request.url
        /\ next.phase \in {"fetching", "probing", "answered"}
        /\ next.phase # "fetching" => rest = {}
        /\ next.lost <=> (request.lost \/ ~ok)
    BY <2>1 DEF RequestFields
  <2>3. ASSUME ~next.lost PROVE IsView(got \cup rest, Reads[request.url])
    <3>1. IsView(request.files \cup request.todo, Reads[request.url])
      BY <2>1, <2>2, <2>3 DEF ReadWell
    <3>2. got \cup rest = request.files \cup request.todo
      BY <2>2, <2>3
    <3> QED
      BY <3>1, <3>2
  <2> HIDE DEF next, got, rest
  <2> QED
    BY <2>1, <2>2, <2>3, AnswerKeepsReading
<1>4. ASSUME FetchRejected PROVE ReadWell'
  <2> DEFINE next == [request EXCEPT !.lost = TRUE, !.phase = "probing"]
  <2>1. Answer(next) /\ DOMAIN request = RequestFields
    BY <1>4 DEF FetchRejected, Awaiting, StoreInv
  <2>2. next.phase = "probing" /\ next.lost
    BY <2>1 DEF RequestFields
  <2> HIDE DEF next
  <2> QED
    BY <2>1, <2>2, AnswerKeepsReading
<1>5. ASSUME NEW outcome \in {"ok", "not ok", "rejected"}, ProbeAnswer(outcome) PROVE ReadWell'
  <2> DEFINE got == IF outcome = "ok" THEN request.files \cup {Readme} ELSE request.files
             next == [request EXCEPT !.files = IF outcome = "ok" THEN @ \cup {Readme} ELSE @,
                        !.phase = IF outcome = "rejected" THEN "failed" ELSE "answered"]
  <2>1. /\ request # None /\ request.phase = "probing" /\ Answer(next)
        /\ request.url \in Parsed /\ DOMAIN request = RequestFields
    BY <1>5 DEF ProbeAnswer, Awaiting, StoreInv
  <2>2. /\ next.files = got /\ next.todo = request.todo /\ next.url = request.url
        /\ next.phase \in {"answered", "failed"} /\ (next.lost <=> request.lost)
    BY <2>1 DEF RequestFields
  <2>3. ASSUME ~request.lost
        PROVE  request.todo = {} /\ IsView(got \cup request.todo, Reads[request.url])
    <3>1. request.todo = {} /\ IsView(request.files \cup request.todo, Reads[request.url])
      BY <2>1, <2>3 DEF ReadWell
    <3> QED
      BY <3>1 DEF IsView, MandatesOn
  <2> HIDE DEF next, got
  <2> QED
    BY <2>1, <2>2, <2>3, AnswerKeepsReading
<1>6. ASSUME Loaded PROVE ReadWell'
  <2> DEFINE l == [url |-> request.url, canonical |-> Canon[request.url],
                   files |-> request.files, lost |-> request.lost,
                   exists |-> request.files # {}]
  <2>1. /\ request # None /\ request.phase = "answered" /\ request.url \in Parsed
        /\ Update(route, l, FALSE, error) /\ UNCHANGED trees
    BY <1>6 DEF Loaded, Awaiting, StoreInv, world
  <2>2. ~l.lost => IsView(l.files, Reads[l.url])
    <3> SUFFICES ASSUME ~request.lost PROVE IsView(request.files, Reads[request.url])
      OBVIOUS
    <3>1. request.todo = {} /\ IsView(request.files \cup request.todo, Reads[request.url])
      BY <2>1 DEF ReadWell
    <3> QED
      BY <3>1
  <2> HIDE DEF l
  <2> QED
    BY <2>1, <2>2, UpdateKeepsReading
<1>7. ASSUME LoadFailed PROVE ReadWell'
  <2>1. Update(route, loaded, FALSE, "failed") /\ UNCHANGED trees
    BY <1>7 DEF LoadFailed, world
  <2> QED
    BY <2>1, UpdateKeepsReading DEF ReadWell
<1> QED
  BY <1>1, <1>2, <1>3, <1>4, <1>5, <1>6, <1>7 DEF LoadStep

(* What was the whole branch once has a chain that the branch's begins with. *)
LEMMA ViewIsAPrefix ==
  ASSUME NEW fs, NEW b \in Branch, NamesDiffer, IsView(fs, b)
  PROVE  IsPrefix(VerifyTrackChain(fs).accepted, VerifyTrackChain(trees[b]).accepted)
<1> DEFINE s == ParseMaintainersFolder(fs)
           t == ParseMaintainersFolder(trees[b])
<1>1. IsStart(s, t)
  <2> DEFINE old == fs \ {Readme}
             whole == MandatesOn(b)
  <2>1. /\ IsFolder(whole) /\ old \subseteq whole
        /\ \A m \in old, k \in whole \ old : EarlierName(m, k)
    BY DEF NamesDiffer, IsView, MandatesOn
  <2>2. s = InNameOrder(old) /\ t = InNameOrder(whole)
    BY DEF ParseMaintainersFolder, MandatesOn
  <2> HIDE DEF old, whole
  <2> QED
    BY <2>1, <2>2, NameOrderLater
<1> HIDE DEF s, t
<1>2. /\ VerifyTrackChain(fs) =
           IF s = <<>> THEN EmptyChain(NoPin) ELSE VerifyMandateChainFromPin(PinHash(s[1]), s)
      /\ VerifyTrackChain(trees[b]) =
           IF t = <<>> THEN EmptyChain(NoPin) ELSE VerifyMandateChainFromPin(PinHash(t[1]), t)
  BY DEF VerifyTrackChain, s, t
<1>3. VerifyTrackChain(trees[b]).accepted \in Seq(Mandate)
  <2>1. EmptyChain(NoPin).accepted \in Seq(Mandate)
    BY DEF EmptyChain
  <2>2. VerifyMandateChainFromPin(PinHash(t[1]), t) \in VerifiedChain
    BY <1>1, VerifyType DEF IsStart
  <2> QED
    BY <1>2, <2>1, <2>2 DEF VerifiedChain
<1>4. IsStart(VerifyTrackChain(fs).accepted, VerifyTrackChain(trees[b]).accepted)
  <2>1. CASE s = <<>>
    BY <1>2, <1>3, <2>1 DEF EmptyChain, IsStart
  <2>2. CASE s # <<>>
    <3>1. t # <<>> /\ t[1] = s[1]
      BY <1>1, <2>2 DEF IsStart
    <3>2. IsStart(VerifyMandateChainFromPin(PinHash(s[1]), s).accepted,
                  VerifyMandateChainFromPin(PinHash(s[1]), t).accepted)
      BY <1>1, ChainOfStart
    <3> QED
      BY <1>2, <2>2, <3>1, <3>2
  <2> QED
    BY <2>1, <2>2
<1> HIDE DEF Mandate
<1> QED
  BY <1>4, StartIsAPrefix

(* As long as files come in the order of their dates, a page that lost no    *)
(* answer shows a part of the branch's history from its beginning, although  *)
(* it reads the branch file by file while others commit to it, for every     *)
(* set of projects, branches and bundles.                                    *)
THEOREM ShownIsAPrefix ==
  WebSpec /\ []NamesDiffer /\ CommitsComeLater => []ShownChainIsAPrefix
<1>1. WebInit => ReadWell
  BY DEF WebInit, ReadWell
<1>2. StoreInv /\ BundleInv /\ ReadWell /\ [WebNext]_webVars /\ [ComesLater]_trees => ReadWell'
  <2> SUFFICES ASSUME StoreInv, BundleInv, ReadWell, [WebNext]_webVars, [ComesLater]_trees
               PROVE  ReadWell'
    OBVIOUS
  <2>1. BranchesGrow
    BY TreesOnlyGrow
  <2>2. ComesLater
    BY DEF ComesLater, MandatesOn
  <2>3. UNCHANGED <<request, loaded>> => ReadWell'
    BY <2>1, <2>2, CommitsKeepReading
  <2>4. ASSUME NEW r \in Url \cup {Home}, Navigate(r) PROVE ReadWell'
    <3>1. Update(r, loaded, loading, error) /\ UNCHANGED trees
      BY <2>4 DEF Navigate, world
    <3> QED
      BY <3>1, UpdateKeepsReading DEF ReadWell
  <2>5. ASSUME ClickTab PROVE ReadWell'
    <3>1. Update(loaded.canonical, loaded, loading, error) /\ UNCHANGED trees
      BY <2>5 DEF ClickTab, world
    <3> QED
      BY <3>1, UpdateKeepsReading DEF ReadWell
  <2>6. CASE LoadStep
    BY <2>6, LoadKeepsReading
  <2>7. PutAnswer \/ PostAnswer => UNCHANGED <<request, loaded>>
    BY DEF PutAnswer, PostAnswer, store
  <2>8. ASSUME NEW stored \in BOOLEAN, PutFailed(stored) \/ PostFailed(stored)
        PROVE  UNCHANGED <<request, loaded>>
    BY <2>8 DEF PutFailed, PostFailed, store
  <2>9. ASSUME NEW b \in Bundles, Submit(b) PROVE UNCHANGED <<request, loaded>>
    BY <2>9 DEF Submit, store
  <2>10. ASSUME NEW b \in Branch, Commit(b) PROVE UNCHANGED <<request, loaded>>
    BY <2>10 DEF Commit, store
  <2>11. UNCHANGED webVars => UNCHANGED <<request, loaded>>
    BY DEF webVars, store
  <2> QED
    BY <2>3, <2>4, <2>5, <2>6, <2>7, <2>8, <2>9, <2>10, <2>11 DEF WebNext
<1>3. StoreInv /\ ReadWell /\ NamesDiffer => ShownChainIsAPrefix
  <2> SUFFICES ASSUME StoreInv, ReadWell, NamesDiffer, ShownPage = "project", ~loaded.lost
               PROVE  IsPrefix(VerifyTrackChain(loaded.files).accepted,
                               VerifyTrackChain(trees[Reads[loaded.url]]).accepted)
    BY DEF ShownChainIsAPrefix
  <2>1. loaded # None
    BY DEF ShownPage, StoreInv
  <2>2. Reads[loaded.url] \in Branch
    BY <2>1, WebUiAssumption DEF StoreInv, LoadedWell
  <2>3. IsView(loaded.files, Reads[loaded.url])
    BY <2>1 DEF ReadWell
  <2> QED
    BY <2>2, <2>3, ViewIsAPrefix
<1> QED
  BY <1>1, <1>2, <1>3, StoreAlways, BundleAlways, PTL DEF WebSpec, CommitsComeLater
=============================================================================
