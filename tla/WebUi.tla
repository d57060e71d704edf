------------------------------- MODULE WebUi -------------------------------
(***************************************************************************)
(* The status page (packages/web-ui): app.ts and state.ts hold one store   *)
(* that is drawn anew on every update, adapter.ts loads the .maintainers/  *)
(* folder of the project that the route names - request by request from a  *)
(* code host, or in one answer from a server adapter - and submits bundles *)
(* of files, and parse-folder.ts and views/project.ts turn what was loaded *)
(* into a verified chain.                                                  *)
(*                                                                         *)
(* The person, the network, the code host and its other writers are        *)
(* external: the route changes at any time, answers get lost, and mandates *)
(* are committed while a page is being loaded.                             *)
(***************************************************************************)
EXTENDS Verifier

CONSTANTS
  Url,          \* what a route may name
  Home,         \* the route that names no project
  Malformed,    \* the urls that parseRepoUrl refuses
  Canon,        \* the canonical form of the others
  Reads,        \* the branch that each of them reads, and writes
  Branch,       \* branches of repositories
  Readme,       \* README.md; every other file is a mandate
  InitialTrees, \* what is under .maintainers/ on each branch
  Upcoming,     \* what others will commit to each branch, in this order
  Bundles,      \* the bundles that are submitted
  Adapters,     \* which adapters are tried: "static", "oauth" or "server"
  None,
  MaxRoutes     \* how often the route changes

Parsed == Url \ Malformed
File == Mandate \cup {Readme}

ASSUME WebUiAssumption ==
  /\ Home \notin Url /\ Malformed \subseteq Url /\ None # "failed"
  /\ Canon \in [Parsed -> Parsed] /\ \A u \in Parsed : Canon[Canon[u]] = Canon[u]
  /\ Reads \in [Parsed -> Branch]
  /\ InitialTrees \in [Branch -> SUBSET File] /\ Upcoming \in [Branch -> Seq(File)]
  /\ \A b \in Bundles :
       b.url \in Parsed /\ b.files \in Seq(Mandate) /\ b.files # <<>>
  /\ MaxRoutes \in Nat

(* Every mandate has a date that parses: next to one that has none, the sort *)
(* by date is not an order (ReleaseLog models what may come of it).          *)
ASSUME DatedAssumption ==
  /\ \A b \in Branch :
       \A f \in (InitialTrees[b] \cup ToSet(Upcoming[b])) \ {Readme} : f.defect # "dates"
  /\ \A b \in Bundles : \A k \in DOMAIN b.files : b.files[k].defect # "dates"

VARIABLES
  adapter, \* the adapter the page was mounted with
  trees,   \* the files of each branch
  upcoming,\* what is still to be committed by others
  route,   \* the store: the route,
  loading, \* whether a load is under way,
  loaded,  \* the project that was loaded last,
  error,   \* and the message of the load that failed last
  last,    \* lastProjectLoadUrl; Home stands for ""
  request, \* the load under way
  bundle,  \* the bundle being submitted
  visits   \* how often the route has changed

store == <<route, loading, loaded, error, last, request>>
world == <<adapter, trees, upcoming, bundle>>
webVars == <<store, world, visits>>

LoadPhase == {"listing", "fetching", "probing", "asking", "answered", "failed"}

WebTypeOK ==
  /\ adapter \in Adapters
  /\ route \in Url \cup {Home} /\ last \in Url \cup {Home}
  /\ loading \in BOOLEAN /\ error \in {None, "failed"}
  /\ loading = (request # None)
  /\ request # None => request.url \in Url /\ request.phase \in LoadPhase
  /\ loaded # None => loaded.url \in Parsed /\ loaded.canonical \in Parsed

-----------------------------------------------------------------------------
(* THE FOLDER *)

(* Defect: the mandates are left in the order of their file names. *)
ParseMaintainersFolder_ByName(files) ==
  SetToSortSeq(files \ {Readme}, LAMBDA m, n : m.id < n.id)

(* Every mandate of the track; files come in the order of their names and    *)
(* are sorted by their date, and the sort is stable.                         *)
ParseMaintainersFolder(files) == InNameOrder(files \ {Readme})

(* The log is anchored at its first mandate: the page has no pin of its own. *)
VerifyTrackChain(files) ==
  LET ms == ParseMaintainersFolder(files) IN
  IF ms = <<>> THEN EmptyChain(NoPin) ELSE VerifyMandateChainFromPin(PinHash(ms[1]), ms)

-----------------------------------------------------------------------------
(* THE STORE *)

(* adapter.loadProject is called.  An url that does not parse fails at once. *)
LoadProject(u) ==
  [url |-> u, todo |-> {}, files |-> {}, lost |-> FALSE,
   phase |-> IF adapter = "server" THEN "asking"
             ELSE IF u \in Malformed THEN "failed" ELSE "listing"]

(* store.update, and the drawing it causes: when no load is under way and    *)
(* the project on the route is not the one that is loaded, its load begins - *)
(* unless it was the last one to be loaded.                                  *)
Update(r, l, busy, e) ==
  LET stale == r # Home /\ ~busy /\ (l = None \/ l.canonical # r)
  IN  /\ route' = r /\ loaded' = l
      /\ IF stale /\ r # last
         THEN last' = r /\ loading' = TRUE /\ error' = None /\ request' = LoadProject(r)
         ELSE /\ last' = last /\ loading' = busy /\ error' = e
              /\ request' = IF busy THEN request ELSE None

(* renderHome and renderProject. *)
ShownPage ==
  CASE route = Home -> "home"
    [] route # Home /\ loading -> "loading"
    [] route # Home /\ ~loading /\ error # None -> "error"
    [] route # Home /\ ~loading /\ error = None /\ loaded = None -> "nothing"
    [] OTHER -> IF loaded.exists THEN "project" ELSE "absent"

WebInit ==
  /\ adapter \in Adapters /\ trees = InitialTrees /\ upcoming = Upcoming
  /\ route = Home /\ loading = FALSE /\ loaded = None /\ error = None
  /\ last = Home /\ request = None
  /\ bundle = None /\ visits = 0

(* The person looks a project up, edits the hash, or leaves. *)
Navigate(r) ==
  /\ r # route /\ visits < MaxRoutes /\ visits' = visits + 1
  /\ Update(r, loaded, loading, error)
  /\ UNCHANGED world

(* A tab is clicked: the route is then the canonical one. *)
ClickTab ==
  /\ ShownPage = "project" /\ loaded.canonical # route
  /\ Update(loaded.canonical, loaded, loading, error)
  /\ UNCHANGED <<world, visits>>

-----------------------------------------------------------------------------
(* A LOAD *)

Awaiting(phase) == request # None /\ request.phase = phase
Answer(next) ==
  /\ request' = next
  /\ UNCHANGED <<route, loading, loaded, error, last, world, visits>>

(* enumerateTreeFiles: the listing; one that is refused or lost is empty. *)
ListAnswer(ok) ==
  /\ Awaiting("listing")
  /\ LET listed == IF ok THEN trees[Reads[request.url]] ELSE {} IN
     Answer([request EXCEPT !.todo = listed, !.lost = ~ok,
                            !.phase = IF listed = {} THEN "probing" ELSE "fetching"])

(* fetchOne: the file, or an answer that is not ok and is passed over.  When *)
(* nothing is left, README.md is probed if nothing was fetched.              *)
FetchAnswer(f, ok) ==
  /\ Awaiting("fetching") /\ f \in request.todo
  /\ LET got == IF ok THEN request.files \cup {f} ELSE request.files
         rest == request.todo \ {f}
     IN  Answer([request EXCEPT !.files = got, !.todo = rest, !.lost = @ \/ ~ok,
           !.phase = CASE rest # {} -> "fetching"
                       [] rest = {} /\ got = {} -> "probing"
                       [] OTHER -> "answered"])

(* A fetch is rejected: what there is so far is kept, README.md is probed. *)
FetchRejected ==
  /\ Awaiting("fetching")
  /\ Answer([request EXCEPT !.lost = TRUE, !.phase = "probing"])

(* The probe, which fails the load when it is rejected itself. *)
ProbeAnswer(outcome) ==
  /\ Awaiting("probing")
  /\ outcome = "ok" => Readme \in trees[Reads[request.url]]
  /\ Answer([request EXCEPT
       !.files = IF outcome = "ok" THEN @ \cup {Readme} ELSE @,
       !.phase = IF outcome = "rejected" THEN "failed" ELSE "answered"])

(* The server adapter's one answer. *)
ServerAnswer(ok) ==
  /\ Awaiting("asking") /\ (ok => request.url \in Parsed)
  /\ Answer([request EXCEPT
       !.files = IF ok THEN trees[Reads[request.url]] ELSE {},
       !.phase = IF ok THEN "answered" ELSE "failed"])

(* loadProject resolves. *)
Loaded ==
  /\ Awaiting("answered")
  /\ Update(route, [url |-> request.url, canonical |-> Canon[request.url],
                    files |-> request.files, lost |-> request.lost,
                    exists |-> request.files # {}], FALSE, error)
  /\ UNCHANGED <<world, visits>>

(* Defect: the failure is recorded, but the load never counts as over. *)
LoadFailed_StillLoading ==
  /\ Awaiting("failed")
  /\ Update(route, loaded, TRUE, "failed")
  /\ UNCHANGED <<world, visits>>

(* Defect: the failure leaves no trace in the store. *)
LoadFailed_Silent ==
  /\ Awaiting("failed")
  /\ Update(route, loaded, FALSE, None)
  /\ UNCHANGED <<world, visits>>

(* loadProject rejects; what was loaded before stays in the store. *)
LoadFailed ==
  /\ Awaiting("failed")
  /\ Update(route, loaded, FALSE, "failed")
  /\ UNCHANGED <<world, visits>>

LoadStep ==
  \/ \E ok \in BOOLEAN : ListAnswer(ok) \/ ServerAnswer(ok)
  \/ \E f \in (IF request = None THEN {} ELSE request.todo), ok \in BOOLEAN : FetchAnswer(f, ok)
  \/ FetchRejected
  \/ \E outcome \in {"ok", "not ok", "rejected"} : ProbeAnswer(outcome)
  \/ Loaded \/ LoadFailed

-----------------------------------------------------------------------------
(* A SUBMISSION *)

(* submitBundle, for the first time or again, when no other call of it is    *)
(* under way.  Without a token a ZIP is built and nothing is sent.           *)
Submit(b) ==
  /\ bundle # None => bundle.outcome # "pending"
  /\ bundle' = [url |-> b.url, files |-> b.files, next |-> 1, created |-> {},
                outcome |-> IF adapter = "static" THEN "downloadable" ELSE "pending"]
  /\ UNCHANGED <<store, adapter, trees, upcoming, visits>>

Pending(a) == bundle # None /\ bundle.outcome = "pending" /\ adapter = a
Target == Reads[bundle.url]

(* What a PUT of the contents API does to entry k: without the sha of a file *)
(* that exists already it is refused.                                        *)
Create(k) ==
  /\ bundle.files[k] \notin trees[Target]
  /\ trees' = [trees EXCEPT ![Target] = @ \cup {bundle.files[k]}]

(* The answer to a PUT: on to the next entry, or committed. *)
PutAnswer ==
  /\ Pending("oauth") /\ Create(bundle.next)
  /\ bundle' = [bundle EXCEPT !.next = @ + 1, !.created = @ \cup {bundle.next},
                  !.outcome = IF bundle.next = Len(bundle.files) THEN "committed" ELSE @]
  /\ UNCHANGED <<store, adapter, upcoming, visits>>

(* Defect: an entry that is refused is passed over. *)
PutFailed_PassedOver(stored) ==
  /\ Pending("oauth")
  /\ IF stored THEN Create(bundle.next) ELSE UNCHANGED trees
  /\ bundle' = [bundle EXCEPT !.next = @ + 1,
                  !.created = IF stored THEN @ \cup {bundle.next} ELSE @,
                  !.outcome = IF bundle.next = Len(bundle.files) THEN "committed" ELSE @]
  /\ UNCHANGED <<store, adapter, upcoming, visits>>

(* It is not ok, or its answer is lost, stored or not: the bundle fails, and *)
(* what was stored stays.                                                    *)
PutFailed(stored) ==
  /\ Pending("oauth")
  /\ IF stored THEN Create(bundle.next) ELSE UNCHANGED trees
  /\ bundle' = [bundle EXCEPT !.created = IF stored THEN @ \cup {bundle.next} ELSE @,
                  !.outcome = "failed"]
  /\ UNCHANGED <<store, adapter, upcoming, visits>>

(* What a server does with a bundle: it stores all of it, or none. *)
StoreAll ==
  /\ ToSet(bundle.files) \cap trees[Target] = {}
  /\ trees' = [trees EXCEPT ![Target] = @ \cup ToSet(bundle.files)]

(* The server adapter's one POST. *)
PostAnswer ==
  /\ Pending("server") /\ StoreAll
  /\ bundle' = [bundle EXCEPT !.created = DOMAIN bundle.files, !.outcome = "committed"]
  /\ UNCHANGED <<store, adapter, upcoming, visits>>

(* It is not ok, or its answer is lost, stored or not. *)
PostFailed(stored) ==
  /\ Pending("server")
  /\ IF stored THEN StoreAll ELSE UNCHANGED trees
  /\ bundle' = [bundle EXCEPT !.created = IF stored THEN DOMAIN bundle.files ELSE {},
                  !.outcome = "failed"]
  /\ UNCHANGED <<store, adapter, upcoming, visits>>

(* Another writer commits. *)
Commit(b) ==
  /\ upcoming[b] # <<>>
  /\ trees' = [trees EXCEPT ![b] = @ \cup {Head(upcoming[b])}]
  /\ upcoming' = [upcoming EXCEPT ![b] = Tail(@)]
  /\ UNCHANGED <<store, adapter, bundle, visits>>

WebNext ==
  \/ \E r \in Url \cup {Home} : Navigate(r)
  \/ ClickTab \/ LoadStep
  \/ \E b \in Bundles : Submit(b)
  \/ PutAnswer \/ PostAnswer
  \/ \E stored \in BOOLEAN : PutFailed(stored) \/ PostFailed(stored)
  \/ \E b \in Branch : Commit(b)

(* Every request is answered or rejected in the end. *)
WebSpec == WebInit /\ [][WebNext]_webVars /\ WF_webVars(LoadStep)

-----------------------------------------------------------------------------
(* A page that shows a project, or says that it has no folder, speaks of the *)
(* project on its route: a late answer is never drawn for another one, and   *)
(* the load that is skipped because its url was the last one (app.ts,        *)
(* ensureProjectLoaded) is one whose answer is there.                        *)
ShownProjectIsTheRoutes ==
  ShownPage \in {"project", "absent"} =>
    route \in Parsed /\ loaded.canonical = Canon[route]

(* A person who stops changing the route (MaxRoutes bounds how often it      *)
(* changes) sees the page come to an end of "Loading", with a project or an  *)
(* error: no change of the route during a load makes the page miss the end   *)
(* of it, or the next load.                                                  *)
PageSettles == <>[](ShownPage # "loading")

(* If no answer was lost, the chain on the page is a prefix of the chain of  *)
(* the branch it was read from, whatever is committed during the many        *)
(* requests of a load or since: an older view of the truth, but no other.    *)
(* (After a lost answer the second mandate may be shown as the origin.)      *)
ShownChainIsAPrefix ==
  ShownPage = "project" /\ ~loaded.lost =>
    IsPrefix(VerifyTrackChain(loaded.files).accepted,
             VerifyTrackChain(trees[Reads[loaded.url]]).accepted)

(* Files are sent one by one, answers get lost, others write to the branch   *)
(* meanwhile, and a bundle that failed half-way may be submitted again       *)
(* (commitViaGithub): what a submission has stored is a beginning of the     *)
(* bundle, so no mandate arrives without the one it succeeds, and it is      *)
(* reported as committed only if it stored all - not for what an attempt     *)
(* before it, or anybody else, has left there.                               *)
CommittedWholly ==
  bundle # None =>
    /\ \E n \in 0 .. Len(bundle.files) : bundle.created = 1 .. n
    /\ \A k \in bundle.created : bundle.files[k] \in trees[Target]
    /\ bundle.outcome = "committed" => bundle.created = DOMAIN bundle.files
=============================================================================
