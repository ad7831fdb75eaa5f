------------------------------ MODULE Workspaces ------------------------------
(***************************************************************************)
(* One user's workspaces and the repositories synchronised from GitHub: in *)
(* Express's database, in the browser's localStorage (the active workspace *)
(* and one default repository per workspace), and on the pages that set    *)
(* them.  A synchronisation stores one repository after another; a default *)
(* is cached at once and sent without waiting; a list of workspaces is     *)
(* read at one moment and overwrites the cache at another.                 *)
(*                                                                         *)
(* Left out: the fields of a repository, searching and filtering, the      *)
(* ingestion wizard, and the summary e-mail, whose failure nobody sees.    *)
(***************************************************************************)
EXTENDS Naturals, Sequences, FiniteSets, SequencesExt

CONSTANTS Names,        \* of workspaces; a name is used once (a unique index)
          Repos,        \* the repositories of the GitHub account
          MaxLists, MaxSyncs, MaxPatches,   \* bound the requests under way
          None

VARIABLES owned,     \* the workspaces, oldest first
          default,   \* workspace -> defaultRepositoryId
          home,      \* repository -> its workspace, None, or "unknown"
          syncs,     \* synchronisations that are storing: [target, todo, live]
          active,    \* localStorage: [ws, default]
          cached,    \* localStorage: workspace -> default repository
          page,      \* [at, list, current, shown, selected, repos]
          lists,     \* listWorkspaces calls: [live, seen]
          patches    \* defaults sent: <<workspace, repository>>

server == <<owned, default, home>>
browser == <<active, cached>>
vars == <<owned, default, home, syncs, active, cached, page, lists, patches>>

NotSeen == [owned |-> <<>>, default |-> [w \in Names |-> None], read |-> FALSE]
Page(at, w) == [at |-> at, list |-> NotSeen, current |-> w, shown |-> None,
                selected |-> None, repos |-> "loading"]

Init == /\ owned = <<>> /\ default = [w \in Names |-> None]
        /\ home = [r \in Repos |-> "unknown"]
        /\ syncs = {} /\ lists = {} /\ patches = {}
        /\ active = [ws |-> None, default |-> None] /\ cached = [w \in Names |-> None]
        /\ page = Page("start", None)

Synced == {r \in Repos : home[r] # "unknown"}
Newest == IF owned = <<>> THEN None ELSE Last(owned)
------------------------------------------------------------------------------
(* workspaceService.                                                       *)

\* getActiveWorkspace fills in a missing default from the cache.
ActiveWorkspace == IF active.ws # None /\ active.default = None
                   THEN [active EXCEPT !.default = cached[active.ws]] ELSE active

\* getDefaultRepositoryForWorkspace.
DefaultFor(w) == IF w = None THEN None
                 ELSE IF cached[w] # None THEN cached[w]
                 ELSE IF ActiveWorkspace.ws = w THEN ActiveWorkspace.default ELSE None

\* setActiveWorkspace, for what is in the cache by then.
SetActive(w, r, c) == /\ active' = [ws |-> w, default |-> r]
                      /\ cached' = IF r = None THEN c ELSE [c EXCEPT ![w] = r]

\* setDefaultRepositoryForWorkspace: the cache first, Express afterwards.  The
\* service would also take null, which no page sends.
SetDefault(w, r) ==
  /\ cached' = [cached EXCEPT ![w] = r]
  /\ active' = IF active.ws = w THEN [ws |-> w, default |-> r] ELSE active
  /\ patches' = patches \cup {<<w, r>>}
  /\ Cardinality(patches) < MaxPatches
------------------------------------------------------------------------------
(* The pages.                                                              *)

\* A page is mounted and asks for the workspaces; an answer to the page
\* before it still reaches the cache.
Go(at, w) ==
  /\ page' = [Page(at, w) EXCEPT !.shown = IF at = "import" THEN DefaultFor(w) ELSE None]
  /\ LET gone == {[l EXCEPT !.live = FALSE] : l \in lists}
     IN /\ lists' = IF at = "repository" THEN gone
                    ELSE gone \cup {[live |-> TRUE, seen |-> NotSeen]}
        /\ Cardinality(lists') <= MaxLists
  /\ syncs' = {[s EXCEPT !.live = FALSE] : s \in syncs}

OpenPage(at) == /\ Go(at, IF at = "import" THEN ActiveWorkspace.ws ELSE None)
                /\ UNCHANGED <<server, browser, patches>>

\* createWorkspace and the success screen's way on.  A taken name is refused
\* with 409; a lost answer leaves a workspace and an error.
CreateWorkspace(w) ==
  /\ page.at = "workspaces" /\ w \notin ToSet(owned)
  /\ owned' = Append(owned, w)
  /\ \/ SetActive(w, None, cached) /\ Go("import", w)
     \/ UNCHANGED <<active, cached, page, lists, syncs>>
  /\ UNCHANGED <<default, home, patches>>

\* A listed workspace is opened at the default it was listed with, or a
\* repository is chosen for it.  The cache is not asked: a default of null is
\* an "object" to the code.
OpenWorkspace(w) ==
  /\ page.at = "workspaces" /\ w \in ToSet(page.list.owned)
  /\ SetActive(w, page.list.default[w], cached)
  /\ Go("import", w) \/ (page.list.default[w] # None /\ Go("repository", None))
  /\ UNCHANGED <<server, patches>>

\* The dashboard's navigation leads to the default of the active workspace as
\* it was stored, else to that of a listed one.
DashboardRepository ==
  LET listed == {page.list.default[w] : w \in ToSet(page.list.owned)} \ {None}
  IN IF ActiveWorkspace.ws # None /\ ActiveWorkspace.default # None
     THEN {ActiveWorkspace.default} ELSE listed

OpenFromDashboard == /\ page.at = "dashboard" /\ DashboardRepository # {}
                     /\ Go("repository", None)
                     /\ UNCHANGED <<server, browser, patches>>

\* listWorkspaces: read by Express, then received.
Serve(l) == /\ ~l.seen.read
            /\ lists' = (lists \ {l}) \cup
                 {[l EXCEPT !.seen = [owned |-> owned, default |-> default, read |-> TRUE]]}
            /\ UNCHANGED <<server, browser, page, syncs, patches>>

\* The cache takes every default of the answer; the import page keeps its
\* workspace if it is listed, else takes the newest, and stores it as active.
Receive(l) ==
  /\ l.seen.read
  /\ LET all == [w \in Names |-> IF l.seen.default[w] # None THEN l.seen.default[w] ELSE cached[w]]
         w == IF page.current \in ToSet(l.seen.owned) THEN page.current ELSE Last(l.seen.owned)
     IN IF l.live /\ page.at = "import" /\ l.seen.owned # <<>>
        THEN /\ SetActive(w, l.seen.default[w], all)
             /\ page' = [page EXCEPT !.list = l.seen, !.current = w,
                           !.shown = IF w = page.current THEN @ ELSE all[w]]
        ELSE /\ cached' = all
             /\ page' = IF l.live THEN [page EXCEPT !.list = l.seen] ELSE page
             /\ UNCHANGED active
  /\ lists' = lists \ {l}
  /\ UNCHANGED <<server, syncs, patches>>

ListFails(l) == /\ lists' = lists \ {l}
                /\ UNCHANGED <<server, browser, page, syncs, patches>>

\* A workspace of the import page's menu.
SelectWorkspace(w) ==
  /\ page.at = "import" /\ w \in ToSet(page.list.owned)
  /\ SetActive(w, page.list.default[w], cached)
  /\ page' = [page EXCEPT !.current = w, !.shown = DefaultFor(w)]
  /\ UNCHANGED <<server, syncs, lists, patches>>

\* loadRepositories: the default is selected, else the first of the list.
ReposArrive ==
  /\ page.at = "import" /\ page.repos = "loading"
  /\ \/ \E r \in IF page.selected # None THEN {page.selected}
                 ELSE IF DefaultFor(page.current) \in Synced THEN {DefaultFor(page.current)}
                 ELSE IF Synced = {} THEN {None} ELSE Synced :
          page' = [page EXCEPT !.repos = "ready", !.selected = r]
     \/ page' = [page EXCEPT !.repos = "error"]
  /\ UNCHANGED <<server, browser, syncs, lists, patches>>

SelectRepo(r) == /\ page.at = "import" /\ page.repos = "ready" /\ r \in Synced
                 /\ page' = [page EXCEPT !.selected = r]
                 /\ UNCHANGED <<server, browser, syncs, lists, patches>>

\* Set as default, or open it (directly or through the wizard).
Choose(open) ==
  /\ page.at = "import" /\ page.repos = "ready" /\ page.selected # None
  /\ IF page.current = None THEN open /\ UNCHANGED <<browser, patches>>
     ELSE SetDefault(page.current, page.selected)
  /\ IF open THEN Go("repository", None)
     ELSE page' = [page EXCEPT !.shown = page.selected] /\ UNCHANGED <<syncs, lists>>
  /\ UNCHANGED server

\* A repository page without a repository in its address: the default, else
\* the first repository, which becomes the default.
ResolveDefault ==
  /\ LET w == ActiveWorkspace.ws
     IN IF DefaultFor(w) # None \/ w = None THEN UNCHANGED <<browser, patches>>
        ELSE \E r \in Synced : SetDefault(w, r)
  /\ Go("repository", None)
  /\ UNCHANGED server

\* The header's switcher: the chosen repository becomes the default.
SwitchRepository(r) ==
  /\ page.at = "repository" /\ r \in Synced
  /\ IF active.ws = None THEN UNCHANGED <<browser, patches>> ELSE SetDefault(active.ws, r)
  /\ Go("repository", None)
  /\ UNCHANGED server
------------------------------------------------------------------------------
(* Express.                                                                *)

\* setDefaultRepository moves the repository into the workspace, then saves
\* the workspace; it may fail before or between, and nobody is told.
MoveIn(p) == home' = [home EXCEPT ![p[2]] = p[1]]
Patch(p) ==
  /\ p \in patches
  /\ patches' = patches \ {p}
  /\ \/ /\ p[1] \in ToSet(owned) /\ p[2] \in Synced
        /\ MoveIn(p)
        /\ default' \in {default, [default EXCEPT ![p[1]] = p[2]]}
     \/ UNCHANGED <<default, home>>
  /\ UNCHANGED <<owned, browser, page, syncs, lists>>

\* The workspace is resolved before GitHub is asked.
SyncStart ==
  /\ page.at = "import" /\ \A s \in syncs : ~s.live
  /\ Cardinality(syncs) < MaxSyncs
  /\ page.current # None => page.current \in ToSet(owned)
  /\ \E listed \in SUBSET Repos :
       syncs' = syncs \cup {[target |-> IF page.current # None THEN page.current ELSE Newest,
                             todo |-> listed, live |-> TRUE]}
  /\ UNCHANGED <<server, browser, page, lists, patches>>

\* The upsert of one repository; without a workspace its field is left alone.
Stored_Always(s, r) == s.target
Stored(s, r) == IF s.target # None THEN s.target
                ELSE IF home[r] = "unknown" THEN None ELSE home[r]

SyncStore(s, r) ==
  /\ s \in syncs /\ r \in s.todo
  /\ home' = [home EXCEPT ![r] = Stored(s, r)]
  /\ syncs' = (syncs \ {s}) \cup {[s EXCEPT !.todo = @ \ {r}]}
  /\ UNCHANGED <<owned, default, browser, page, lists, patches>>

\* Ended, or failed part of the way; the page loads the repositories again.
SyncEnd(s) ==
  /\ s \in syncs
  /\ syncs' = syncs \ {s}
  /\ page' = IF s.live /\ s.todo = {} THEN [page EXCEPT !.repos = "loading"] ELSE page
  /\ UNCHANGED <<server, browser, lists, patches>>

Next == \/ \E at \in {"workspaces", "import", "dashboard"} : OpenPage(at)
        \/ \E w \in Names : CreateWorkspace(w) \/ OpenWorkspace(w) \/ SelectWorkspace(w)
        \/ OpenFromDashboard
        \/ \E l \in lists : Serve(l) \/ Receive(l) \/ ListFails(l)
        \/ ReposArrive \/ Choose(TRUE) \/ Choose(FALSE) \/ ResolveDefault
        \/ \E r \in Repos : SelectRepo(r) \/ SwitchRepository(r) \/ (\E s \in syncs : SyncStore(s, r))
        \/ \E p \in patches : Patch(p)
        \/ SyncStart
        \/ \E s \in syncs : SyncEnd(s)

Spec == Init /\ [][Next]_vars
------------------------------------------------------------------------------
\* A repository that is in a workspace never becomes one of no workspace: a
\* synchronisation begun before there was a workspace may store after the
\* repository was moved into one (github.controller.js: a resync "must never
\* wipe out a previously-assigned one").
NeverOrphaned ==
  [][\A r \in Repos : home[r] \in Names => home'[r] \in Names]_vars
==============================================================================
