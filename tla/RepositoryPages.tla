---------------------------- MODULE RepositoryPages ----------------------------
(***************************************************************************)
(* The pages of one repository: Source Control, Software Evolution, the    *)
(* Command Center and Architecture, with the code preview over them.  All  *)
(* are built alike: an effect per load, which runs when the page is        *)
(* mounted and when one of its inputs changes, cancels the request of its  *)
(* last run and asks again; and buttons, whose requests nothing cancels.   *)
(* The pages remount for another repository, so that a request of the old  *)
(* one finds nobody to tell.                                               *)
(*                                                                         *)
(* A load's entry is [status, of, v]: what the shown data was asked for,   *)
(* and what of it matters to the other loads: "none" (no branch, no        *)
(* analysis), "some", or "processing" for a repository being ingested.     *)
(* Left out: what a page draws of an answer, and its tabs and menus.       *)
(***************************************************************************)
EXTENDS FiniteSets

CONSTANTS Pages, Repos, Names,    \* Names: the branches, one of them Default
          Default, Paths,         \* Paths: the files that may be previewed
          PreviewOn,              \* on these pages (a bound: the drawer is the same)
          None

VARIABLES ui,       \* [page, repo, filter, preview, slot]
          calls     \* the requests whose answer somebody waits for

vars == <<ui, calls>>

Loads == {"identity", "branches", "commits", "files", "dashboard", "dependencies",
          "analysis", "content", "explanation", "summary"}
Filters == {"all"} \cup Names
Blank == [status |-> "idle", of |-> None, v |-> "none"]

SourceControlLoads == {"branches", "commits", "files"}
SoftwareEvolutionLoads == {"branches", "commits", "files", "analysis"}
CommandCenterLoads == {"dashboard", "commits", "analysis"}
ArchitectureLoads == {"dashboard", "files", "dependencies", "analysis", "summary"}

LoadsOf(page) ==
  {"identity", "content", "explanation"} \cup
  CASE page = "source-control" -> SourceControlLoads
    [] page = "software-evolution" -> SoftwareEvolutionLoads
    [] page = "command-center" -> CommandCenterLoads
    [] OTHER -> ArchitectureLoads

\* Source Control caches commits per filter and files per branch.
Cached(u, l) == u.page = "source-control" /\ l \in {"commits", "files"}

\* The file tree of "all branches" is that of the default one.
Key(u, l) == CASE Cached(u, l) /\ l = "commits" -> <<u.repo, u.filter>>
               [] Cached(u, l) /\ l = "files" ->
                    <<u.repo, IF u.filter = "all" THEN Default ELSE u.filter>>
               [] l \in {"content", "explanation"} -> <<u.repo, u.preview>>
               [] OTHER -> <<u.repo, None>>

Slot(u, l) == <<l, IF Cached(u, l) THEN Key(u, l)[2] ELSE None>>
Slots == (Loads \X {None}) \cup ({"commits", "files"} \X Filters)
Entry(u, l) == u.slot[Slot(u, l)]
Status(u, l) == Entry(u, l).status
------------------------------------------------------------------------------
(* Effects.                                                                *)

\* What must be there before the load can be asked for.
Ready(u, l) ==
  CASE l = "identity" -> u.repo # None
    [] l \in {"branches", "dashboard", "analysis"} -> Status(u, "identity") = "ready"
    [] l \in {"commits", "files"} /\ "branches" \in LoadsOf(u.page) ->
         Status(u, "branches") = "ready" /\ Entry(u, "branches").v = "some"
    [] l \in {"commits", "files", "dependencies"} -> Entry(u, "dashboard").v = "some"
    [] l = "content" -> u.preview # None
    [] OTHER -> FALSE

\* The dependency array, the retry counters apart.
Inputs(u, l) ==
  CASE l \in {"branches", "dashboard", "analysis"} -> <<Status(u, "identity") = "ready">>
    [] l \in {"commits", "files"} /\ "branches" \in LoadsOf(u.page) ->
         <<Status(u, "branches"), Key(u, l)>>
    [] l \in {"commits", "files", "dependencies"} -> <<Entry(u, "dashboard").v>>
    [] l = "content" -> <<u.preview>>
    [] OTHER -> <<>>

\* Source Control and Evolution leave commits and files as they are when the
\* branches are not ready; a cached load is asked for once per key, until it
\* fails; a new file drops the explanation of the one before.
Starts(u, l) == Ready(u, l) /\ (Cached(u, l) => Status(u, l) \notin {"loading", "ready"})
Clears(u, l) == ~Ready(u, l) /\ ~("branches" \in LoadsOf(u.page) /\ l \in {"commits", "files"})

Ask(u, l, by) == [load |-> l, by |-> by, slot |-> Slot(u, l), key |-> Key(u, l)]

Cancelled_None(cs, S) == cs
Cancelled(cs, S) == {c \in cs : ~(c.by = "effect" /\ c.load \in S)}

\* The effects of S run once.
Run(u, cs, S) ==
  LET started == {l \in S : Starts(u, l)}
      awaited == {Slot(u, l) : l \in started}
      cleared == {Slot(u, l) : l \in {x \in S : Clears(u, x)}} \cup
                 (IF "content" \in started THEN {Slot(u, "explanation")} ELSE {})
  IN [ui |-> [u EXCEPT !.slot =
                [s \in DOMAIN @ |-> IF s \in awaited THEN [@[s] EXCEPT !.status = "loading"]
                                    ELSE IF s \in cleared THEN Blank ELSE @[s]]],
      calls |-> Cancelled(cs, S) \cup {Ask(u, l, "effect") : l \in started}]

\* From what was rendered to u: the effects whose inputs changed, those that
\* are retried, and those whose inputs the first ones changed.
Render(old, u, cs, retried) ==
  LET Changed(a, b) == {l \in LoadsOf(u.page) : Inputs(a, l) # Inputs(b, l)}
      once == Run(u, cs, retried \cup Changed(old, u))
      twice == Run(once.ui, once.calls, Changed(u, once.ui))
  IN \E r \in {twice} : ui' = r.ui /\ calls' = r.calls

Mounted(page, repo) ==
  [page |-> page, repo |-> repo, filter |-> "all", preview |-> None,
   slot |-> [s \in Slots |-> Blank]]

\* Another page or repository: what is under way is forgotten.
Open(page, repo) ==
  LET r == Run(Mounted(page, repo), {}, {"identity"})
  IN ui' = r.ui /\ calls' = r.calls

Init == \E page \in Pages, repo \in Repos \cup {None} :
          LET r == Run(Mounted(page, repo), {}, {"identity"})
          IN ui = r.ui /\ calls = r.calls
------------------------------------------------------------------------------
(* What the page shows in the place of its content.                        *)

MainLoad(page) == IF page \in {"source-control", "software-evolution"} THEN "branches"
                  ELSE "dashboard"

Skeleton(u) ==
  \/ Status(u, "identity") = "loading"
  \/ /\ u.page # "source-control"
     /\ Status(u, MainLoad(u.page)) \in
          IF u.page = "command-center" THEN {"loading"} ELSE {"loading", "idle"}

View(u) == CASE u.repo = None -> "no repository"
             [] Status(u, "identity") \in {"not-found", "error"} -> Status(u, "identity")
             [] OTHER -> IF Skeleton(u) THEN "skeleton"
                         ELSE IF u.page # "source-control" /\ Status(u, MainLoad(u.page)) = "error"
                              THEN "retry" ELSE "content"
------------------------------------------------------------------------------
(* The parts of a page: the loads whose data each shows.  Otherwise it says *)
(* that the data is awaited, failed, or does not exist.                    *)

Loaded(u, L) == {l \in L : Status(u, l) = "ready"}
\* Kept on the screen while the next answer is awaited or has failed.
Kept(u, L) == {l \in L : Entry(u, l).of # None}
\* A generated analysis is awaited.
Generating == \E c \in calls : c.load = "analysis" /\ c.by = "button"

\* Source Control.  One tab is open at a time.
IngestionAction(u) == Kept(u, {"identity", "branches"})
CommitCategoryStrip(u) == Loaded(u, {"commits"})
CommitsPanel(u) == IF Status(u, "branches") = "error" THEN {} ELSE Loaded(u, {"commits"})
BranchesPanel(u) == Loaded(u, {"branches"})
FilesPanel(u) == Loaded(u, {"files"})
CommitDetailDrawer(u) == IF CommitsPanel(u) = {} THEN {} ELSE Loaded(u, {"commits", "files"})
SourceControl(u) ==
  IngestionAction(u) \cup CommitCategoryStrip(u) \cup CommitsPanel(u) \cup BranchesPanel(u)
    \cup FilesPanel(u) \cup CommitDetailDrawer(u)

\* Software Evolution.  Paths are links once the files are loaded.
OverviewCards(u) == Loaded(u, {"commits", "analysis"})
CommitActivitySection(u) == Loaded(u, {"commits"})
ModuleEvolutionSection(u) == Loaded(u, {"analysis"})
HotspotEvolutionSection(u) ==
  IF Loaded(u, {"analysis"}) = {} THEN {} ELSE Loaded(u, {"analysis", "files"})
RecentCommitsSection(u) ==
  IF Loaded(u, {"commits"}) = {} THEN {} ELSE Loaded(u, {"commits", "files"})
SoftwareEvolution(u) ==
  OverviewCards(u) \cup CommitActivitySection(u) \cup ModuleEvolutionSection(u)
    \cup HotspotEvolutionSection(u) \cup RecentCommitsSection(u)

\* The Command Center.  What needs attention is hidden while an analysis is
\* awaited, the recommendation and the modules at risk stay.
RepositoryHealthCard(u) == Loaded(u, {"analysis"})
OverviewMetrics(u) == Kept(u, {"dashboard"})
NeedsAttentionSection(u) ==
  IF Generating \/ Status(u, "analysis") \in {"idle", "loading"} THEN {} ELSE Kept(u, {"analysis"})
RepositorySnapshot(u) == Kept(u, {"dashboard"})
RepositoryActivitySection(u) == Kept(u, {"commits", "dashboard"})
AiRecommendationCard(u) == Kept(u, {"analysis"})
TopRiskModules(u) == Kept(u, {"analysis"})
CommandCenter(u) ==
  RepositoryHealthCard(u) \cup OverviewMetrics(u) \cup NeedsAttentionSection(u)
    \cup RepositorySnapshot(u) \cup RepositoryActivitySection(u)
    \cup AiRecommendationCard(u) \cup TopRiskModules(u)

\* Architecture.
SummaryCard(u) == Loaded(u, {"summary"})
ArchitectureOverviewCards(u) == Kept(u, {"dashboard"})
RepositoryTree(u) == IF Entry(u, "dashboard").v = "none" THEN {} ELSE Loaded(u, {"files"})
DependencyAnalysisPanel(u) ==
  IF Loaded(u, {"dependencies"}) = {} THEN {} ELSE Loaded(u, {"dependencies", "analysis"})
Architecture(u) ==
  SummaryCard(u) \cup ArchitectureOverviewCards(u) \cup RepositoryTree(u)
    \cup DependencyAnalysisPanel(u)

FileCodePreviewDrawer(u) ==
  IF u.preview = None THEN {} ELSE Loaded(u, {"content", "explanation"})

\* What is on the screen.  The drawer may be open over any page.
Shows(u) ==
  FileCodePreviewDrawer(u) \cup
  CASE View(u) # "content" -> {}
    [] u.page = "source-control" -> SourceControl(u)
    [] u.page = "software-evolution" -> SoftwareEvolution(u)
    [] u.page = "command-center" -> CommandCenter(u)
    [] OTHER -> Architecture(u)
------------------------------------------------------------------------------
(* Events.                                                                 *)

\* Without a repository in its address a page goes to the default one.
AutoResolve(r) == ui.repo = None /\ Open(ui.page, r)

Navigate(page, r) == <<page, r>> # <<ui.page, ui.repo>> /\ Open(page, r)

Values(l) == IF l = "identity" THEN {"some", "processing"}
             ELSE IF l \in {"branches", "dashboard", "analysis", "content"} THEN {"some", "none"}
             ELSE {"some"}

Answered(l, v) == IF v # "none" THEN "ready"
                  ELSE CASE l = "analysis" -> "none" [] l = "content" -> "empty"
                         [] OTHER -> "ready"

Succeeds(c, v) ==
  /\ v \in Values(c.load)
  /\ (c.by = "button" /\ c.load = "analysis") => v = "some"
  /\ LET e == [status |-> Answered(c.load, v), of |-> c.key, v |-> v]
     IN Render(ui, [ui EXCEPT !.slot[c.slot] = e], calls \ {c}, {})

\* A refresh of the repository that fails, and a failed run of the evolution
\* analysis, leave what is shown.
Fails(c) ==
  IF c.by = "button" /\ <<c.load, ui.page>> \in {<<"identity", "source-control">>,
                                                 <<"analysis", "software-evolution">>}
  THEN ui' = ui /\ calls' = calls \ {c}
  ELSE \E status \in IF c.load = "identity" THEN {"error", "not-found"} ELSE {"error"} :
         Render(ui, [ui EXCEPT !.slot[c.slot].status = status], calls \ {c}, {})

Land(c) == (\E v \in {"some", "none", "processing"} : Succeeds(c, v)) \/ Fails(c)

SetFilter(f) == /\ ui.page = "source-control" /\ View(ui) = "content" /\ ui.filter # f
                /\ Status(ui, "branches") = "ready" /\ Entry(ui, "branches").v = "some"
                /\ Render(ui, [ui EXCEPT !.filter = f], calls, {})

Retried(u) ==
  (IF View(u) = "retry" THEN {MainLoad(u.page)} ELSE {}) \cup
  {l \in {"commits", "files", "content"} \cap LoadsOf(u.page) :
     /\ Status(u, l) = "error"
     /\ \/ l = "content" /\ u.preview # None
        \/ <<u.page, l>> \in {<<"software-evolution", "commits">>, <<"architecture", "files">>}}

Retry(l) == Render(ui, ui, calls, {l})

\* The parts that link to the preview of a file: where the files are known,
\* or of any file the analysis names.
LinksToFiles(u) ==
  /\ View(u) = "content"
  /\ CASE u.page = "source-control" -> "files" \in CommitDetailDrawer(u)
       [] u.page = "software-evolution" ->
            "files" \in HotspotEvolutionSection(u) \cup RecentCommitsSection(u)
       [] u.page = "command-center" -> Entry(u, "analysis").v = "some"
       [] OTHER -> FALSE

Preview(p) == /\ ui.preview # p
              /\ p # None =>           \* the open drawer covers the page
                   ui.preview = None /\ ui.page \in PreviewOn /\ LinksToFiles(ui)
              /\ Render(ui, [ui EXCEPT !.preview = p], calls, {})

\* The buttons whose requests are not cancelled.  Source Control asks for the
\* repository again after an ingestion request and every four seconds while
\* it is being ingested.
Offered(u) ==
  {l \in IF View(u) = "content" THEN LoadsOf(u.page) ELSE {} :
     CASE l = "identity" -> u.page = "source-control" /\ (\/ Status(u, "branches") = "ready"
                                                        \/ Entry(u, l).v = "processing")
       [] l = "dependencies" -> Entry(u, "dashboard").v = "some"
       [] l = "analysis" -> u.page \in {"software-evolution", "command-center"} /\ ~Generating
       [] l = "explanation" -> Status(u, "content") = "ready" /\ Status(u, l) # "loading"
       [] l = "summary" -> Status(u, "files") = "ready" /\ Status(u, l) # "loading"
       [] OTHER -> FALSE}

Press(l) ==
  /\ calls' = calls \cup {Ask(ui, l, "button")}
  /\ ui' = IF l \in {"identity", "analysis"} THEN ui
           ELSE [ui EXCEPT !.slot[Slot(ui, l)].status = "loading"]

Next == \/ \E r \in Repos : AutoResolve(r) \/ \E page \in Pages : Navigate(page, r)
        \/ \E c \in calls : Land(c)
        \/ \E f \in Filters : SetFilter(f)
        \/ \E p \in Paths \cup {None} : Preview(p)
        \/ \E l \in Retried(ui) : Retry(l)
        \/ \E l \in Offered(ui) : Press(l)

Spec == Init /\ [][Next]_vars

\* Every request is answered or fails in the end: the browser closes it.
FairSpec == Spec /\ WF_vars(\E c \in calls : Land(c))
------------------------------------------------------------------------------
\* Whatever is asked for meanwhile and in whatever order the answers come,
\* what a page shows as loaded was asked for the repository, the branch and
\* the file now selected, and so is what its parts still show.  (The
\* explanation of a file is asked for by a button and not cancelled: that of
\* the last file may land on the next.)
ShownIsOfSelection ==
  \A l \in Shows(ui) \ {"explanation"} : Entry(ui, l).of = Key(ui, l)

\* SourceControlPage.jsx:90 caches the commits per filter "so switching the
\* filter back and forth doesn't re-fetch": the commits of the selected
\* filter do not stay in loading when every request is answered.
SelectedCommitsArrive ==
  ui.page = "source-control" /\ Status(ui, "commits") = "loading" ~>
    ui.page # "source-control" \/ Status(ui, "commits") # "loading"
==============================================================================
