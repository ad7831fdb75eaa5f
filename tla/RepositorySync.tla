--------------------------- MODULE RepositorySync ---------------------------
(***************************************************************************)
(* The Express handlers that copy one GitHub repository into MongoDB       *)
(* (branches, commits, files), read it back (dashboard, dependency graph), *)
(* and build and report its analysis.  Handlers of several requests        *)
(* interleave at every await; GitHub moves on, and may refuse, at any of   *)
(* them; Express may restart.                                              *)
(*                                                                         *)
(* Abstractions: page and batch limits (100, 30, 15, 10, 5) are larger     *)
(* than the instances; a tree is the constant set Paths; a commit row      *)
(* keeps the branch it is filed under and how true its statistics are;     *)
(* history is not rewritten and branches are not deleted on GitHub.  The   *)
(* guards against an empty commit list or head are then never taken.       *)
(***************************************************************************)
EXTENDS Naturals, Sequences, FiniteSets

CONSTANTS Branches, DefaultBranch, Commits, Paths, Requests, Kinds, MaxAnalyses

None == "none"

ASSUME SyncConstants == /\ DefaultBranch \in Branches
                        /\ None \notin Branches \cup Commits
                        /\ MaxAnalyses \in Nat

AllKinds == {"branches", "commits", "files", "content", "dashboard",
             "getAnalysis", "analyse", "evolution", "graph"}

VARIABLES history,    \* GitHub: branch -> [head, all]; no head: no such branch
          branchRow,  \* Branch collection: branch -> latestCommitSha, or None
          commitRow,  \* Commit collection: commit -> [branch, stats, hasStats]
          fileRow,    \* File collection: branch -> the paths stored
          analyses,   \* Analysis collection, in the order of createdAt
          graphs,     \* _depGraphCache: [branch, sha] -> what was parsed
          unsaved,    \* enrichments whose unawaited write is still to land
          req         \* the running handlers

rows == <<branchRow, commitRow, fileRow>>
vars == <<history, rows, analyses, graphs, unsaved, req>>

Idle == [kind |-> None, pc |-> "idle", branch |-> None, sha |-> None,
         todo |-> {}, mine |-> {}, doc |-> 0, stale |-> FALSE]

\* The stored statistics of a commit: null, zeros, or what GitHub reported.
NoCommitRow == [branch |-> None, stats |-> "null", hasStats |-> FALSE]

Stored(b) == {c \in Commits : commitRow[c].branch = b}
KnownBranches == {b \in Branches : branchRow[b] # None}
Listed == {<<b, history[b].head>> : b \in {x \in Branches : history[x].head # None}}

Init == /\ history = [b \in Branches |-> [head |-> None, all |-> {}]]
        /\ branchRow = [b \in Branches |-> None]
        /\ commitRow = [c \in Commits |-> NoCommitRow]
        /\ fileRow = [b \in Branches |-> {}]
        /\ analyses = <<>>
        /\ graphs = {}
        /\ unsaved = {}
        /\ req = [r \in Requests |-> Idle]

At(r, pc) == req[r].pc = pc
Goto(r, pc) == req' = [req EXCEPT ![r].pc = pc]
End(r) == req' = [req EXCEPT ![r] = Idle]
------------------------------------------------------------------------------
(* GitHub.  A push adds a commit; a merge, or a new branch, fast-forwards. *)

Push(b, c) ==
  /\ \A x \in Branches : c \notin history[x].all
  /\ history' = [history EXCEPT ![b] = [head |-> c, all |-> @.all \cup {c}]]
  /\ UNCHANGED <<rows, analyses, graphs, unsaved, req>>

FastForward(b, from) ==
  /\ history[b].all \subseteq history[from].all
  /\ history[b] # history[from]
  /\ history' = [history EXCEPT ![b] = history[from]]
  /\ UNCHANGED <<rows, analyses, graphs, unsaved, req>>

------------------------------------------------------------------------------
(* Every handler first finds the repository of the caller; those with a    *)
(* branch in their URL find its row next, the others resolve the default.  *)

FirstStage(k) ==
  CASE k = "branches" -> "heads"
    [] k = "content" -> "content"
    [] k \in {"commits", "files", "graph"} -> "branch"
    [] k = "getAnalysis" -> "latest"
    [] OTHER -> "resolve"

Begin(r, k, b) ==
  /\ At(r, "idle")
  /\ k = "analyse" =>                           \* the bound of the model
       Len(analyses) + Cardinality({x \in Requests : req[x].kind = k}) < MaxAnalyses
  /\ req' = [req EXCEPT ![r] =
               [Idle EXCEPT !.kind = k, !.pc = FirstStage(k),
                            !.branch = IF FirstStage(k) = "branch" THEN b ELSE None]]
  /\ UNCHANGED <<history, rows, analyses, graphs, unsaved>>

\* Branch.findOne; no row is answered 404.
FindBranch(r) ==
  /\ At(r, "branch")
  /\ LET b == req[r].branch
     IN IF branchRow[b] = None THEN End(r)
        ELSE req' = [req EXCEPT ![r].sha = branchRow[b],
                       ![r].pc = CASE req[r].kind = "commits" -> "list"
                                   [] req[r].kind = "files" -> "tree"
                                   [] OTHER -> "cache"]
  /\ UNCHANGED <<history, rows, analyses, graphs, unsaved>>

AfterResolve(k) == CASE k = "dashboard" -> "files" [] k = "analyse" -> "create"
                     [] k = "evolution" -> "ensure" [] OTHER -> "compare"

\* isDefault first, then any other of the documents (branches[0]).
ResolvedTo(r, pairs) ==
  \E p \in pairs :
    /\ \/ p[1] = DefaultBranch
       \/ \A q \in pairs : q[1] # DefaultBranch
    /\ req' = [req EXCEPT ![r].branch = p[1], ![r].sha = p[2], ![r].todo = {},
                          ![r].mine = {}, ![r].pc = AfterResolve(req[r].kind)]

ResolveOrSyncDefaultBranch(r) ==
  /\ At(r, "resolve")
  /\ IF KnownBranches = {} THEN Goto(r, "heads")
     ELSE ResolvedTo(r, {<<b, branchRow[b]>> : b \in KnownBranches})
  /\ UNCHANGED <<history, rows, analyses, graphs, unsaved>>

\* GitHub answers the list of branches; the rows are then written one by one.
ListBranches(r) ==
  /\ At(r, "heads")
  /\ req' = [req EXCEPT ![r].todo = Listed, ![r].mine = Listed, ![r].pc = "saveBranches"]
  /\ UNCHANGED <<history, rows, analyses, graphs, unsaved>>

SaveBranch(r) ==
  /\ At(r, "saveBranches")
  /\ \/ \E p \in req[r].todo :
          /\ branchRow' = [branchRow EXCEPT ![p[1]] = p[2]]
          /\ req' = [req EXCEPT ![r].todo = @ \ {p}]
     \/ /\ req[r].todo = {}
        /\ IF req[r].kind = "branches" \/ req[r].mine = {}
           THEN End(r)                       \* answered; 409 when none resolved
           ELSE ResolvedTo(r, req[r].mine)
        /\ UNCHANGED branchRow
  /\ UNCHANGED <<history, commitRow, fileRow, analyses, graphs, unsaved>>
------------------------------------------------------------------------------
(* Commits.  What a write does to the row of c depends on who writes: the  *)
(* value says which statistics the update document carries.                *)
(*   "keep"    none of them (dashboard, and getCommits without a detail)   *)
(*   "blank"   zeros, hasStats not mentioned (ensureCommitsSynced)         *)
(*   "real", "zero"  these statistics, with hasStats true                  *)

Written(row, b, v) ==
  [branch |-> b,
   stats |-> IF v = "keep" THEN row.stats ELSE IF v = "blank" THEN "zero" ELSE v,
   hasStats |-> row.hasStats \/ v \in {"real", "zero"}]

History_OfDefault(b) == history[DefaultBranch].all
History(b) == history[b].all

\* The list of the branch by name: whatever is on it now.
ListCommits(r) ==
  /\ At(r, "list")
  /\ LET listed == History(req[r].branch)
         value == IF req[r].kind = "dashboard" THEN "keep" ELSE "blank"
     IN req' = [req EXCEPT
          ![r].mine = listed,
          ![r].todo = IF req[r].kind = "commits" THEN {} ELSE listed \X {value},
          ![r].pc = IF req[r].kind = "commits" THEN "existing" ELSE "saveCommits"]
  /\ UNCHANGED <<history, rows, analyses, graphs, unsaved>>

CarriedStats_AsRead(row, enriched) == IF enriched THEN "real" ELSE row.stats

\* getCommits: the statistics a commit is written with, from the rows read
\* before the details were fetched; a detail that fails is not fatal.
CarriedStats(row, enriched) ==
  IF enriched THEN "real" ELSE IF row.hasStats THEN row.stats ELSE "keep"

EnrichPage(r) ==
  /\ At(r, "existing")
  /\ \E enriched \in SUBSET {c \in req[r].mine : ~commitRow[c].hasStats} :
       req' = [req EXCEPT
         ![r].todo = {<<c, CarriedStats(commitRow[c], c \in enriched)>> : c \in req[r].mine},
         ![r].pc = "saveCommits"]
  /\ UNCHANGED <<history, rows, analyses, graphs, unsaved>>

SaveCommit(r) ==
  /\ At(r, "saveCommits")
  /\ \/ \E p \in req[r].todo :
          /\ commitRow' = [commitRow EXCEPT ![p[1]] = Written(@, req[r].branch, p[2])]
          /\ req' = [req EXCEPT ![r].todo = @ \ {p}]
     \/ /\ req[r].todo = {}
        /\ IF req[r].kind \in {"commits", "dashboard"} THEN End(r)
           ELSE req' = [req EXCEPT ![r].todo = req[r].mine, ![r].pc = "enrich"]
        /\ UNCHANGED commitRow
  /\ UNCHANGED <<history, branchRow, fileRow, analyses, graphs, unsaved>>
------------------------------------------------------------------------------
(* Files.                                                                  *)

\* The dashboard and the graph take the rows there are, however many.
FindFiles(r) ==
  /\ At(r, "files")
  /\ Goto(r, IF fileRow[req[r].branch] = {} THEN "tree"
             ELSE IF req[r].kind = "graph" THEN "parse" ELSE "activity")
  /\ UNCHANGED <<history, rows, analyses, graphs, unsaved>>

FetchTree(r) ==
  /\ At(r, "tree")
  /\ req' = [req EXCEPT ![r].todo = Paths, ![r].pc = "saveFiles"]
  /\ UNCHANGED <<history, rows, analyses, graphs, unsaved>>

SaveFile(r) ==
  /\ At(r, "saveFiles")
  /\ \/ \E p \in req[r].todo :
          /\ fileRow' = [fileRow EXCEPT ![req[r].branch] = @ \cup {p}]
          /\ req' = [req EXCEPT ![r].todo = @ \ {p}]
     \/ /\ req[r].todo = {}
        /\ CASE req[r].kind = "graph" -> Goto(r, "parse")
             [] req[r].kind = "dashboard" -> Goto(r, "activity")
             [] OTHER -> End(r)
        /\ UNCHANGED fileRow
  /\ UNCHANGED <<history, branchRow, commitRow, analyses, graphs, unsaved>>

\* The dashboard's commits; the manifest, languages and contributors are
\* fetched live and store nothing.
DashboardActivity(r) ==
  /\ At(r, "activity")
  /\ IF Stored(req[r].branch) = {} THEN Goto(r, "list") ELSE End(r)
  /\ UNCHANGED <<history, rows, analyses, graphs, unsaved>>

\* One file, fetched on demand and only passed on.
GetFileContent(r) ==
  /\ At(r, "content")
  /\ End(r)
  /\ UNCHANGED <<history, rows, analyses, graphs, unsaved>>
------------------------------------------------------------------------------
(* The dependency graph and its in-memory cache.                           *)

CacheKey(r) == [branch |-> req[r].branch, sha |-> req[r].sha]

LookUpGraph(r) ==
  /\ At(r, "cache")
  /\ \/ /\ \E g \in graphs : g.key = CacheKey(r)
        /\ End(r)
     \/ Goto(r, "files")                       \* a miss, or forceRefresh
  /\ UNCHANGED <<history, rows, analyses, graphs, unsaved>>

RefRead_ByName(r) == history[req[r].branch].head

\* The commit whose contents a fetch with the handler's ref returns.
RefRead(r) == req[r].sha

\* A content that cannot be fetched is left out, and the rest is cached.
ParseFiles(r) ==
  /\ At(r, "parse")
  /\ \E whole \in BOOLEAN :
       graphs' = {g \in graphs : g.key # CacheKey(r)} \cup
                 {[key |-> CacheKey(r), read |-> RefRead(r), whole |-> whole]}
  /\ End(r)
  /\ UNCHANGED <<history, rows, analyses, unsaved>>
------------------------------------------------------------------------------
(* The analysis: a document, the evidence, the AI service, the result.     *)

CreateAnalysis(r) ==
  /\ At(r, "create")
  /\ analyses' = Append(analyses, [status |-> "processing", branch |-> req[r].branch,
                                   sha |-> None, commits |-> {}])
  /\ req' = [req EXCEPT ![r].doc = Len(analyses) + 1, ![r].pc = "ensure"]
  /\ UNCHANGED <<history, rows, graphs, unsaved>>

SyncedFor_OfRepository(b) == {c \in Commits : commitRow[c].branch # None}
SyncedFor(b) == Stored(b)

\* ensureCommitsSynced: any row at all is taken for the whole history.
EnsureCommitsSynced(r) ==
  /\ At(r, "ensure")
  /\ LET found == SyncedFor(req[r].branch)
     IN IF found = {} THEN Goto(r, "list")
        ELSE req' = [req EXCEPT
               ![r].mine = found,
               ![r].todo = {c \in found : commitRow[c].stats # "real"},
               ![r].pc = "enrich"]
  /\ UNCHANGED <<history, rows, analyses, graphs, unsaved>>

\* A detail per commit without files; the write of each is not awaited.
EnrichCommitsWithFileChanges(r) ==
  /\ At(r, "enrich")
  /\ \E enriched \in SUBSET req[r].todo :
       /\ unsaved' = unsaved \cup enriched
       /\ req' = [req EXCEPT ![r].todo = {}, ![r].pc = "submit"]
  /\ UNCHANGED <<history, rows, analyses, graphs>>

EnrichmentLands(c) ==
  /\ c \in unsaved
  /\ unsaved' = unsaved \ {c}
  /\ commitRow' = [commitRow EXCEPT ![c].stats = "real", ![c].hasStats = TRUE]
  /\ UNCHANGED <<history, branchRow, fileRow, analyses, graphs, req>>

\* The AI service answers or fails; the client turns both into a result.
SubmitAnalysis(r) ==
  /\ At(r, "submit")
  /\ \E status \in {"completed", "failed"} :
       analyses' = IF req[r].doc = 0 THEN analyses
                   ELSE [analyses EXCEPT ![req[r].doc] =
                           IF status = "failed" THEN [@ EXCEPT !.status = "failed"]
                           ELSE [@ EXCEPT !.status = "completed", !.sha = req[r].sha,
                                          !.commits = req[r].mine]]
  /\ End(r)
  /\ UNCHANGED <<history, rows, graphs, unsaved>>

LatestAnalysis(r) ==
  /\ At(r, "latest")
  /\ IF analyses = <<>> \/ analyses[Len(analyses)].status # "completed"
     THEN End(r)
     ELSE req' = [req EXCEPT ![r].doc = Len(analyses), ![r].pc = "resolve"]
  /\ UNCHANGED <<history, rows, analyses, graphs, unsaved>>

CompareHead(r) ==
  /\ At(r, "compare")
  /\ req' = [req EXCEPT ![r].stale = (req[r].sha # analyses[req[r].doc].sha),
                        ![r].pc = "answer"]
  /\ UNCHANGED <<history, rows, analyses, graphs, unsaved>>

AnswerAnalysis(r) ==
  /\ At(r, "answer")
  /\ End(r)
  /\ UNCHANGED <<history, rows, analyses, graphs, unsaved>>
------------------------------------------------------------------------------
\* A call to GitHub fails: the error goes to next(error) and nothing is undone.
GitHubFails(r) ==
  /\ req[r].pc \in {"heads", "list", "tree", "content"}
  /\ End(r)
  /\ UNCHANGED <<history, rows, analyses, graphs, unsaved>>

\* Express restarts: handlers, cache and unawaited writes are gone.
Restart == /\ req' = [r \in Requests |-> Idle]
           /\ graphs' = {}
           /\ unsaved' = {}
           /\ UNCHANGED <<history, rows, analyses>>

Step(r) ==
  \/ FindBranch(r) \/ ResolveOrSyncDefaultBranch(r) \/ ListBranches(r) \/ SaveBranch(r)
  \/ ListCommits(r) \/ EnrichPage(r) \/ SaveCommit(r)
  \/ FindFiles(r) \/ FetchTree(r) \/ SaveFile(r) \/ DashboardActivity(r)
  \/ GetFileContent(r) \/ LookUpGraph(r) \/ ParseFiles(r)
  \/ CreateAnalysis(r) \/ EnsureCommitsSynced(r) \/ EnrichCommitsWithFileChanges(r)
  \/ SubmitAnalysis(r) \/ LatestAnalysis(r) \/ CompareHead(r) \/ AnswerAnalysis(r)
  \/ GitHubFails(r)

Next ==
  \/ \E b \in Branches, c \in Commits : Push(b, c)
  \/ \E b, from \in Branches : FastForward(b, from)
  \/ \E r \in Requests, k \in Kinds, b \in Branches : Begin(r, k, b)
  \/ \E r \in Requests : Step(r)
  \/ \E c \in Commits : EnrichmentLands(c)
  \/ Restart

Spec == Init /\ [][Next]_vars
------------------------------------------------------------------------------
\* What a page of Source Control read before its GitHub calls never undoes
\* what another request stored meanwhile: getCommits takes true statistics
\* away only where the row it read already carried the analysis's zeros.
SourceControlKeepsStats ==
  [][\A c \in Commits :
       commitRow[c].stats = "real" /\ commitRow'[c].stats # "real" =>
         \E r \in Requests, v \in {"blank", "zero"} :
           <<c, v>> \in req[r].todo /\ <<c, v>> \notin req'[r].todo]_vars

\* The evidence of a completed analysis is history of the branch it is about,
\* though rows of a shared commit move from branch to branch meanwhile.
EvidenceIsOfTheBranch ==
  \A i \in DOMAIN analyses :
    analyses[i].commits \subseteq history[analyses[i].branch].all

\* A cached graph was parsed from the commit its key names, whatever was
\* pushed between the lookup and the last fetch.
GraphIsOfItsKey == \A g \in graphs : g.read = g.key.sha

\* Two writers of the same rows never file a commit under a branch it is not on.
CommitIsOnItsBranch ==
  \A c \in Commits : commitRow[c].branch # None => c \in history[commitRow[c].branch].all

==============================================================================
