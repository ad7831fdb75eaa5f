------------------------ MODULE RepositorySync_proofs ------------------------
(***************************************************************************)
(* What the handlers of RepositorySync store is true of GitHub, for every  *)
(* number of branches, commits, files and requests, and every interleaving *)
(* of their database calls with pushes, failures and restarts.             *)
(***************************************************************************)
EXTENDS RepositorySync, TLAPS

-----------------------------------------------------------------------------
(* The inductive invariant. *)

(* What a write of a commit may carry. *)
Values == {"keep", "blank", "real", "zero"}

Stages == {"idle", "heads", "content", "branch", "latest", "resolve", "saveBranches",
           "list", "existing", "saveCommits", "enrich", "submit", "create", "ensure",
           "cache", "files", "tree", "saveFiles", "parse", "activity", "compare", "answer"}

Histories  == [head : Commits \cup {None}, all : SUBSET Commits]
CommitRows == [branch : Branches \cup {None}, stats : {"null", "zero", "real"}, hasStats : BOOLEAN]
Documents  == [status : {"processing", "completed", "failed"}, branch : Branches,
               sha : Commits \cup {None}, commits : SUBSET Commits]
Items      == Commits \cup Paths \cup (Branches \X Commits) \cup (Commits \X Values)
Handlers   == [kind : Kinds \cup {None}, pc : Stages, branch : Branches \cup {None},
               sha : Commits \cup {None}, todo : SUBSET Items, mine : SUBSET Items,
               doc : Nat, stale : BOOLEAN]

TypeInv ==
  /\ history \in [Branches -> Histories]
  /\ branchRow \in [Branches -> Commits \cup {None}]
  /\ commitRow \in [Commits -> CommitRows]
  /\ analyses \in Seq(Documents)
  /\ unsaved \subseteq Commits
  /\ req \in [Requests -> Handlers]

Unbranched    == {"idle", "heads", "content", "latest", "resolve", "saveBranches"}
ReadingStages == {"latest", "resolve", "heads", "saveBranches", "compare", "answer"}
SyncStages    == {"ensure", "list", "saveCommits", "enrich", "submit"}

(* What the handler in state q carries is on the branch it works for, and  *)
(* the document it will fill in is about that branch.                      *)
HandlerInv(q) ==
  /\ q.pc \notin Unbranched => q.branch \in Branches
  /\ q.pc = "saveBranches" => q.mine \cup q.todo \subseteq Branches \X Commits
  /\ q.pc \in {"existing", "saveCommits", "enrich", "submit"} => q.mine \subseteq History(q.branch)
  /\ q.pc = "saveCommits" => q.todo \subseteq History(q.branch) \X Values
  /\ q.pc = "enrich" => q.todo \subseteq Commits
  /\ q.kind = "getAnalysis" => q.pc \in ReadingStages
  /\ q.pc = "latest" => q.kind = "getAnalysis"
  /\ q.kind # "getAnalysis" /\ q.doc # 0 =>
       q.pc \in SyncStages /\ q.doc \in DOMAIN analyses /\ analyses[q.doc].branch = q.branch

(* Statistics that are said to be there were zeros or true ones. *)
StatsInv == \A c \in Commits : commitRow[c].hasStats => commitRow[c].stats # "null"

SyncInv ==
  /\ TypeInv
  /\ \A r \in Requests : HandlerInv(req[r])
  /\ StatsInv
  /\ EvidenceIsOfTheBranch
  /\ GraphIsOfItsKey
  /\ CommitIsOnItsBranch

LEMMA IdleHandler == Idle \in Handlers /\ HandlerInv(Idle)
BY DEF Idle, None, Handlers, Stages, HandlerInv, Unbranched

(* A step of one handler that touches nothing but its own progress. *)
LEMMA ProgressKeeps ==
  ASSUME SyncInv, NEW r \in Requests,
         UNCHANGED <<history, rows, analyses, graphs, unsaved>>,
         req' \in [Requests -> Handlers],
         \A x \in Requests \ {r} : req'[x] = req[x],
         HandlerInv(req[r])'
  PROVE  SyncInv'
<1>1. \A x \in Requests : HandlerInv(req[x])'
  BY DEF SyncInv, HandlerInv, History
<1>2. QED
  BY <1>1 DEF SyncInv, TypeInv, StatsInv, EvidenceIsOfTheBranch, GraphIsOfItsKey,
     CommitIsOnItsBranch, rows

(* A handler that ends. *)
LEMMA EndKeeps ==
  ASSUME SyncInv, NEW r \in Requests, End(r),
         UNCHANGED <<history, rows, analyses, graphs, unsaved>>
  PROVE  SyncInv'
<1>1. /\ req' \in [Requests -> Handlers]
      /\ \A x \in Requests \ {r} : req'[x] = req[x]
      /\ req'[r] = Idle
  BY IdleHandler DEF End, SyncInv, TypeInv
<1>2. HandlerInv(req[r])'
  BY <1>1 DEF Idle, None, HandlerInv, Unbranched
<1>3. QED
  BY <1>1, <1>2, ProgressKeeps

(* What GitHub and the documents gain takes nothing from a handler. *)
LEMMA HandlersKept ==
  ASSUME SyncInv, TypeInv', NEW r \in Requests, req'[r] = req[r],
         \A b \in Branches : history[b].all \subseteq history'[b].all,
         \A i \in DOMAIN analyses :
           i \in DOMAIN analyses' /\ analyses'[i].branch = analyses[i].branch
  PROVE  HandlerInv(req[r])'
<1>1. HandlerInv(req[r])
  BY DEF SyncInv
<1>2. req[r].branch \in Branches => History(req[r].branch) \subseteq History(req[r].branch)'
  BY DEF History
<1>3. req[r].pc \in {"existing", "saveCommits", "enrich", "submit"} => req[r].branch \in Branches
  BY <1>1 DEF HandlerInv, Unbranched
<1>4. QED
  BY <1>1, <1>2, <1>3 DEF HandlerInv

-----------------------------------------------------------------------------
(* GitHub. *)

LEMMA PushKeeps ==
  ASSUME SyncInv, NEW b \in Branches, NEW c \in Commits, Push(b, c)
  PROVE  SyncInv'
<1> USE DEF SyncInv, rows
<1>1. TypeInv'
  BY DEF Push, TypeInv, Histories
<1>2. \A x \in Branches : history[x].all \subseteq history'[x].all
  BY DEF Push, TypeInv, Histories
<1>3. \A r \in Requests : HandlerInv(req[r])'
  BY <1>1, <1>2, HandlersKept DEF Push
<1>4. EvidenceIsOfTheBranch' /\ CommitIsOnItsBranch'
  BY <1>2 DEF Push, EvidenceIsOfTheBranch, CommitIsOnItsBranch, TypeInv, Documents, CommitRows
<1>5. QED
  BY <1>1, <1>3, <1>4 DEF Push, StatsInv, GraphIsOfItsKey

LEMMA FastForwardKeeps ==
  ASSUME SyncInv, NEW b \in Branches, NEW from \in Branches, FastForward(b, from)
  PROVE  SyncInv'
<1> USE DEF SyncInv, rows
<1>1. TypeInv'
  BY DEF FastForward, TypeInv, Histories
<1>2. \A x \in Branches : history[x].all \subseteq history'[x].all
  BY DEF FastForward, TypeInv, Histories
<1>3. \A r \in Requests : HandlerInv(req[r])'
  BY <1>1, <1>2, HandlersKept DEF FastForward
<1>4. EvidenceIsOfTheBranch' /\ CommitIsOnItsBranch'
  BY <1>2 DEF FastForward, EvidenceIsOfTheBranch, CommitIsOnItsBranch, TypeInv, Documents,
     CommitRows
<1>5. QED
  BY <1>1, <1>3, <1>4 DEF FastForward, StatsInv, GraphIsOfItsKey

-----------------------------------------------------------------------------
(* The handlers.  Most steps move one handler on and store nothing.        *)

LEMMA BeginKeeps ==
  ASSUME SyncInv, NEW r \in Requests, NEW k \in Kinds, NEW b \in Branches, Begin(r, k, b)
  PROVE  SyncInv'
<1> DEFINE q == [Idle EXCEPT !.kind = k, !.pc = FirstStage(k),
                             !.branch = IF FirstStage(k) = "branch" THEN b ELSE None]
<1>1. FirstStage(k) \in {"heads", "content", "branch", "latest", "resolve"}
  BY DEF FirstStage
<1>2. k = "getAnalysis" <=> FirstStage(k) = "latest"
  BY DEF FirstStage
<1>3. q \in Handlers
  BY <1>1, IdleHandler DEF Handlers, Stages
<1>4. HandlerInv(q)
  BY <1>1, <1>2 DEF HandlerInv, Unbranched, ReadingStages, Idle
<1>5. /\ req' = [req EXCEPT ![r] = q]
      /\ UNCHANGED <<history, rows, analyses, graphs, unsaved>>
  BY DEF Begin
<1> HIDE DEF q
<1>6. /\ req' \in [Requests -> Handlers]
      /\ \A x \in Requests \ {r} : req'[x] = req[x]
      /\ req'[r] = q
  BY <1>3, <1>5 DEF SyncInv, TypeInv
<1>7. HandlerInv(req[r])'
  BY <1>4, <1>5, <1>6 DEF HandlerInv, History
<1>8. QED
  BY <1>5, <1>6, <1>7, ProgressKeeps

LEMMA ResolvedKeeps ==
  ASSUME SyncInv, NEW r \in Requests, NEW pairs \in SUBSET (Branches \X Commits),
         req[r].pc \in {"resolve", "saveBranches"}, ResolvedTo(r, pairs),
         UNCHANGED <<history, rows, analyses, graphs, unsaved>>
  PROVE  SyncInv'
<1>1. PICK p \in pairs :
        req' = [req EXCEPT ![r].branch = p[1], ![r].sha = p[2], ![r].todo = {},
                           ![r].mine = {}, ![r].pc = AfterResolve(req[r].kind)]
  BY DEF ResolvedTo
<1>2. /\ AfterResolve(req[r].kind) \in {"files", "create", "ensure", "compare"}
      /\ req[r].kind = "getAnalysis" => AfterResolve(req[r].kind) = "compare"
  BY DEF AfterResolve
<1>3. p[1] \in Branches /\ p[2] \in Commits
  OBVIOUS
<1>4. req[r] \in Handlers /\ HandlerInv(req[r])
  BY DEF SyncInv, TypeInv
<1>5. /\ \A x \in Requests \ {r} : req'[x] = req[x]
      /\ req'[r] = [req[r] EXCEPT !.branch = p[1], !.sha = p[2], !.todo = {},
                                  !.mine = {}, !.pc = AfterResolve(req[r].kind)]
      /\ DOMAIN req' = Requests /\ req' = [x \in Requests |-> req'[x]]
  BY <1>1 DEF SyncInv, TypeInv
<1>6. /\ req'[r] \in Handlers /\ req'[r].pc = AfterResolve(req[r].kind)
      /\ req'[r].branch = p[1] /\ req'[r].kind = req[r].kind /\ req'[r].doc = req[r].doc
  BY <1>2, <1>3, <1>4, <1>5 DEF Handlers, Stages
<1>7. req' \in [Requests -> Handlers]
  BY <1>5, <1>6 DEF SyncInv, TypeInv
<1>8. HandlerInv(req[r])'
  BY <1>2, <1>3, <1>4, <1>6 DEF HandlerInv, Unbranched, ReadingStages, SyncStages
<1>9. QED
  BY <1>5, <1>7, <1>8, ProgressKeeps

LEMMA BranchesKeep ==
  ASSUME SyncInv, NEW r \in Requests,
         FindBranch(r) \/ ResolveOrSyncDefaultBranch(r) \/ ListBranches(r)
  PROVE  SyncInv'
<1> USE DEF At, Goto
<1>1. /\ req \in [Requests -> Handlers] /\ req[r] \in Handlers /\ HandlerInv(req[r])
      /\ branchRow \in [Branches -> Commits \cup {None}] /\ history \in [Branches -> Histories]
  BY DEF SyncInv, TypeInv
<1>2. CASE FindBranch(r)
  <2>1. CASE End(r)
    BY <1>2, <2>1, EndKeeps DEF FindBranch
  <2>2. CASE ~ End(r)
    <3> DEFINE pc == CASE req[r].kind = "commits" -> "list"
                       [] req[r].kind = "files" -> "tree"
                       [] OTHER -> "cache"
    <3>1. pc \in {"list", "tree", "cache"}
      OBVIOUS
    <3>2. /\ req' = [req EXCEPT ![r].sha = branchRow[req[r].branch], ![r].pc = pc]
          /\ UNCHANGED <<history, rows, analyses, graphs, unsaved>>
          /\ req[r].branch \in Branches /\ req[r].pc = "branch"
      BY <1>1, <1>2, <2>2 DEF FindBranch, HandlerInv, Unbranched
    <3> HIDE DEF pc
    <3>3. /\ req' \in [Requests -> Handlers]
          /\ \A x \in Requests \ {r} : req'[x] = req[x]
          /\ req'[r] = [req[r] EXCEPT !.sha = branchRow[req[r].branch], !.pc = pc]
      BY <1>1, <3>1, <3>2 DEF Handlers, Stages
    <3>4. HandlerInv(req[r])'
      BY <1>1, <3>1, <3>2, <3>3 DEF HandlerInv, Handlers, Unbranched, ReadingStages, SyncStages
    <3>5. QED
      BY <3>2, <3>3, <3>4, ProgressKeeps
  <2>3. QED
    BY <2>1, <2>2
<1>3. CASE ResolveOrSyncDefaultBranch(r)
  <2>1. CASE KnownBranches = {}
    <3>1. /\ req' = [req EXCEPT ![r].pc = "heads"] /\ req[r].pc = "resolve"
          /\ UNCHANGED <<history, rows, analyses, graphs, unsaved>>
      BY <1>3, <2>1 DEF ResolveOrSyncDefaultBranch
    <3>2. /\ req' \in [Requests -> Handlers]
          /\ \A x \in Requests \ {r} : req'[x] = req[x]
          /\ req'[r] = [req[r] EXCEPT !.pc = "heads"]
      BY <1>1, <3>1 DEF Handlers, Stages
    <3>3. HandlerInv(req[r])'
      BY <1>1, <3>1, <3>2 DEF HandlerInv, Handlers, Unbranched, ReadingStages, SyncStages
    <3>4. QED
      BY <3>1, <3>2, <3>3, ProgressKeeps
  <2>2. CASE KnownBranches # {}
    <3> DEFINE pairs == {<<b, branchRow[b]>> : b \in KnownBranches}
    <3>1. pairs \in SUBSET (Branches \X Commits)
      BY <1>1 DEF KnownBranches
    <3>2. /\ ResolvedTo(r, pairs) /\ req[r].pc = "resolve"
          /\ UNCHANGED <<history, rows, analyses, graphs, unsaved>>
      BY <1>3, <2>2 DEF ResolveOrSyncDefaultBranch
    <3> HIDE DEF pairs
    <3>3. QED
      BY <3>1, <3>2, ResolvedKeeps
  <2>3. QED
    BY <2>1, <2>2
<1>4. CASE ListBranches(r)
  <2>1. Listed \in SUBSET (Branches \X Commits)
    BY <1>1 DEF Listed, Histories
  <2>2. /\ req' = [req EXCEPT ![r].todo = Listed, ![r].mine = Listed, ![r].pc = "saveBranches"]
        /\ req[r].pc = "heads"
        /\ UNCHANGED <<history, rows, analyses, graphs, unsaved>>
    BY <1>4 DEF ListBranches
  <2>3. /\ req' \in [Requests -> Handlers]
        /\ \A x \in Requests \ {r} : req'[x] = req[x]
        /\ req'[r] = [req[r] EXCEPT !.todo = Listed, !.mine = Listed, !.pc = "saveBranches"]
    BY <1>1, <2>1, <2>2 DEF Handlers, Stages, Items
  <2>4. HandlerInv(req[r])'
    BY <1>1, <2>1, <2>2, <2>3 DEF HandlerInv, Handlers, Unbranched, ReadingStages, SyncStages
  <2>5. QED
    BY <2>2, <2>3, <2>4, ProgressKeeps
<1>5. QED
  BY <1>2, <1>3, <1>4

LEMMA SaveBranchKeeps ==
  ASSUME SyncInv, NEW r \in Requests, SaveBranch(r)
  PROVE  SyncInv'
<1> USE DEF At
<1>1. /\ req \in [Requests -> Handlers] /\ req[r] \in Handlers /\ HandlerInv(req[r])
      /\ branchRow \in [Branches -> Commits \cup {None}] /\ req[r].pc = "saveBranches"
      /\ UNCHANGED <<history, commitRow, fileRow, analyses, graphs, unsaved>>
  BY DEF SyncInv, TypeInv, SaveBranch
<1>2. req[r].mine \in SUBSET (Branches \X Commits) /\ req[r].todo \in SUBSET (Branches \X Commits)
  BY <1>1 DEF HandlerInv
<1>3. ASSUME NEW p \in req[r].todo,
             branchRow' = [branchRow EXCEPT ![p[1]] = p[2]],
             req' = [req EXCEPT ![r].todo = @ \ {p}]
      PROVE  SyncInv'
  <2>1. branchRow' \in [Branches -> Commits \cup {None}]
    BY <1>1, <1>2, <1>3
  <2>2. /\ req' \in [Requests -> Handlers]
        /\ \A x \in Requests \ {r} : req'[x] = req[x]
        /\ req'[r] = [req[r] EXCEPT !.todo = @ \ {p}]
    BY <1>1, <1>3 DEF Handlers
  <2>3. \A x \in Requests : HandlerInv(req[x])'
    BY <1>1, <1>2, <2>2 DEF SyncInv, HandlerInv, History, Handlers, Unbranched
  <2>4. QED
    BY <1>1, <2>1, <2>2, <2>3
       DEF SyncInv, TypeInv, StatsInv, EvidenceIsOfTheBranch, GraphIsOfItsKey, CommitIsOnItsBranch
<1>4. CASE UNCHANGED branchRow /\ (End(r) \/ ResolvedTo(r, req[r].mine))
  BY <1>1, <1>2, <1>4, EndKeeps, ResolvedKeeps DEF rows
<1>5. QED
  BY <1>3, <1>4 DEF SaveBranch

-----------------------------------------------------------------------------
(* Commits. *)

LEMMA CommitsListed ==
  ASSUME SyncInv, NEW r \in Requests, ListCommits(r) \/ EnrichPage(r)
  PROVE  SyncInv'
<1> USE DEF At
<1>1. /\ req \in [Requests -> Handlers] /\ req[r] \in Handlers /\ HandlerInv(req[r])
      /\ history \in [Branches -> Histories] /\ commitRow \in [Commits -> CommitRows] /\ StatsInv
  BY DEF SyncInv, TypeInv
<1>2. CASE ListCommits(r)
  <2> DEFINE listed == History(req[r].branch)
             value  == IF req[r].kind = "dashboard" THEN "keep" ELSE "blank"
             todo   == IF req[r].kind = "commits" THEN {} ELSE listed \X {value}
             pc     == IF req[r].kind = "commits" THEN "existing" ELSE "saveCommits"
  <2>1. req[r].pc = "list" /\ req[r].branch \in Branches
    BY <1>1, <1>2 DEF ListCommits, HandlerInv, Unbranched
  <2>2. listed \in SUBSET Commits
    BY <1>1, <2>1 DEF History, Histories
  <2>3. value \in Values /\ pc \in {"existing", "saveCommits"}
    BY DEF Values
  <2>4. /\ req' = [req EXCEPT ![r].mine = listed, ![r].todo = todo, ![r].pc = pc]
        /\ UNCHANGED <<history, rows, analyses, graphs, unsaved>>
    BY <1>2 DEF ListCommits
  <2>5. todo \subseteq listed \X Values
    BY <2>3
  <2> HIDE DEF value, todo, pc, listed
  <2>6. listed \in SUBSET Items /\ todo \in SUBSET Items
    BY <2>2, <2>5 DEF Items
  <2>7. /\ req' \in [Requests -> Handlers]
        /\ \A x \in Requests \ {r} : req'[x] = req[x]
        /\ req'[r] = [req[r] EXCEPT !.mine = listed, !.todo = todo, !.pc = pc]
    BY <1>1, <2>3, <2>4, <2>6 DEF Handlers, Stages
  <2>8. listed = History(req[r].branch)'
    BY <2>4, <2>7, <1>1 DEF listed, History, Handlers
  <2>9. HandlerInv(req[r])'
    BY <1>1, <2>1, <2>3, <2>4, <2>5, <2>7, <2>8 DEF HandlerInv, Handlers, Unbranched,
       ReadingStages, SyncStages
  <2>10. QED
    BY <2>4, <2>7, <2>9, ProgressKeeps
<1>3. CASE EnrichPage(r)
  <2>1. PICK enriched \in SUBSET {c \in req[r].mine : ~commitRow[c].hasStats} :
          req' = [req EXCEPT
            ![r].todo = {<<c, CarriedStats(commitRow[c], c \in enriched)>> : c \in req[r].mine},
            ![r].pc = "saveCommits"]
    BY <1>3 DEF EnrichPage
  <2> DEFINE todo == {<<c, CarriedStats(commitRow[c], c \in enriched)>> : c \in req[r].mine}
  <2>2. /\ req[r].pc = "existing" /\ req[r].branch \in Branches
        /\ req[r].mine \subseteq History(req[r].branch)
        /\ UNCHANGED <<history, rows, analyses, graphs, unsaved>>
    BY <1>1, <1>3 DEF EnrichPage, HandlerInv, Unbranched
  <2>3. req[r].mine \subseteq Commits
    BY <1>1, <2>2 DEF History, Histories
  <2>4. \A c \in req[r].mine : CarriedStats(commitRow[c], c \in enriched) \in Values
    BY <1>1, <2>3 DEF CarriedStats, CommitRows, StatsInv, Values
  <2>5. todo \subseteq req[r].mine \X Values
    BY <2>4
  <2>6. req' = [req EXCEPT ![r].todo = todo, ![r].pc = "saveCommits"]
    BY <2>1
  <2> HIDE DEF todo
  <2>7. todo \in SUBSET Items
    BY <2>3, <2>5 DEF Items
  <2>8. /\ req' \in [Requests -> Handlers]
        /\ \A x \in Requests \ {r} : req'[x] = req[x]
        /\ req'[r] = [req[r] EXCEPT !.todo = todo, !.pc = "saveCommits"]
    BY <1>1, <2>6, <2>7 DEF Handlers, Stages
  <2>9. History(req[r].branch) = History(req[r].branch)'
    BY <2>2, <2>8, <1>1 DEF History, Handlers
  <2>10. HandlerInv(req[r])'
    BY <1>1, <2>2, <2>5, <2>8, <2>9 DEF HandlerInv, Handlers, Unbranched, ReadingStages,
       SyncStages
  <2>11. QED
    BY <2>2, <2>8, <2>10, ProgressKeeps
<1>4. QED
  BY <1>2, <1>3

(* The row of a commit after one write to it. *)
LEMMA RowWritten ==
  ASSUME NEW row \in CommitRows, NEW b \in Branches, NEW v \in Values,
         row.hasStats => row.stats # "null"
  PROVE  /\ Written(row, b, v) \in CommitRows
         /\ Written(row, b, v).branch = b
         /\ Written(row, b, v).hasStats => Written(row, b, v).stats # "null"
         /\ row.stats = "real" /\ Written(row, b, v).stats # "real" => v \in {"blank", "zero"}
BY DEF Written, CommitRows, Values

LEMMA SaveCommitKeeps ==
  ASSUME SyncInv, NEW r \in Requests, SaveCommit(r)
  PROVE  SyncInv'
<1> USE DEF At
<1>1. /\ req \in [Requests -> Handlers] /\ req[r] \in Handlers /\ HandlerInv(req[r])
      /\ history \in [Branches -> Histories] /\ commitRow \in [Commits -> CommitRows] /\ StatsInv
      /\ req[r].pc = "saveCommits" /\ req[r].branch \in Branches
      /\ req[r].todo \subseteq History(req[r].branch) \X Values
      /\ req[r].mine \subseteq History(req[r].branch)
      /\ UNCHANGED <<history, branchRow, fileRow, analyses, graphs, unsaved>>
  BY DEF SyncInv, TypeInv, SaveCommit, HandlerInv, Unbranched
<1>2. History(req[r].branch) \subseteq Commits
  BY <1>1 DEF History, Histories
<1>3. ASSUME NEW p \in req[r].todo,
             commitRow' = [commitRow EXCEPT ![p[1]] = Written(@, req[r].branch, p[2])],
             req' = [req EXCEPT ![r].todo = @ \ {p}]
      PROVE  SyncInv'
  <2>1. p[1] \in Commits /\ p[1] \in History(req[r].branch) /\ p[2] \in Values
    BY <1>1, <1>2
  <2>2. /\ \A c \in Commits \ {p[1]} : commitRow'[c] = commitRow[c]
        /\ commitRow'[p[1]] = Written(commitRow[p[1]], req[r].branch, p[2])
        /\ commitRow' \in [Commits -> CommitRows]
    <3>1. Written(commitRow[p[1]], req[r].branch, p[2]) \in CommitRows
      BY <1>1, <2>1, RowWritten DEF StatsInv
    <3> DEFINE i == p[1]
               w == Written(commitRow[i], req[r].branch, p[2])
    <3>2. commitRow' = [commitRow EXCEPT ![i] = w] /\ commitRow \in [Commits -> CommitRows]
      BY <1>1, <1>3
    <3>3. i \in Commits /\ w \in CommitRows
      BY <2>1, <3>1
    <3> HIDE DEF i, w
    <3>4. /\ \A c \in Commits \ {i} : commitRow'[c] = commitRow[c]
          /\ commitRow'[i] = w
          /\ commitRow' \in [Commits -> CommitRows]
      BY <3>2, <3>3
    <3>5. QED
      BY <3>4 DEF i, w
  <2>3. StatsInv' /\ CommitIsOnItsBranch'
    <3> DEFINE w == Written(commitRow[p[1]], req[r].branch, p[2])
    <3>1. w.branch = req[r].branch /\ (w.hasStats => w.stats # "null")
      BY <1>1, <2>1, RowWritten DEF StatsInv
    <3>2. p[1] \in history'[req[r].branch].all
      BY <1>1, <2>1 DEF History
    <3> HIDE DEF w
    <3>3. commitRow'[p[1]] = w
      BY <2>2 DEF w
    <3>4. StatsInv'
      BY <1>1, <2>2, <3>1, <3>3 DEF StatsInv
    <3>5. CommitIsOnItsBranch'
      BY <1>1, <2>2, <3>1, <3>2, <3>3 DEF SyncInv, CommitIsOnItsBranch
    <3>6. QED
      BY <3>4, <3>5
  <2>4. /\ req' \in [Requests -> Handlers]
        /\ \A x \in Requests \ {r} : req'[x] = req[x]
        /\ req'[r] = [req[r] EXCEPT !.todo = @ \ {p}]
    <3>1. [req[r] EXCEPT !.todo = @ \ {p}] \in Handlers
      BY <1>1 DEF Handlers
    <3>2. QED
      BY <1>1, <1>3, <3>1
  <2>5. HandlerInv(req[r])'
    BY <1>1, <2>4 DEF HandlerInv, History, Handlers
  <2>6. \A x \in Requests : HandlerInv(req[x])'
    <3>1. \A x \in Requests : HandlerInv(req[x])
      BY DEF SyncInv
    <3>2. ASSUME NEW x \in Requests \ {r}
          PROVE  HandlerInv(req[x])'
      <4>1. HandlerInv(req[x]) /\ req'[x] = req[x] /\ UNCHANGED <<history, analyses>>
        BY <1>1, <2>4, <3>1
      <4>2. QED
        BY <4>1 DEF HandlerInv, History
    <3>3. QED
      BY <2>5, <3>2
  <2>7. QED
    BY <1>1, <2>2, <2>3, <2>4, <2>6 DEF SyncInv, TypeInv, EvidenceIsOfTheBranch, GraphIsOfItsKey
<1>4. CASE UNCHANGED commitRow /\ End(r)
  BY <1>1, <1>4, EndKeeps DEF rows
<1>5. ASSUME UNCHANGED commitRow, req[r].kind \notin {"commits", "dashboard"},
             req' = [req EXCEPT ![r].todo = req[r].mine, ![r].pc = "enrich"]
      PROVE  SyncInv'
  <2>1. /\ req' \in [Requests -> Handlers]
        /\ \A x \in Requests \ {r} : req'[x] = req[x]
        /\ req'[r] = [req[r] EXCEPT !.todo = req[r].mine, !.pc = "enrich"]
    BY <1>1, <1>5 DEF Handlers, Stages
  <2>2. HandlerInv(req[r])'
    BY <1>1, <1>2, <2>1 DEF HandlerInv, History, Handlers, Unbranched, ReadingStages, SyncStages
  <2>3. QED
    BY <1>1, <1>5, <2>1, <2>2, ProgressKeeps DEF rows
<1>6. QED
  BY <1>3, <1>4, <1>5 DEF SaveCommit

-----------------------------------------------------------------------------
(* Files, and steps that only move a handler to another stage. *)

LEMMA GotoKeeps ==
  ASSUME SyncInv, NEW r \in Requests, NEW pc \in Stages, Goto(r, pc),
         UNCHANGED <<history, rows, analyses, graphs, unsaved>>,
         req[r].pc \notin Unbranched,
         \/ pc \in {"tree", "parse", "activity", "files"} /\ req[r].kind # "getAnalysis" /\ req[r].doc = 0
         \/ pc = "list" /\ req[r].kind # "getAnalysis"
            /\ (req[r].pc \in SyncStages \/ req[r].doc = 0)
  PROVE  SyncInv'
<1>1. req \in [Requests -> Handlers] /\ req[r] \in Handlers /\ HandlerInv(req[r])
  BY DEF SyncInv, TypeInv
<1>2. [req[r] EXCEPT !.pc = pc] \in Handlers
  BY <1>1 DEF Handlers
<1>3. /\ req' \in [Requests -> Handlers]
      /\ \A x \in Requests \ {r} : req'[x] = req[x]
      /\ req'[r] = [req[r] EXCEPT !.pc = pc]
  BY <1>1, <1>2 DEF Goto
<1>4. HandlerInv(req[r])'
  BY <1>1, <1>3 DEF HandlerInv, Handlers, Unbranched, ReadingStages, SyncStages
<1>5. QED
  BY <1>3, <1>4, ProgressKeeps

(* Before it has created its document, no handler that syncs has one. *)
LEMMA NoDocumentYet ==
  ASSUME SyncInv, NEW r \in Requests,
         req[r].pc \in {"branch", "cache", "files", "tree", "saveFiles", "activity", "create"}
  PROVE  /\ req[r].kind # "getAnalysis" /\ req[r].doc = 0
         /\ req[r].pc \notin Unbranched /\ req[r].branch \in Branches
BY DEF SyncInv, HandlerInv, ReadingStages, SyncStages, Unbranched

LEMMA FilesKeep ==
  ASSUME SyncInv, NEW r \in Requests,
         \/ FindFiles(r) \/ FetchTree(r) \/ SaveFile(r) \/ DashboardActivity(r)
         \/ LookUpGraph(r) \/ GetFileContent(r) \/ AnswerAnalysis(r) \/ GitHubFails(r)
  PROVE  SyncInv'
<1> USE DEF At
<1>1. req \in [Requests -> Handlers] /\ req[r] \in Handlers /\ HandlerInv(req[r])
  BY DEF SyncInv, TypeInv
<1>2. {"tree", "parse", "activity", "files", "list"} \subseteq Stages
  BY DEF Stages
<1>3. CASE FindFiles(r)
  BY <1>2, <1>3, NoDocumentYet, GotoKeeps DEF FindFiles
<1>4. CASE FetchTree(r)
  <2>1. /\ req' = [req EXCEPT ![r].todo = Paths, ![r].pc = "saveFiles"] /\ req[r].pc = "tree"
        /\ UNCHANGED <<history, rows, analyses, graphs, unsaved>>
    BY <1>4 DEF FetchTree
  <2>2. [req[r] EXCEPT !.todo = Paths, !.pc = "saveFiles"] \in Handlers
    BY <1>1 DEF Handlers, Stages, Items
  <2>3. /\ req' \in [Requests -> Handlers]
        /\ \A x \in Requests \ {r} : req'[x] = req[x]
        /\ req'[r] = [req[r] EXCEPT !.todo = Paths, !.pc = "saveFiles"]
    BY <1>1, <2>1, <2>2
  <2>4. HandlerInv(req[r])'
    BY <1>1, <2>1, <2>3 DEF HandlerInv, Handlers, Unbranched, ReadingStages, SyncStages
  <2>5. QED
    BY <2>1, <2>3, <2>4, ProgressKeeps
<1>5. CASE SaveFile(r)
  <2>1. CASE req[r].todo = {} /\ UNCHANGED fileRow
    BY <1>2, <1>5, <2>1, NoDocumentYet, GotoKeeps, EndKeeps DEF SaveFile, rows
  <2>2. ASSUME NEW p \in req[r].todo, req' = [req EXCEPT ![r].todo = @ \ {p}], req[r].pc = "saveFiles",
               UNCHANGED <<history, branchRow, commitRow, analyses, graphs, unsaved>>
        PROVE  SyncInv'
    <3>1. [req[r] EXCEPT !.todo = @ \ {p}] \in Handlers
      BY <1>1 DEF Handlers
    <3>2. /\ req' \in [Requests -> Handlers]
          /\ \A x \in Requests \ {r} : req'[x] = req[x]
          /\ req'[r] = [req[r] EXCEPT !.todo = @ \ {p}]
      BY <1>1, <2>2, <3>1
    <3>3. HandlerInv(req[r])'
      BY <1>1, <2>2, <3>2 DEF HandlerInv, Handlers, Unbranched, ReadingStages, SyncStages
    <3>4. ASSUME NEW x \in Requests \ {r}
          PROVE  HandlerInv(req[x])'
      <4>1. HandlerInv(req[x]) /\ req'[x] = req[x]
        BY <3>2 DEF SyncInv
      <4>2. QED
        BY <2>2, <4>1 DEF HandlerInv, History
    <3>5. QED
      BY <2>2, <3>2, <3>3, <3>4
         DEF SyncInv, TypeInv, StatsInv, EvidenceIsOfTheBranch, GraphIsOfItsKey, CommitIsOnItsBranch
  <2>3. QED
    BY <1>5, <2>1, <2>2 DEF SaveFile
<1>6. CASE DashboardActivity(r)
  BY <1>2, <1>6, NoDocumentYet, GotoKeeps, EndKeeps DEF DashboardActivity
<1>7. CASE LookUpGraph(r)
  BY <1>2, <1>7, NoDocumentYet, GotoKeeps, EndKeeps DEF LookUpGraph
<1>8. CASE GetFileContent(r) \/ AnswerAnalysis(r) \/ GitHubFails(r)
  BY <1>8, EndKeeps DEF GetFileContent, AnswerAnalysis, GitHubFails
<1>9. QED
  BY <1>3, <1>4, <1>5, <1>6, <1>7, <1>8

LEMMA ParseKeeps ==
  ASSUME SyncInv, NEW r \in Requests, ParseFiles(r)
  PROVE  SyncInv'
<1>1. /\ req' \in [Requests -> Handlers]
      /\ \A x \in Requests : req'[x] = req[x] \/ req'[x] = Idle
      /\ UNCHANGED <<history, rows, analyses, unsaved>>
  BY IdleHandler DEF ParseFiles, End, SyncInv, TypeInv
<1>2. GraphIsOfItsKey'
  BY DEF ParseFiles, CacheKey, RefRead, SyncInv, GraphIsOfItsKey
<1>3. ASSUME NEW x \in Requests
      PROVE  HandlerInv(req[x])'
  <2>1. HandlerInv(req'[x])
    BY <1>1, IdleHandler DEF SyncInv
  <2>2. QED
    BY <1>1, <2>1 DEF HandlerInv, History
<1>4. QED
  BY <1>1, <1>2, <1>3
     DEF SyncInv, TypeInv, StatsInv, EvidenceIsOfTheBranch, CommitIsOnItsBranch, rows

-----------------------------------------------------------------------------
(* The analysis. *)

LEMMA EnsureKeeps ==
  ASSUME SyncInv, NEW r \in Requests, EnsureCommitsSynced(r) \/ LatestAnalysis(r) \/ CompareHead(r)
  PROVE  SyncInv'
<1> USE DEF At
<1>1. /\ req \in [Requests -> Handlers] /\ req[r] \in Handlers /\ HandlerInv(req[r])
      /\ commitRow \in [Commits -> CommitRows] /\ analyses \in Seq(Documents)
  BY DEF SyncInv, TypeInv
<1>2. CASE EnsureCommitsSynced(r)
  <2> DEFINE found == SyncedFor(req[r].branch)
             todo  == {c \in found : commitRow[c].stats # "real"}
  <2>1. /\ req[r].pc = "ensure" /\ req[r].branch \in Branches /\ req[r].kind # "getAnalysis"
        /\ UNCHANGED <<history, rows, analyses, graphs, unsaved>>
    BY <1>1, <1>2 DEF EnsureCommitsSynced, HandlerInv, Unbranched, ReadingStages
  <2>2. found \subseteq Commits /\ found \subseteq History(req[r].branch)
    BY <2>1, SyncConstants DEF SyncedFor, Stored, SyncInv, CommitIsOnItsBranch, History
  <2>3. CASE found = {}
    <3>1. Goto(r, "list") /\ "list" \in Stages
      BY <1>2, <2>3 DEF EnsureCommitsSynced, Stages
    <3>2. QED
      BY <2>1, <3>1, GotoKeeps DEF Unbranched, SyncStages
  <2>4. CASE found # {}
    <3>1. req' = [req EXCEPT ![r].mine = found, ![r].todo = todo, ![r].pc = "enrich"]
      BY <1>2, <2>4 DEF EnsureCommitsSynced
    <3>2. todo \subseteq Commits
      BY <2>2
    <3> HIDE DEF found, todo
    <3>3. [req[r] EXCEPT !.mine = found, !.todo = todo, !.pc = "enrich"] \in Handlers
      BY <1>1, <2>2, <3>2 DEF Handlers, Stages, Items
    <3>4. /\ req' \in [Requests -> Handlers]
          /\ \A x \in Requests \ {r} : req'[x] = req[x]
          /\ req'[r] = [req[r] EXCEPT !.mine = found, !.todo = todo, !.pc = "enrich"]
      BY <1>1, <3>1, <3>3
    <3>5. found \subseteq History(req[r].branch)'
      BY <1>1, <2>1, <2>2, <3>4 DEF History, Handlers
    <3>6. HandlerInv(req[r])'
      BY <1>1, <2>1, <3>2, <3>4, <3>5 DEF HandlerInv, Handlers, Unbranched, ReadingStages,
         SyncStages
    <3>7. QED
      BY <2>1, <3>4, <3>6, ProgressKeeps
  <2>5. QED
    BY <2>3, <2>4
<1>3. CASE LatestAnalysis(r) /\ ~ End(r)
  <2>1. /\ req' = [req EXCEPT ![r].doc = Len(analyses), ![r].pc = "resolve"]
        /\ req[r].pc = "latest" /\ req[r].kind = "getAnalysis"
        /\ UNCHANGED <<history, rows, analyses, graphs, unsaved>>
    <3>1. req[r].pc = "latest" /\ UNCHANGED <<history, rows, analyses, graphs, unsaved>>
      BY <1>3 DEF LatestAnalysis
    <3>2. req[r].kind = "getAnalysis"
      BY <1>1, <3>1 DEF HandlerInv
    <3>3. End(r) \/ req' = [req EXCEPT ![r].doc = Len(analyses), ![r].pc = "resolve"]
      BY <1>3 DEF LatestAnalysis
    <3>4. QED
      BY <1>3, <3>1, <3>2, <3>3
  <2>2. [req[r] EXCEPT !.doc = Len(analyses), !.pc = "resolve"] \in Handlers
    <3>1. Len(analyses) \in Nat
      BY <1>1
    <3>2. QED
      BY <1>1, <3>1 DEF Handlers, Stages
  <2>3. /\ req' \in [Requests -> Handlers]
        /\ \A x \in Requests \ {r} : req'[x] = req[x]
        /\ req'[r] = [req[r] EXCEPT !.doc = Len(analyses), !.pc = "resolve"]
    BY <1>1, <2>1, <2>2
  <2>4. HandlerInv(req[r])'
    BY <1>1, <2>1, <2>3 DEF HandlerInv, Handlers, Unbranched, ReadingStages, SyncStages
  <2>5. QED
    BY <2>1, <2>3, <2>4, ProgressKeeps
<1>4. CASE LatestAnalysis(r) /\ End(r)
  BY <1>4, EndKeeps DEF LatestAnalysis
<1>5. CASE CompareHead(r)
  <2> DEFINE stale == req[r].sha # analyses[req[r].doc].sha
  <2>1. /\ req' = [req EXCEPT ![r].stale = stale, ![r].pc = "answer"] /\ req[r].pc = "compare"
        /\ UNCHANGED <<history, rows, analyses, graphs, unsaved>> /\ stale \in BOOLEAN
    BY <1>5 DEF CompareHead
  <2> HIDE DEF stale
  <2>2. [req[r] EXCEPT !.stale = stale, !.pc = "answer"] \in Handlers
    BY <1>1, <2>1 DEF Handlers, Stages
  <2>3. /\ req' \in [Requests -> Handlers]
        /\ \A x \in Requests \ {r} : req'[x] = req[x]
        /\ req'[r] = [req[r] EXCEPT !.stale = stale, !.pc = "answer"]
    BY <1>1, <2>1, <2>2
  <2>4. HandlerInv(req[r])'
    BY <1>1, <2>1, <2>3 DEF HandlerInv, Handlers, Unbranched, ReadingStages, SyncStages
  <2>5. QED
    BY <2>1, <2>3, <2>4, ProgressKeeps
<1>6. QED
  BY <1>2, <1>3, <1>4, <1>5

(* A new document is the last; those the handlers hold keep their places. *)
LEMMA CreateKeeps ==
  ASSUME SyncInv, NEW r \in Requests, CreateAnalysis(r)
  PROVE  SyncInv'
<1> DEFINE d == [status |-> "processing", branch |-> req[r].branch, sha |-> None, commits |-> {}]
           n == Len(analyses) + 1
<1>1. /\ req \in [Requests -> Handlers] /\ req[r] \in Handlers /\ HandlerInv(req[r])
      /\ analyses \in Seq(Documents) /\ req[r].pc = "create"
      /\ req[r].branch \in Branches /\ req[r].kind # "getAnalysis"
  BY NoDocumentYet DEF SyncInv, TypeInv, CreateAnalysis, At
<1>2. /\ analyses' = Append(analyses, d)
      /\ req' = [req EXCEPT ![r].doc = n, ![r].pc = "ensure"]
      /\ UNCHANGED <<history, rows, graphs, unsaved>>
  BY DEF CreateAnalysis
<1>3. d \in Documents /\ d.branch = req[r].branch /\ d.commits = {}
  BY <1>1 DEF Documents
<1> HIDE DEF d
<1>4. /\ analyses' \in Seq(Documents) /\ DOMAIN analyses \subseteq DOMAIN analyses'
      /\ DOMAIN analyses' = 1..n /\ n \in Nat \ {0}
      /\ \A i \in DOMAIN analyses : analyses'[i] = analyses[i]
      /\ \A i \in DOMAIN analyses' : i \in DOMAIN analyses \/ i = n
      /\ analyses'[n] = d
  BY <1>1, <1>2, <1>3
<1> HIDE DEF n
<1>5. [req[r] EXCEPT !.doc = n, !.pc = "ensure"] \in Handlers
  BY <1>1, <1>4 DEF Handlers, Stages
<1>6. /\ req' \in [Requests -> Handlers]
      /\ \A x \in Requests \ {r} : req'[x] = req[x]
      /\ req'[r] = [req[r] EXCEPT !.doc = n, !.pc = "ensure"]
  BY <1>1, <1>2, <1>5
<1>7. /\ req'[r].doc = n /\ req'[r].pc = "ensure" /\ req'[r].branch = req[r].branch
      /\ req'[r].kind = req[r].kind
  BY <1>1, <1>6 DEF Handlers
<1>8. n \in DOMAIN analyses' /\ analyses'[n].branch = req[r].branch
  BY <1>3, <1>4
<1>9. HandlerInv(req[r])'
  BY <1>1, <1>7, <1>8 DEF HandlerInv, Unbranched, ReadingStages, SyncStages
<1>10. TypeInv'
  BY <1>2, <1>4, <1>6 DEF SyncInv, TypeInv, rows
<1>11. ASSUME NEW x \in Requests \ {r}
       PROVE  HandlerInv(req[x])'
  BY <1>2, <1>4, <1>6, <1>10, HandlersKept
<1>12. EvidenceIsOfTheBranch'
  BY <1>2, <1>3, <1>4 DEF SyncInv, EvidenceIsOfTheBranch
<1>13. QED
  BY <1>2, <1>9, <1>10, <1>11, <1>12
     DEF SyncInv, StatsInv, GraphIsOfItsKey, CommitIsOnItsBranch, rows

LEMMA EnrichmentKeeps ==
  ASSUME SyncInv, NEW r \in Requests, EnrichCommitsWithFileChanges(r)
  PROVE  SyncInv'
<1>1. /\ req \in [Requests -> Handlers] /\ req[r] \in Handlers /\ HandlerInv(req[r])
      /\ req[r].pc = "enrich"
      /\ UNCHANGED <<history, rows, analyses, graphs>>
  BY DEF SyncInv, TypeInv, EnrichCommitsWithFileChanges, At
<1>2. req' = [req EXCEPT ![r].todo = {}, ![r].pc = "submit"]
  BY DEF EnrichCommitsWithFileChanges
<1>3. unsaved' \subseteq Commits
  BY <1>1 DEF EnrichCommitsWithFileChanges, HandlerInv, SyncInv, TypeInv
<1>4. [req[r] EXCEPT !.todo = {}, !.pc = "submit"] \in Handlers
  BY <1>1 DEF Handlers, Stages
<1>5. /\ req' \in [Requests -> Handlers]
      /\ \A x \in Requests \ {r} : req'[x] = req[x]
      /\ req'[r] = [req[r] EXCEPT !.todo = {}, !.pc = "submit"]
  BY <1>1, <1>2, <1>4
<1>6. HandlerInv(req[r])'
  BY <1>1, <1>5 DEF HandlerInv, History, Handlers, Unbranched, ReadingStages, SyncStages
<1>7. ASSUME NEW x \in Requests \ {r}
      PROVE  HandlerInv(req[x])'
  BY <1>1, <1>5 DEF SyncInv, HandlerInv, History
<1>8. QED
  BY <1>1, <1>3, <1>5, <1>6, <1>7
     DEF SyncInv, TypeInv, StatsInv, EvidenceIsOfTheBranch, GraphIsOfItsKey, CommitIsOnItsBranch, rows

(* An enrichment lands on the row wherever it is filed by then. *)
LEMMA LandingKeeps ==
  ASSUME SyncInv, NEW c \in Commits, EnrichmentLands(c)
  PROVE  SyncInv'
<1>1. /\ commitRow \in [Commits -> CommitRows]
      /\ commitRow' = [commitRow EXCEPT ![c].stats = "real", ![c].hasStats = TRUE]
      /\ UNCHANGED <<history, branchRow, fileRow, analyses, graphs, req>>
      /\ unsaved' = unsaved \ {c}
  BY DEF EnrichmentLands, SyncInv, TypeInv
<1>2. [commitRow[c] EXCEPT !.stats = "real", !.hasStats = TRUE] \in CommitRows
  BY <1>1 DEF CommitRows
<1>3. /\ commitRow' \in [Commits -> CommitRows]
      /\ \A x \in Commits \ {c} : commitRow'[x] = commitRow[x]
      /\ commitRow'[c].branch = commitRow[c].branch
      /\ commitRow'[c].stats = "real"
  BY <1>1, <1>2 DEF CommitRows
<1>4. StatsInv' /\ CommitIsOnItsBranch'
  BY <1>1, <1>3 DEF SyncInv, StatsInv, CommitIsOnItsBranch
<1>5. TypeInv'
  BY <1>1, <1>3 DEF SyncInv, TypeInv
<1>6. \A r \in Requests : HandlerInv(req[r])'
  BY <1>1 DEF SyncInv, HandlerInv, History
<1>7. QED
  BY <1>1, <1>4, <1>5, <1>6 DEF SyncInv, EvidenceIsOfTheBranch, GraphIsOfItsKey

(* The result goes into the handler's own document, which is about the     *)
(* branch the evidence was read from.                                      *)
LEMMA SubmitKeeps ==
  ASSUME SyncInv, NEW r \in Requests, SubmitAnalysis(r)
  PROVE  SyncInv'
<1>1. /\ req \in [Requests -> Handlers] /\ req[r] \in Handlers /\ HandlerInv(req[r])
      /\ req[r].pc = "submit" /\ req[r].kind # "getAnalysis" /\ req[r].branch \in Branches
      /\ analyses \in Seq(Documents) /\ history \in [Branches -> Histories]
      /\ UNCHANGED <<history, rows, graphs, unsaved>>
  BY DEF SyncInv, TypeInv, SubmitAnalysis, At, HandlerInv, Unbranched, ReadingStages
<1>2. req[r].mine \subseteq History(req[r].branch) /\ req[r].mine \subseteq Commits
  BY <1>1 DEF HandlerInv, History, Histories
<1>3. CASE req[r].doc = 0
  BY <1>1, <1>3, EndKeeps DEF SubmitAnalysis
<1>4. CASE req[r].doc # 0
  <2> DEFINE i == req[r].doc
  <2>1. i \in DOMAIN analyses /\ analyses[i].branch = req[r].branch /\ analyses[i] \in Documents
    BY <1>1, <1>4 DEF HandlerInv
  <2>2. PICK status \in {"completed", "failed"} :
          analyses' = [analyses EXCEPT ![i] =
                         IF status = "failed" THEN [@ EXCEPT !.status = "failed"]
                         ELSE [@ EXCEPT !.status = "completed", !.sha = req[r].sha,
                                        !.commits = req[r].mine]]
    BY <1>4 DEF SubmitAnalysis
  <2> DEFINE d == IF status = "failed" THEN [analyses[i] EXCEPT !.status = "failed"]
                  ELSE [analyses[i] EXCEPT !.status = "completed", !.sha = req[r].sha,
                                           !.commits = req[r].mine]
  <2>3. /\ d \in Documents /\ d.branch = req[r].branch
        /\ d.commits \in {analyses[i].commits, req[r].mine}
    BY <1>1, <1>2, <2>1 DEF Documents, Handlers
  <2>4. analyses' = [analyses EXCEPT ![i] = d]
    BY <2>2
  <2> HIDE DEF d, i
  <2>5. /\ analyses' \in Seq(Documents) /\ DOMAIN analyses' = DOMAIN analyses
        /\ \A j \in DOMAIN analyses \ {i} : analyses'[j] = analyses[j]
        /\ analyses'[i] = d
    BY <1>1, <2>1, <2>3, <2>4
  <2>6. d.commits \subseteq history[d.branch].all
    BY <1>2, <2>1, <2>3 DEF History, SyncInv, EvidenceIsOfTheBranch
  <2>7. EvidenceIsOfTheBranch'
    BY <1>1, <2>5, <2>6 DEF SyncInv, EvidenceIsOfTheBranch
  <2>8. /\ req' \in [Requests -> Handlers] /\ req'[r] = Idle
        /\ \A x \in Requests \ {r} : req'[x] = req[x]
    BY <1>1, IdleHandler DEF SubmitAnalysis, End
  <2>9. HandlerInv(req[r])'
    BY <2>8 DEF Idle, None, HandlerInv, Unbranched
  <2>10. TypeInv'
    BY <1>1, <2>5, <2>8 DEF SyncInv, TypeInv, rows
  <2>11. \A j \in DOMAIN analyses : j \in DOMAIN analyses' /\ analyses'[j].branch = analyses[j].branch
    BY <2>1, <2>3, <2>5
  <2>12. ASSUME NEW x \in Requests \ {r}
         PROVE  HandlerInv(req[x])'
    BY <1>1, <2>8, <2>10, <2>11, HandlersKept
  <2>13. QED
    BY <1>1, <2>7, <2>9, <2>10, <2>12
       DEF SyncInv, StatsInv, GraphIsOfItsKey, CommitIsOnItsBranch, rows
<1>5. QED
  BY <1>3, <1>4

LEMMA RestartKeeps ==
  ASSUME SyncInv, Restart
  PROVE  SyncInv'
<1>1. /\ req' = [r \in Requests |-> Idle] /\ graphs' = {} /\ unsaved' = {}
      /\ UNCHANGED <<history, rows, analyses>>
  BY DEF Restart
<1>2. req' \in [Requests -> Handlers] /\ \A r \in Requests : HandlerInv(req[r])'
  BY <1>1, IdleHandler DEF Idle, None, HandlerInv, Unbranched
<1>3. QED
  BY <1>1, <1>2
     DEF SyncInv, TypeInv, StatsInv, EvidenceIsOfTheBranch, GraphIsOfItsKey, CommitIsOnItsBranch, rows

-----------------------------------------------------------------------------
(* The invariant holds. *)

LEMMA Initially == Init => SyncInv
<1> SUFFICES ASSUME Init PROVE SyncInv
  OBVIOUS
<1>1. req \in [Requests -> Handlers] /\ \A r \in Requests : HandlerInv(req[r])
  BY IdleHandler DEF Init
<1>2. TypeInv
  BY <1>1 DEF Init, TypeInv, Histories, CommitRows, NoCommitRow, Documents
<1>3. QED
  BY <1>1, <1>2 DEF Init, SyncInv, StatsInv, NoCommitRow, EvidenceIsOfTheBranch,
     GraphIsOfItsKey,
                    CommitIsOnItsBranch

LEMMA StepKeeps ==
  ASSUME SyncInv, NEW r \in Requests, Step(r)
  PROVE  SyncInv'
<1>1. CASE FindBranch(r) \/ ResolveOrSyncDefaultBranch(r) \/ ListBranches(r) \/ SaveBranch(r)
  BY <1>1, BranchesKeep, SaveBranchKeeps
<1>2. CASE ListCommits(r) \/ EnrichPage(r) \/ SaveCommit(r)
  BY <1>2, CommitsListed, SaveCommitKeeps
<1>3. CASE \/ FindFiles(r) \/ FetchTree(r) \/ SaveFile(r) \/ DashboardActivity(r)
           \/ LookUpGraph(r) \/ GetFileContent(r) \/ AnswerAnalysis(r) \/ GitHubFails(r)
  BY <1>3, FilesKeep
<1>4. CASE ParseFiles(r) \/ CreateAnalysis(r) \/ EnrichCommitsWithFileChanges(r) \/ SubmitAnalysis(r)
  BY <1>4, ParseKeeps, CreateKeeps, EnrichmentKeeps, SubmitKeeps
<1>5. CASE EnsureCommitsSynced(r) \/ LatestAnalysis(r) \/ CompareHead(r)
  BY <1>5, EnsureKeeps
<1>6. QED
  BY <1>1, <1>2, <1>3, <1>4, <1>5 DEF Step

LEMMA Stuttering ==
  ASSUME SyncInv, UNCHANGED vars
  PROVE  SyncInv'
<1>1. \A r \in Requests : HandlerInv(req[r])'
  BY DEF SyncInv, HandlerInv, History, vars
<1>2. QED
  BY <1>1 DEF SyncInv, TypeInv, StatsInv, EvidenceIsOfTheBranch, GraphIsOfItsKey,
     CommitIsOnItsBranch,
              vars, rows

LEMMA Invariance == Spec => []SyncInv
<1>1. SyncInv /\ [Next]_vars => SyncInv'
  BY PushKeeps, FastForwardKeeps, BeginKeeps, StepKeeps, LandingKeeps, RestartKeeps,
     Stuttering DEF Next
<1>2. QED
  BY Initially, <1>1, PTL DEF Spec

(* RepositorySync keeps the types of its collections, cache and handlers.  *)
THEOREM SyncTypes == Spec => []TypeInv
BY Invariance, PTL DEF SyncInv

(* The evidence an analysis was completed with is history of the branch    *)
(* the analysis is about (getProjectEvolution, _runAnalysis).              *)
THEOREM EvidenceStaysOnItsBranch == Spec => []EvidenceIsOfTheBranch
BY Invariance, PTL DEF SyncInv

(* A cached dependency graph was parsed from the commit of its key         *)
(* (getDependencyGraph).                                                   *)
THEOREM GraphsMatchTheirKeys == Spec => []GraphIsOfItsKey
BY Invariance, PTL DEF SyncInv

(* A commit is stored under a branch whose history holds it, whoever wrote *)
(* it last (getCommits, ensureCommitsSynced, getDashboard).                *)
THEOREM CommitsStayOnTheirBranch == Spec => []CommitIsOnItsBranch
BY Invariance, PTL DEF SyncInv

-----------------------------------------------------------------------------
(* What may take true statistics away from a row. *)

LEMMA OnlyWritesOfAPage ==
  ASSUME SyncInv, NEW r \in Requests, SaveCommit(r), NEW c \in Commits,
         commitRow[c].stats = "real", commitRow'[c].stats # "real"
  PROVE  \E v \in {"blank", "zero"} : <<c, v>> \in req[r].todo /\ <<c, v>> \notin req'[r].todo
<1>1. /\ req \in [Requests -> Handlers] /\ req[r] \in Handlers /\ HandlerInv(req[r])
      /\ history \in [Branches -> Histories] /\ commitRow \in [Commits -> CommitRows] /\ StatsInv
      /\ req[r].branch \in Branches
      /\ req[r].todo \subseteq History(req[r].branch) \X Values
  BY DEF SyncInv, TypeInv, SaveCommit, HandlerInv, Unbranched, At
<1>2. History(req[r].branch) \subseteq Commits
  BY <1>1 DEF History, Histories
<1>3. PICK p \in req[r].todo :
        /\ commitRow' = [commitRow EXCEPT ![p[1]] = Written(@, req[r].branch, p[2])]
        /\ req' = [req EXCEPT ![r].todo = @ \ {p}]
  BY DEF SaveCommit
<1>4. p = <<p[1], p[2]>> /\ p[1] \in Commits /\ p[2] \in Values
  BY <1>1, <1>2
<1>5. c = p[1] /\ commitRow'[c] = Written(commitRow[c], req[r].branch, p[2])
  <2> DEFINE i == p[1]
             w == Written(commitRow[i], req[r].branch, p[2])
  <2>1. commitRow' = [commitRow EXCEPT ![i] = w] /\ i \in Commits
    BY <1>3, <1>4
  <2> HIDE DEF i, w
  <2>2. c = i /\ commitRow'[i] = w
    BY <1>1, <2>1
  <2>3. QED
    BY <2>2 DEF i, w
<1>6. p[2] \in {"blank", "zero"}
  BY <1>1, <1>4, <1>5, RowWritten DEF StatsInv
<1>7. req'[r].todo = req[r].todo \ {p}
  BY <1>1, <1>3 DEF Handlers
<1>8. QED
  BY <1>3, <1>4, <1>5, <1>6, <1>7

(* A page of Source Control never undoes what another request stored while *)
(* it was being fetched (getCommits, enrichCommitsWithFileChanges).        *)
THEOREM StatsSurviveStaleReads == Spec => SourceControlKeepsStats
<1> DEFINE Kept == \A c \in Commits :
                     commitRow[c].stats = "real" /\ commitRow'[c].stats # "real" =>
                       \E r \in Requests, v \in {"blank", "zero"} :
                         <<c, v>> \in req[r].todo /\ <<c, v>> \notin req'[r].todo
<1>1. ASSUME SyncInv, Next
      PROVE  Kept
  <2>1. CASE UNCHANGED commitRow
    BY <2>1
  <2>2. ASSUME NEW r \in Requests, Step(r)
        PROVE  UNCHANGED commitRow \/ SaveCommit(r)
    BY <2>2 DEF Step, rows, FindBranch, ResolveOrSyncDefaultBranch, ListBranches,
       SaveBranch, ListCommits,
                EnrichPage, FindFiles, FetchTree, SaveFile, DashboardActivity, GetFileContent, LookUpGraph,
                ParseFiles, CreateAnalysis, EnsureCommitsSynced, EnrichCommitsWithFileChanges,
                SubmitAnalysis, LatestAnalysis, CompareHead, AnswerAnalysis, GitHubFails
  <2>3. CASE \E r \in Requests : SaveCommit(r)
    BY <1>1, <2>3, OnlyWritesOfAPage
  <2>4. ASSUME NEW c \in Commits, EnrichmentLands(c)
        PROVE  Kept
    <3>1. /\ commitRow' = [commitRow EXCEPT ![c].stats = "real", ![c].hasStats = TRUE]
          /\ commitRow \in [Commits -> CommitRows]
      BY <1>1, <2>4 DEF EnrichmentLands, SyncInv, TypeInv
    <3>2. \A x \in Commits : commitRow'[x].stats \in {commitRow[x].stats, "real"}
      BY <3>1 DEF CommitRows
    <3>3. QED
      BY <3>2
  <2>5. QED
    BY <1>1, <2>1, <2>2, <2>3, <2>4 DEF Next, rows, Push, FastForward, Begin, Restart
<1>2. ASSUME SyncInv, [Next]_vars
      PROVE  [Kept]_vars
  BY <1>1, <1>2
<1>3. QED
  BY Invariance, <1>1, <1>2, PTL DEF Spec, SourceControlKeepsStats
==============================================================================
