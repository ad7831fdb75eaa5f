\* Each of the units on an instance of its own.
SPECIFICATION ConsoleSpec
CONSTANTS
  None = None
  \* DependencyGraph
  Files <- Branch
  Sources <- Contents
  \* Workspaces
  WorkspaceNames = {"w1", "w2"}
  AccountRepos = {"r1"}
  MaxLists = 1
  MaxSyncs = 1
  MaxPatches = 1
  \* RateLimiter
  Keys = {"k1", "k2"}
  windowMs = 2
  max = 2
  ClockEnd = 5
  \* Indexing
  Attempts = {1, 2}
  CommitOf <- CommitOfAttempt
  Texts <- TextsOf
  batch_size = 2
  qdrant_upsert_batch_size = 2
  MaxTries = 2
  \* Conversation: an odd bound, which cuts a turn in two
  Turns = {1, 2, 3}
  conversation_history_max_messages = 3
  MaxFailures = 1
  \* Session
  Tabs = {t1, t2}
  Flows = {f1, f2}
  \* DependencyPanel
  Graphs <- Answers
  Dir <- DirOf
  \* ActivityAnalytics
  Universe <- Commits
  Insights <- InsightsOf
  PageStart = 172
  PageEnd = 173
  \* RepositoryPages
  PageKinds = {"source-control", "software-evolution", "command-center", "architecture"}
  PageRepos = {"r1", "r2"}
  PageBranches = {"main", "dev"}
  Default = "main"
  Paths = {"p1", "p2"}
  PreviewOn = {"command-center"}
  \* Copilot
  MaxRequests = 3
  MaxTokens = 2
  Statuses = {0, 200, 429, 500, 503, 504}
INVARIANTS
  CyclesAreReal
  EveryTangleReported
  WindowNeverExceeded
  EveryTextHasItsVector
  HistoryKeepsTheNewest
  StayIsOfItsFlow
  EveryCommitInOneBucket
  DirectoryCoversItsFiles
  ShownIsOfSelection
  EveryQuestionHasOneReply
PROPERTIES
  NeverOrphaned
  ChosenCycleIsDrawn
  FinishedRepliesStay
\* A search ends, and a clock reaches its bound.
CHECK_DEADLOCK FALSE
