CONSTANTS
  Branches = {main, dev}
  DefaultBranch = main
  Commits = {c1, c2}
  Paths = {p1}
  Requests = {"r1", "r2"}
  MaxAnalyses = 2
  Kinds <- AllKinds
  Casts <- SyncCasts
SPECIFICATION MCSpec
INVARIANTS EvidenceIsOfTheBranch GraphIsOfItsKey CommitIsOnItsBranch
PROPERTY SourceControlKeepsStats
