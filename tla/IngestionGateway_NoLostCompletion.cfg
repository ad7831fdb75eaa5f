\* Two requests and their attempts.
SPECIFICATION Spec
CONSTANTS
  MaxJobs = 2
  MaxCallbacks = 2
  Requests = {r1, r2}
  Commits = {c1}
  NoCommit = NoCommit
SYMMETRY Symmetry
INVARIANTS
  NoLostCompletion
CHECK_DEADLOCK FALSE
