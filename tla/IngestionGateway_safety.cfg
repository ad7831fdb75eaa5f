\* Two requests and the attempts they submit; one commit.
SPECIFICATION Spec
CONSTANTS
  MaxJobs = 2
  MaxCallbacks = 2
  Requests = {r1, r2}
  Commits = {c1}
  NoCommit = NoCommit
SYMMETRY Symmetry
INVARIANTS
  TypeOK
  DeliveredIsApplied
PROPERTIES
  OwnershipOnlyGrows
  FinalStaysFinal
CHECK_DEADLOCK FALSE
