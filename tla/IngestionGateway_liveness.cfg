\* One request, whose attempt may end, be forgotten or lose its binding.
SPECIFICATION FairSpec
CONSTANTS
  MaxJobs = 1
  MaxCallbacks = 2
  Requests = {r1}
  Commits = {c1}
  NoCommit = NoCommit
PROPERTIES
  ProcessingEnds
CHECK_DEADLOCK FALSE
