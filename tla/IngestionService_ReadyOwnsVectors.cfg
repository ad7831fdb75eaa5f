SPECIFICATION Spec
CONSTANTS
  Jobs = {a, b}
  NoJob = NoJob
  NumStages = 1
  Stamps = {0, 1, 2, 3}
  MaxStarts = 1
  MayShutDown = FALSE
INVARIANT ReadyOwnsVectors
CHECK_DEADLOCK FALSE
