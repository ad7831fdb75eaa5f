\* Two attempts, two stages, heartbeats, one process, no orderly shutdown.
SPECIFICATION Spec
CONSTANTS
  Jobs = {a, b}
  NoJob = NoJob
  NumStages = 2
  Stamps = {0, 1, 2, 3}
  MaxStarts = 1
  MayShutDown = FALSE
SYMMETRY Symmetry
VIEW WithoutVectorsAndTold
INVARIANT TypeOK
PROPERTIES
  LedgerSteps
  InFlightNotDisplaced
  ProgressIsMonotone
  LivingNotReconciled
\* every attempt is used up and the service is idle
CHECK_DEADLOCK FALSE
