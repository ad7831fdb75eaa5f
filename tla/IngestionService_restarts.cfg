\* Two attempts across an orderly shutdown and a restart at any point.
SPECIFICATION Spec
CONSTANTS
  Jobs = {a, b}
  NoJob = NoJob
  NumStages = 1
  Stamps = {0, 1, 2, 3}
  MaxStarts = 2
  MayShutDown = TRUE
SYMMETRY Symmetry
VIEW WithoutVectors
INVARIANT TerminalKeptUntilTold
PROPERTIES
  NoTakeBack
  ReadyIsFinal
  MissingOnlyBySweep
CHECK_DEADLOCK FALSE
