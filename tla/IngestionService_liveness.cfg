\* One attempt, with restarts: what must eventually happen.
SPECIFICATION FairSpec
CONSTANTS
  Jobs = {a}
  NoJob = NoJob
  NumStages = 2
  Stamps = {0, 1, 2}
  MaxStarts = 3
  MayShutDown = FALSE
PROPERTIES
  OrphansAreSettled
  StagedIsFlushed
  ImplementsLedger
CHECK_DEADLOCK FALSE
