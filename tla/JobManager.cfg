\* Four jobs for three slots and two permits.
SPECIFICATION FairSpec
CONSTANTS
  Jobs = {a, b, c, d}
  MaxAdmitted = 3
  MaxConcurrent = 2
INVARIANTS
  PermitsConserved
  SlotsAccounted
  NothingOutlivesShutdown
  NoJobVanishes
PROPERTIES
  ShutdownEnds
  WaitersAreServed
CHECK_DEADLOCK FALSE
