CONSTANTS
  Names = {a, b}
  MaxProcs = 3
  MaxInterrupts = 2
  CanFork = TRUE
SPECIFICATION FairSupSpec
INVARIANTS
  SupTypeOK
  NormalExitMeansStopped
  SurvivorsWereForced
  ReverseStartupOrder
PROPERTY CloseTerminates
CHECK_DEADLOCK FALSE
