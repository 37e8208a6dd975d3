CONSTANTS
  Names = {a}
  MaxProcs = 1
  MaxInterrupts = 1
  CanFork = FALSE
SPECIFICATION SupSpec
INVARIANT EveryOwnedProcessStopped
CHECK_DEADLOCK FALSE
