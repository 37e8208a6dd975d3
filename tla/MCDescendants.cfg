CONSTANTS
  Names = {a}
  MaxProcs = 1
  MaxInterrupts = 0
  CanFork = TRUE
SPECIFICATION SupSpec
INVARIANT DescendantsTornDown
CHECK_DEADLOCK FALSE
