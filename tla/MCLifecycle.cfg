CONSTANT MaxSignals = 3
SPECIFICATION Spec
INVARIANTS
  TypeOK
  PostRunExactlyOnce
  RefusedRunLeavesOwnership
  InterruptedRunFails
  PostFailureKeepsPrimary
  NormalReturnRestoresHandlers
CHECK_DEADLOCK FALSE
