CONSTANTS
  MaxSteps = 2
  MaxSignals = 2
SPECIFICATION RunSpec
INVARIANTS
  RunTypeOK
  SuccessIsComplete
  LostCaptureIsReported
  RestoreAfterTeardown
  OutputsEndPrivate
PROPERTIES
  KeepsLifecycle
  InterruptReachesRestore
CHECK_DEADLOCK FALSE
