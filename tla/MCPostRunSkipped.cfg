CONSTANT MaxSignals = 1
SPECIFICATION Spec
INVARIANT PostRunAfterAnyAttempt
CHECK_DEADLOCK FALSE
