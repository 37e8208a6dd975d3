CONSTANTS
  MaxInterrupts = 2
SPECIFICATION Spec
INVARIANTS
  LinkReleased
  SuccessIsReal
  StoppedBeforeClose
PROPERTIES
  ComesToClose
CHECK_DEADLOCK FALSE
