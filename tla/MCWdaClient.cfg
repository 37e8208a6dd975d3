CONSTANTS
  Apps = {"A", "B"}
  Elements = {"a1", "a2", "b1"}
  NameOf <- Label
  AppOf <- Owner
  Looks <- Appearances
  Frame <- Window
  Scale = 4
  MaxSteps = 3
  MaxChanges = 2
SPECIFICATION Spec
INVARIANTS
  TouchIsExact
  TextFollowsTap
  TouchesOwnApp
CHECK_DEADLOCK FALSE
