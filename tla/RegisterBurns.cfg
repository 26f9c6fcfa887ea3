\* A second run over an account that is complete.
CONSTANTS
  Runs = 2
  MaxDevices = 6
  Candidates = 1
SPECIFICATION Spec
INVARIANTS
  RotationBurnsNothing
CHECK_DEADLOCK FALSE
