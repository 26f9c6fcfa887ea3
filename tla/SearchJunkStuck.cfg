\* Two attempts: what follows one that fails.
CONSTANTS
  Sample = 1
  Targets = 2
  Picks = 0
  Rounds = 2
  Scores = {0, 1, 2}
  Threshold = 2
SPECIFICATION SearchFairSpec
PROPERTIES
  FailureMovesOn
CHECK_DEADLOCK FALSE
