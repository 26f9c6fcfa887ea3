\* Three rounds over two targets for a search, so that a best round can come
\* before and after another; for scan phase 1 over one address, two targets, one
\* pick; every combination of flags.
CONSTANTS
  Sample = 1
  Targets = 2
  Picks = 1
  Rounds = 3
  Scores = {0, 1, 2}
  Threshold = 2
SPECIFICATION Spec
INVARIANTS
  BestIsReported
  ReportSurvives
  StatusTellsOfBestAndConf
  WorkIsJoined
PROPERTIES
  QuitEnds
  EndsByItself
\* A command ends.
CHECK_DEADLOCK FALSE
