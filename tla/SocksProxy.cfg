\* Two clients of a nested tunnel.
CONSTANTS
  Clients = {c1, c2}
  Nested = TRUE
  Chunks = 1
SPECIFICATION SocksSpec
INVARIANTS
  NothingIsCutOff
PROPERTIES
  InterruptEnds
  TargetEndsSession
\* The command is over in the end.
CHECK_DEADLOCK FALSE
