\* Two tunnels racing over three targets.
CONSTANTS
  Workers = 2
  N = 3
  Scans <- TwoKinds
  MetaAddrs = {m1, m2}
  NoAddr = NoAddr
SPECIFICATION Spec
INVARIANTS
  ClosedAfterUse
  ReportMatchesFeed
  FirstPassingPort
PROPERTIES
  PromiseKept
  OneMetaAddress
  ScanEnds
\* A scan that is over has nothing left to do.
CHECK_DEADLOCK FALSE
