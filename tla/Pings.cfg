\* Five echoes, the least that the flags allow (minDurabilityPings), any
\* number of duplicate and foreign packets, two of them unread at a time; two
\* latencies at a time, of the same host and of two, one packet unread in each.
CONSTANTS
  Count = 5
  TornTailFails = 3
  Room = 2
  Pingers = {p1, p2}
  Hosts = {h1, h2}
  Stranger = Stranger
  PingProbes = 2
  Backlog = 1
SPECIFICATION Spec
INVARIANTS
  LossIsOneBurst
  TornNeedsTwoSilentTails
  CutIsReported
  OwnEcho
  NoReplyMissed
PROPERTIES
  PingsEnd
\* A check is over once it has its verdict, a latency once it is known.
CHECK_DEADLOCK FALSE
