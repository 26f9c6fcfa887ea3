\* Two tunnels on three addresses: an address waits while two are swept, and
\* sweeps of two ports leave room for a cut between them.
CONSTANTS
  Workers = 2
  N = 3
  p1 = p1
  p2 = p2
  p3 = p3
  PrimaryPorts <- TwoPorts
  ExtendedPorts <- OnePort
SPECIFICATION Spec
PROPERTIES
  ChoiceKept
  PhaseOneEnds
\* Nothing is left to do once the ports are known.
CHECK_DEADLOCK FALSE
