\* Three handshakes with one tunnel.
CONSTANT Handshakes = 3
SPECIFICATION Spec
INVARIANTS
  OnlyInstalledUp
  TimerSparesPeer
  OneLatePacket
PROPERTIES
  IsTunnel
\* The tunnel may be closed, or not used any more.
CHECK_DEADLOCK FALSE
