\* Two runs, up to four devices, two tunnels to try.
CONSTANTS
  Runs = 2
  MaxDevices = 4
  Candidates = 2
SPECIFICATION Spec
INVARIANTS
  SavedWorks
  AccountKept
PROPERTIES
  DamagedFileStays
  RunEnds
CHECK_DEADLOCK FALSE
