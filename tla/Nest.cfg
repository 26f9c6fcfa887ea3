\* Two workers; a device may hold the fallback address, another, or none, and
\* both families and both kinds of config are among the options.
CONSTANTS
  Workers = {w1, w2}
  Addresses = {fallback, other}
  Fallback = fallback
  Moved = moved
  Absent = absent
SPECIFICATION Spec
INVARIANTS
  OneDeviceEach
  AddressesDiffer
  OuterOutlivesInner
CHECK_DEADLOCK FALSE
