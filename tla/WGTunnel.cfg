\* Three endpoints one after another; the sleeps of 1, 2 and 4 ticks make polls
\* at 0, 1, 3, 7 and 11, the last of them past the deadline.
CONSTANTS
  Calls = 3
  Timeout = 9
  PollStart = 1
  PollMax = 3
SPECIFICATION WGSpec
INVARIANTS
  PollIsInTime
PROPERTIES
  IsTunnel
\* The tunnel may be closed, or not used any more.
CHECK_DEADLOCK FALSE
