SPECIFICATION TimersFairSpec
CONSTANTS
  Modulus = 64
  Band = 2
  Starts <- SafeStarts
  Timeout = 12
  Base = 1
  MaxRetries = 2
  Horizon = 20
INVARIANTS NeverEarly DeadlineIsSeen ProbeIsSeen
PROPERTIES ProbesAreSpaced Ends
CHECK_DEADLOCK FALSE
