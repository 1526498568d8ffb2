SPECIFICATION TimersSpec
CONSTANTS
  Modulus = 64
  Band = 2
  Starts <- AllStarts
  Timeout = 12
  Base = 1
  MaxRetries = 2
  Horizon = 20
INVARIANTS NeverEarly
CHECK_DEADLOCK FALSE
