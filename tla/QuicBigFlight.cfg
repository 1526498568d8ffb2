SPECIFICATION Spec
CONSTANTS
  Peers = {"good"}
  HsFrames <- MCHsFrames
  HsCap = 3
  RespFrames <- MCRespFrames
  RespLen = 2
  H3Ends <- MCH3Ends
  Coalesce = FALSE
  EarlyData = FALSE
  AmpFactor = 0
  TinyTable = FALSE
  MaxRetries = 0
  MaxLosses = 0
  MaxDups = 0
  MaxInFlight = 2
  MayClose = FALSE
  MayRefuse = FALSE
  Deadline = FALSE
  Calm = FALSE
INVARIANTS AckedIsHeld
CHECK_DEADLOCK FALSE
