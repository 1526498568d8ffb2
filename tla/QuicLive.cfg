SPECIFICATION LiveSpec
CONSTANTS
  Peers = {"good"}
  HsFrames <- MCHsFrames
  HsCap = 4
  RespFrames <- MCRespFrames
  RespLen = 2
  H3Ends <- MCH3Ends
  Coalesce = TRUE
  EarlyData = FALSE
  AmpFactor = 0
  TinyTable = TRUE
  MaxRetries = 4
  MaxLosses = 2
  MaxDups = 1
  MaxInFlight = 5
  MayClose = FALSE
  MayRefuse = FALSE
  Deadline = FALSE
  Calm = TRUE
INVARIANTS AckedIsHeld
PROPERTIES Completes
CHECK_DEADLOCK FALSE
