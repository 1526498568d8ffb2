SPECIFICATION LiveSpec
CONSTANTS
  Peers = {"good"}
  HsFrames <- MCHsFrames
  HsCap = 4
  RespFrames <- MCRespFrames
  RespLen = 2
  H3Ends <- MCH3Ends
  Coalesce = FALSE
  EarlyData = FALSE
  AmpFactor = 2
  TinyTable = FALSE
  MaxRetries = 4
  MaxLosses = 2
  MaxDups = 0
  MaxInFlight = 5
  MayClose = FALSE
  MayRefuse = FALSE
  Deadline = FALSE
  Calm = TRUE
PROPERTIES Completes
CHECK_DEADLOCK FALSE
