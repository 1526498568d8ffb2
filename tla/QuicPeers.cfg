SPECIFICATION Spec
CONSTANTS
  Peers = {"good", "closes", "badStatus", "truncated", "badHello", "badAlpn", "badCert", "badVerify", "badFinished", "retry", "oversized"}
  HsFrames <- MCOneHs
  HsCap = 4
  RespFrames <- MCRespFrames
  RespLen = 2
  H3Ends <- MCH3Ends
  Coalesce = FALSE
  EarlyData = FALSE
  AmpFactor = 0
  TinyTable = FALSE
  MaxRetries = 0
  MaxLosses = 0
  MaxDups = 0
  MaxInFlight = 2
  MayClose = TRUE
  MayRefuse = TRUE
  Deadline = TRUE
  Calm = FALSE
INVARIANTS RefusedMeansSilent TooBigFailsClosed
PROPERTIES ImplementsHttpGet
CHECK_DEADLOCK FALSE
