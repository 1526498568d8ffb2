SPECIFICATION Spec
CONSTANTS
  Cap = 3
  FrameCap = 2
  MaxPn = 6
INVARIANTS AckedIsReceived NothingForgottenBelowCap FrameRoundTrip
PROPERTIES DropsOnlyLowest
