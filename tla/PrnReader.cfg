SPECIFICATION ReadSpec
CONSTANTS
  Alphabet <- MCAlphabet
  Sources <- MCSources
  StringCap = 3
  OutSlack = 40
  MCLength = 4
  MCLong = 6
INVARIANTS AcceptsWellFormed EofErrorNamesOpening Idempotent IndentShowsNesting
PROPERTIES KeepsTokens
CHECK_DEADLOCK FALSE
