SPECIFICATION ReadSpec
CONSTANTS
  Alphabet <- MCAlphabet
  Sources <- MCStringSources
  StringCap = 3
  OutSlack = 40
  MCLength = 5
  MCLong = 1
PROPERTIES KeepsTokens
CHECK_DEADLOCK FALSE
