SPECIFICATION ReadSpec
CONSTANTS
  Alphabet <- MCAlphabet
  Sources <- MCNested
  StringCap = 3
  OutSlack = 4
  MCLength = 5
  MCLong = 7
PROPERTIES KeepsTokens
CHECK_DEADLOCK FALSE
