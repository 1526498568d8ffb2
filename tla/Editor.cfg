SPECIFICATION EditorSpec
CONSTANTS
  a = a
  b = b
  Paths = {a, b}
  Markdown = {b}
  Launched = a
  Chars <- MCChars
  Disks <- MCDisks
  Keystrokes <- MCKeystrokes
  Faults = {"load", "raw", "open", "write"}
  UndoMax = 2
  MaxText = 4
  Clicks = {1}
  MaxEvents = 5
  IndentWidth = 1
  StringCap = 3
  OutSlack = 40
INVARIANTS HistoryOfOneDocument DumpNeverSaved IndentAgreesWithFmt
PROPERTIES TimelineKept StepsOverCharacters
CHECK_DEADLOCK FALSE
