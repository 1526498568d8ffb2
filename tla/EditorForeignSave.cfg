SPECIFICATION EditorSpec
CONSTANTS
  a = a
  b = b
  Paths = {a, b}
  Markdown = {}
  Launched = a
  Chars <- MCChars
  Disks <- MCTwoTexts
  Keystrokes <- MCKeystrokes
  Faults = {}
  UndoMax = 2
  MaxText = 3
  Clicks = {1}
  MaxEvents = 6
  IndentWidth = 1
  StringCap = 3
  OutSlack = 40
PROPERTIES SavesItsOwnDocument
CHECK_DEADLOCK FALSE
