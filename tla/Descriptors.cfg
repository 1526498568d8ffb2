SPECIFICATION Spec
CONSTANTS
  Fds <- MCFds
  SelectLimit = 2
  Content <- MCContent
  Newline <- MCNewline
  IoBufCap = 2
  IoMaxHandles = 1
  Generations = 3
  MaxSessions = 3
INVARIANTS LinesInOrder TouchesOnlyItsOwn NoDescriptorLost
