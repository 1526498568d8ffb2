SPECIFICATION FairSpec
CONSTANTS
  Slots = 2
  Size = 6
  Rounds = 2
  Chunks <- MCChunks
INVARIANTS PrefixIsMaximal PacketIsRecorded PassesReachTheFixpoint
PROPERTIES ImplementsByteStream Completes
