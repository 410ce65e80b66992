SPECIFICATION FairSpec
CONSTANTS
  NoBlock = NoBlock
  ReadBlocks = {b1, b2, b3}
  PinLimit = 2
  GSize = 2
  PendingLimit = 1
  PSize = 1
  Positions = 4
INVARIANTS
  PinsCounted
PROPERTIES
  ReadEnds
CHECK_DEADLOCK FALSE
