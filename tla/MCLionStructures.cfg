SPECIFICATION StructuresSpec
CONSTANTS
  b1 = b1
  b2 = b2
  b3 = b3
  b4 = b4
  Tids <- MCTids
  BlockOf <- MCBlockOf
  Pages <- MCPages
  NoPage = NoPage
  NoTid = NoTid
  PageCap = 1
  InlineCap = 1
  FlatLeaves = 2
  Readers = {}
  NoBlock = NoBlock
  ReadBlocks = {b1, b2, b3}
  PinLimit = 3
  GSize = 4
  PendingLimit = 2
  PSize = 2
  Positions = 8
SYMMETRY BlockSymmetry
INVARIANTS
  ChainSorted
  ChainOwned
  RoutesToOwner
  SeparatorsAscend
  RingConsistent
  ReadsItsBlock
PROPERTIES
  ShapeKeepsMembers
  GivenAreHeld
CHECK_DEADLOCK FALSE
