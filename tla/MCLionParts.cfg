SPECIFICATION PartsSpec
CONSTANTS
  NoKey = NoKey
  Blocks = {1, 2, 3, 4}
  Size = 8
  NoBlock = NoBlock
  ListLen = 12
  Warm = 2
  Dormant = 3
  LookAhead = 4
  Tids <- MCTids
  KeyOf <- MCKeyOf
  NKeys = 2
  Setups <- MCSetups
  RowSets <- MCRowSets
  Births = 1
  A = A
  B = B
  Rels <- MCRels
  HeapBlocks = {0, 1}
  BusyPages <- MCBusy
  Lps <- MCLps
  Xids <- MCXids
  MaxEntries = 1
INVARIANTS
  FindsTracked
  PinsWithinBudget
  AnswersExact
PROPERTIES
  EachInOrder
  MergesAtomically
CHECK_DEADLOCK FALSE
