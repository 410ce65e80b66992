SPECIFICATION PostingSpec
CONSTANTS
  b1 = b1
  b2 = b2
  b3 = b3
  b4 = b4
  Tids <- MCTids
  BlockOf <- MCBlockOf
  Pages <- MCPages
  NoPage = NoPage
  NoTid = NoTid
  PageCap = 1
  InlineCap = 1
  FlatLeaves = 2
  Readers = {}
SYMMETRY PageSymmetry
INVARIANT SeparatorsAscend
CHECK_DEADLOCK FALSE
