SPECIFICATION MCSpec
CONSTANTS
  b1 = b1
  b2 = b2
  b3 = b3
  N = 2
  Tids <- MCTids
  BlockOf <- MCBlockOf
  Pages <- MCPages
  NoPage = NoPage
  NoTid = NoTid
  PageCap = 1
  InlineCap = 1
  FlatLeaves = 1
  Readers = {r1}
  DirLeaf = DirLeaf
  Modes = {"map", "recheck"}
  Froms = {0, 2}
  Births = 4
  FewBirths = 3
  WalModes = {"rmgr", "generic"}
  VisitCap = 2
SYMMETRY PageSymmetry
INVARIANTS
  CountExact
  MapVouches
  NoDanglingTid
PROPERTIES
  NoReuseUnderReader
  CountsAtomically
CHECK_DEADLOCK FALSE
