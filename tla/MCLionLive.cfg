SPECIFICATION LiveSpec
CONSTANTS
  b1 = b1
  b2 = b2
  b3 = b3
  N = 2
  Tids <- MCTids
  BlockOf <- MCBlockOf
  Pages <- MCPages
  NoPage = NoPage
  NoTid = NoTid
  PageCap = 1
  InlineCap = 1
  FlatLeaves = 1
  Readers = {r1}
  DirLeaf = DirLeaf
  Modes = {"map"}
  Froms = {0}
  Births = 2
PROPERTIES
  CountReturns
  VacuumEnds
CHECK_DEADLOCK FALSE
