SPECIFICATION WalkSpec
CONSTANTS
  s1 = s1
  s2 = s2
  w = w
  Walker = w
  Beside = 0
  WalkStarts = {}
  Uppers = {}
  Rechecks = {}
  StaysLanded = TRUE
  NPages = 10
  Keys = {1, 2, 3, 4, 5, 6}
  FindKeys = {}
  InsertKeys = {2, 4, 6}
  EmptyKeys = {}
  Sessions <- MCSessions
  NoCall = NoCall
  LeafCap = 1
  InnerCap = 3
  MinDownlinks = 2
  Starts <- WaitStarts
  LinksDying = FALSE
  TakesCached = FALSE
INVARIANT NeverWaitsForItself
SYMMETRY SessionSymmetry
CHECK_DEADLOCK FALSE
