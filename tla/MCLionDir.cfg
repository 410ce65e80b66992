SPECIFICATION WalkSpec
CONSTANTS
  s1 = s1
  s2 = s2
  w = w
  Walker = w
  Beside = 1
  WalkStarts <- MCWalkStarts
  Uppers = {6}
  Rechecks = {1}
  StaysLanded = TRUE
  NPages = 9
  Keys = {1, 2, 3, 4, 5, 6}
  FindKeys = {5}
  InsertKeys = {4}
  EmptyKeys = {3, 5}
  Sessions <- MCSessions
  NoCall = NoCall
  LeafCap = 1
  InnerCap = 3
  MinDownlinks = 2
  Starts <- MCStarts
  LinksDying = FALSE
  TakesCached = FALSE
INVARIANTS
  LevelsLinked
  ItemsInRange
  DownlinksExact
  NeverMisled
  WalkMissesNone
PROPERTIES
  VacuumFinishes
  ActsAtomically
SYMMETRY SessionSymmetry
CHECK_DEADLOCK FALSE
