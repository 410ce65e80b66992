SPECIFICATION ColumnSpec
CONSTANTS
  l1 = l1
  l2 = l2
  l3 = l3
  t1 = t1
  t2 = t2
  N = 3
  Keys <- MCKeys
  Leaves <- MCLeaves
  First = l1
  Roots <- MCRoots
  NoBlock = NoBlock
  Readers = {r1}
  Rows <- MCRows
  TopKey = 3
  MaxLeaves = 2
  Parts <- MCParts
  SumStarts <- MCSumStarts
  DropsTop = FALSE
SYMMETRY BlockSymmetry
INVARIANTS
  LocksFollowKeys
  WalkCoversRange
  RangeExact
  BucketsOrdered
  NeverOutOfOrder
CHECK_DEADLOCK FALSE
