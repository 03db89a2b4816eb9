SPECIFICATION FairSpec
CONSTANTS
  n1 = n1
  n2 = n2
  n3 = n3
  Node = {n1, n2, n3}
  Route <- Routes
  MaxHops = 4
  Terminal = Terminal
  Scalar = {1, 2, 3, 4}
  One = 1
  Point = {1, 2, 3, 4}
  Mul <- MulMod
  Dh <- DhMod
  Hash <- HashMod
INVARIANTS
  TypeOK
  OpensAtItsHop
  HopsAgree
PROPERTIES
  WalkCompletes
CHECK_DEADLOCK FALSE
