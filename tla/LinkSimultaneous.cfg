SPECIFICATION Spec
CONSTANTS
  a = a
  b = b
  s1 = s1
  s2 = s2
  Node = {a, b}
  Call = {s1, s2}
  Calls <- BothWays
  Env <- OverlapOnly
  None = None
INVARIANTS
  SessionsAgree
