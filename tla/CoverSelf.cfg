SPECIFICATION CoverSpec
CONSTANTS
  a = a
  b = b
  Node = {a, b}
  Call = {s1, s2}
  Calls <- FromA
  Env <- CalmEnv
  Covering = {a}
  Table <- Everyone
  Stored <- Everyone
  None = None
PROPERTIES
  PaddingArrives
