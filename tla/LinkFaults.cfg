SPECIFICATION SomeSpec
CONSTANTS
  a = a
  b = b
  s1 = s1
  s2 = s2
  Node = {a, b}
  Call = {s1, s2}
  Calls <- BothWays
  Env <- AllEnvs
  None = None
INVARIANTS
  TypeOK
  ReadInOrder
  NoncePerCiphertext
PROPERTIES
  CellsArrive
  ImplementsChannel
