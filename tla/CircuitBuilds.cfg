SPECIFICATION ManySpec
CONSTANTS
  n1 = n1
  n2 = n2
  n3 = n3
  n4 = n4
  n5 = n5
  b1 = b1
  b2 = b2
  Node = {n1, n2, n3, n4, n5}
  Build = {b1, b2}
  Calls <- AllCalls
  MaxHops = 4
  MaxCid = 2
  None = None
INVARIANTS
  TypeOK
  HopWiring
  NoCrossedCircuits
  CreatedConserved
PROPERTIES
  HeaderPeeledOnce
  BuildResolves
  RelayReturnsCreated
  TeardownSettles
  NetworkQuiets
  ImplementsService
