SPECIFICATION FairSpec
CONSTANTS
  e1 = e1
  e2 = e2
  Node = {0, 1, 2}
  Route = {e1, e2}
  Calls <- FromZero
  Dist <- XorDist
  K = 2
  Alpha = 2
  RtMax = 2
  Env <- RoughOrCalm
  None = None
INVARIANTS
  TypeOK
  LookupExhaustive
  KnownRouteFound
  SeedsKeep
PROPERTIES
  RouteReturns
