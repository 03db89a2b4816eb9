SPECIFICATION CalmSpec
CONSTANTS
  n1 = n1
  n2 = n2
  n3 = n3
  n4 = n4
  n5 = n5
  b1 = b1
  b2 = b2
  Node = {n1, n2, n3, n4, n5}
  Build = {b1}
  Calls <- OneCall
  MaxHops = 3
  MaxCid = 2
  None = None
PROPERTIES
  HealthyBuildOpens
