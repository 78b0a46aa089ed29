SPECIFICATION FairSpec
CONSTANTS
  Producers = {p1}
  Consumers = {c1, c2}
  Values = {a}
  NoItem = NoItem
  MaxCapacity = 7
  CtorArgs = {7}
  NewCapacities = {}
  MaxPuts = 3
  p1 = p1
  p2 = p2
  c1 = c1
  c2 = c2
  a = a
  b = b
PROPERTY GetReturns
CHECK_DEADLOCK FALSE
