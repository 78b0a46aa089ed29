SPECIFICATION FairSpec
CONSTANTS
  Producers = {p1, p2}
  Consumers = {c1}
  Values = {a}
  NoItem = NoItem
  MaxCapacity = 7
  CtorArgs = {2}
  NewCapacities = {}
  MaxPuts = 4
  p1 = p1
  p2 = p2
  c1 = c1
  c2 = c2
  a = a
  b = b
PROPERTY PutReturns
CHECK_DEADLOCK FALSE
