SPECIFICATION FairTunedSpec
CONSTANTS
  Producers = {p1}
  Consumers = {c1}
  Values = {a, b}
  NoItem = NoItem
  MaxCapacity = 7
  CtorArgs = {0, 2, 7}
  NewCapacities = {0, 1, 3}
  MaxPuts = 4
  p1 = p1
  p2 = p2
  c1 = c1
  c2 = c2
  a = a
  b = b
INVARIANTS TypeOK FifoInv NoLostGetWakeup NoLostPutWakeup
PROPERTIES GetReturns PutReturns TimedCallReturns ImplementsChannel
CHECK_DEADLOCK FALSE
