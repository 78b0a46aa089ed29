SPECIFICATION FairSpec
CONSTANTS
  Publications = {p1}
  Requests = {r1}
  Conns = {c1, c2}
  NoToken = NoToken
  Qos0 = {}
  NoQueue = NoQueue
  MaxCalls = 3
  MaxEvents = 2
  p1 = p1
  r1 = r1
  c1 = c1
  c2 = c2
INVARIANTS TypeOK KeptWhileNeeded ConsumedInOrder
PROPERTIES TracksDeliveries  ConsumerWakes
CHECK_DEADLOCK FALSE
