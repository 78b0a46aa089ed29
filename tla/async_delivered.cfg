SPECIFICATION Spec
CONSTANTS
  Publications = {p1}
  Requests = {r1}
  Conns = {c1}
  NoToken = NoToken
  Qos0 = {}
  NoQueue = NoQueue
  MaxCalls = 2
  MaxEvents = 1
  p1 = p1
  r1 = r1
  c1 = c1
  c2 = c2
INVARIANT ReportedWhenAcknowledged
CHECK_DEADLOCK FALSE
