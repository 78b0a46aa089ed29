SPECIFICATION FairSpec
CONSTANTS
  Apps = {app1, app2}
  Task = Task
  Lib = Lib
  Ops = {conn}
  ConnOp = conn
  NoOp = NoOp
  UntimedCallers <- AppsOnly
  MaxReconnects = 1
  MaxEvents = 1
  app1 = app1
  app2 = app2
  o1 = o1
  conn = conn
PROPERTY TimeoutIsMaximum
CHECK_DEADLOCK FALSE
