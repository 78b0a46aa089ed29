SPECIFICATION FairSpec
CONSTANTS
  Apps = {app1}
  Task = Task
  Lib = Lib
  Ops = {o1, conn}
  ConnOp = conn
  NoOp = NoOp
  UntimedCallers <- AppsAndTask
  MaxReconnects = 1
  MaxEvents = 1
  app1 = app1
  o1 = o1
  conn = conn
  app2 = app2
PROPERTY TaskCallReturns
CHECK_DEADLOCK FALSE
