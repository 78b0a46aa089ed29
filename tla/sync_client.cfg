SPECIFICATION FairSpec
CONSTANTS
  Apps = {app1, app2}
  Task = Task
  Lib = Lib
  Ops = {o1, conn}
  ConnOp = conn
  NoOp = NoOp
  UntimedCallers <- AppsOnly
  MaxReconnects = 1
  MaxEvents = 2
  app1 = app1
  o1 = o1
  conn = conn
  app2 = app2
INVARIANTS TypeOK AnswerAfterEvents BorrowedHeld 
PROPERTIES  CallbackThreadReturns CallsReturn
CHECK_DEADLOCK FALSE
