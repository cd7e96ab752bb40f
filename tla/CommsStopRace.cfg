SPECIFICATION Spec
CONSTANTS
  Clients = {c1}
  NoClient = NoClient
  ClientMessages <- GoodMessages
  MaxRequests = 1
  ReplyKinds = {"good"}
  MaxThreadCount = 4
  Faults = {}
  WithStop = TRUE
INVARIANTS EndsWithoutDebt
CHECK_DEADLOCK FALSE
