SPECIFICATION FairSpec
CONSTANTS
  Clients = {c1}
  NoClient = NoClient
  ClientMessages <- GoodMessages
  MaxRequests = 1
  ReplyKinds = {"good", "malformed"}
  MaxThreadCount = 4
  Faults = {}
  WithStop = FALSE
PROPERTIES CommandsComplete
CHECK_DEADLOCK FALSE
