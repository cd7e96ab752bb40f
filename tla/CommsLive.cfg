SPECIFICATION FairSpec
CONSTANTS
  Clients = {c1, c2}
  NoClient = NoClient
  ClientMessages <- MixedMessages
  MaxRequests = 2
  ReplyKinds = {"good", "wrongsize", "malformed", "short", "errorcode"}
  MaxThreadCount = 4
  Faults = {"bind", "refused", "broken"}
  WithStop = TRUE
PROPERTIES EveryRequestAnswered LifeCycle
CHECK_DEADLOCK FALSE
