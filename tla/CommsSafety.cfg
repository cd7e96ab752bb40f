SPECIFICATION Spec
CONSTANTS
  Clients = {c1, c2}
  NoClient = NoClient
  ClientMessages <- AllMessages
  MaxRequests = 2
  ReplyKinds = {"good", "wrongsize", "unrecognised", "malformed", "short", "errorcode"}
  MaxThreadCount = 4
  Faults = {"bind", "refused", "broken", "open", "thread"}
  WithStop = TRUE
SYMMETRY Symmetry
INVARIANTS TypeOK SourceAwaitsReply ReplyHasClient QueueServesClient NoLeakedThread OnlyFailedThreadsDangle
PROPERTIES TakenWhenIdle KeepsPromise
CHECK_DEADLOCK FALSE
