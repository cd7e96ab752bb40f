SPECIFICATION FairSpec
CONSTANT MaxServers = 3
INVARIANTS
  ServerControlled
  RestartPossible
PROPERTIES
  StopIsFinal
  DanglesUntilThreadDone
  StopEnds
  CloseExits
  Recovers
CHECK_DEADLOCK FALSE
