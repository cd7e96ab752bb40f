SPECIFICATION FairSpec
CONSTANTS
  Pixels = {p1}
  Servers = {s1, s2}
  BinMod = 3
  IntMod = 6
  Words = {5}
  DefaultPeriod = 2
  MaxPackets = 1
  MaxQueue = 1
  MaxElapsed = 2
INVARIANTS
  CountsExact
PROPERTIES
  FramesKeepComing
  CommandsHandled
  ThreadEnds
CHECK_DEADLOCK FALSE
