SPECIFICATION FairSpec
CONSTANTS
  Pixels <- MCOne
  ToTs = {0, 1}
  Settings <- MCTwoSettings
  Default <- MCNarrow
  Times = {0, 1, 2, 5}
  MaxChunk = 2
  MaxClicks = 3
  MaxFlushes = 1
  MaxFiles = 1
INVARIANTS
  EachClickOnce
  BoxIsHull
  NeighboursTogether
  NoneOverdue
  CentroidInHull
  FileComplete
PROPERTIES
  MessageHandled
