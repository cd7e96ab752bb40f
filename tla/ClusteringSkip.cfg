SPECIFICATION Spec
CONSTANTS
  Pixels <- MCCross
  ToTs = {1}
  Settings <- MCOneSetting
  Default <- MCNarrow
  Times = {0}
  MaxChunk = 4
  MaxClicks = 4
  MaxFlushes = 0
  MaxFiles = 0
INVARIANTS
  MergesAll
