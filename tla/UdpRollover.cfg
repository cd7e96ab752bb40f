SPECIFICATION Spec
CONSTANTS
  Quarter = 5
  MaxGap = 2
  MaxLate = 2
  LatestStart = 12
  LatestReset = 15
  MaxChunk = 3
  MaxPeriod = 17
INVARIANTS RolloverCounted StampsExact
