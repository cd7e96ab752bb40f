SPECIFICATION Spec
CONSTANTS
  RawWords <- MCRawWords
  Counters <- MCCounters
INVARIANTS FieldsSurvive PixelsDistinct ClusterOfOne
CHECK_DEADLOCK FALSE
