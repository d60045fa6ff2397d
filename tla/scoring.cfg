SPECIFICATION Spec
CONSTANTS
  Containers = {c1, c2}
  None = None
  Visits <- MCVisits
  MinCalibrated = 2
  PageSize = 2
  ChunkSize = 1
  Overlap = 1
  FirstLookback = 1
  DrainLookback = 2
  DayLen = 2
  DbOffset = 4
  OffsetUnit = 2
  MaxLag = 1
  MaxTime = 2
  MaxFaults = 1
INVARIANTS TypeOK WatermarkCovers StaleActorsRevisited BucketsAgree
PROPERTIES WatermarkAdvances
CHECK_DEADLOCK FALSE
SYMMETRY SameContainers
