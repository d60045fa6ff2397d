SPECIFICATION FairSpec
CONSTANTS
  Partitions = 2
  MaxLen = 2
  MaxTime = 3
  Delay = 1
  Slack = 0
  Margin = 0
  EventsBatch = 1
  BufferMax = 1
PROPERTIES
  CycleEnds
CHECK_DEADLOCK FALSE
