SPECIFICATION Spec
CONSTANTS
  Partitions = 2
  MaxLen = 2
  MaxTime = 6
  Delay = 1
  Slack = 1
  Margin = 1
  EventsBatch = 2
  BufferMax = 2
INVARIANTS
  AlarmsAreReal
CHECK_DEADLOCK FALSE
