SPECIFICATION Spec
CONSTANTS
  Partitions = 2
  MaxLen = 2
  MaxTime = 5
  Delay = 2
  Slack = 1
  Margin = 0
  EventsBatch = 1
  BufferMax = 1
INVARIANTS
  TypeOK
  SendOrder
  LatenessBounded
  BufferBounded
CHECK_DEADLOCK FALSE
