SPECIFICATION Spec
CONSTANTS
  EventId = {1, 2, 3, 4}
  Actor = {"ann"}
  NoActor = "nobody"
  Product = {"shoe"}
  NoProduct = "none"
  Timeout = 2
  Tolerance = 1
  Logs <- DiscardedAtcLogs
  RefusedEvent = {}
  RefusedSession = {}
  RefusedCursor = {}
  BatchMax = 3
  MaxRuns = 3
  NoCursor = NoCursor
INVARIANTS
  ReplayAbsorbed
CHECK_DEADLOCK FALSE
