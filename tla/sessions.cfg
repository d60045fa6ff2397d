SPECIFICATION SweepSpec
CONSTANTS
  EventId = {1, 2, 3, 4, 5, 6, 7, 8}
  Actor = {"ann", "bob", "cyd"}
  NoActor = "nobody"
  Product = {"shoe"}
  NoProduct = "none"
  Timeout = 2
  Tolerance = 1
  Logs <- SessionLogs
  RefusedEvent = {6}
  RefusedSession = {7}
  RefusedCursor = {8}
  BatchMax = 4
  MaxRuns = 3
  NoCursor = NoCursor
  NoSweep = NoSweep
  Margin = 1
  Chunk = 1
  MaxPerRun = 2
  Horizon = 8
  UnreadableSession = {7}
INVARIANTS
  TypeOK
  SessionsApart
  ClaimsBacked
  EventsInSessions
  NothingVanishes
  OnlyRefusedDropped
  SweepTransparent
PROPERTIES
  ClosedIsFinal
CHECK_DEADLOCK FALSE
