SPECIFICATION Spec
CONSTANTS
  p1 = p1
  p2 = p2
  b1 = b1
  b2 = b2
  a1 = a1
  a2 = a2
  a3 = a3
  Worker = {w1, w2}
  NoWorker = NoWorker
  Partition = {p1}
  MaxLen = 2
  Brand = {b1, b2}
  Actor = {a1, a2, a3}
  KindOf <- LoneKind
  BrandOf <- LoneBrand
  ActorOf <- LoneActor
  FragileActor = {}
  EventsBatch = 2
  MaxAttempts = 2
  LockMayDrop = TRUE
  MaxCrashes = 0
CHECK_DEADLOCK FALSE
INVARIANTS
  OffsetsCovered
PROPERTIES
  ImplementsLedger
