SPECIFICATION Spec
CONSTANTS
  p1 = p1
  p2 = p2
  b1 = b1
  b2 = b2
  a1 = a1
  a2 = a2
  a3 = a3
  Worker = {w1, w2}
  NoWorker = NoWorker
  Partition = {p1}
  MaxLen = 3
  Brand = {b1, b2}
  Actor = {a1, a2, a3}
  KindOf <- SharedKind
  BrandOf <- SharedBrand
  ActorOf <- SharedActor
  FragileActor = {a1}
  EventsBatch = 3
  MaxAttempts = 2
  LockMayDrop = FALSE
  MaxCrashes = 1
CHECK_DEADLOCK FALSE
INVARIANTS
  OneCycleAtATime
  HealthyNeverQuarantined
  DrainedIsCommitted
