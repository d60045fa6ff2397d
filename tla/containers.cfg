SPECIFICATION Spec
CONSTANTS
  None = None
  Worker = worker
  Others = {aggregation}
  Migrations <- MCMigrations
  Required = {"cursors", "dedupe"}
  Needs <- MCNeeds
  Scenes <- MCScenes
  Recheck = 1
  Batch = 2
  MaxFaults = 1
INVARIANTS TypeOK RecordedIsWhole RowsFollowSchema
PROPERTIES CleanStop KeepsIngesting
CHECK_DEADLOCK FALSE
