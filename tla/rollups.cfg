SPECIFICATION Spec
CONSTANTS
  None = None
  Scenes <- MCScenes
  DayLen = 2
  MaxSteps = 15
  MaxPerDate = 1
  Ids = {"7", "9"}
  Overlap = 1
  FirstLookback = 1
  MaxWindow = 2
  IntentLookback = 3
  HeatmapLookback = 2
  MaxFaults = 1
INVARIANTS TypeOK NothingMissed RememberedIsCurrent LevelsAddUp LevelsSettle TriggerFresh
CHECK_DEADLOCK FALSE
