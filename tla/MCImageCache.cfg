SPECIFICATION CacheSpec
CONSTANTS
  Scenarios <- SoundScenarios
  MaxRuns = 4
  MaxEdits = 2
  None = None
INVARIANTS
  ShownRight
  MissesJustified
CHECK_DEADLOCK FALSE
