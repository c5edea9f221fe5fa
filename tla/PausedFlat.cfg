SPECIFICATION Spec
CONSTANTS
  EntryQtys = {1}
  Multiplier = 1
  MaxLevel = 1
  RefusedLevels = {}
  PauseAfterCycle = FALSE
  ReentryDelay = TRUE
  PartialFills = FALSE
  Attempts = 2
  IllegalQtys = {}
  MaxExecs = 3
  MaxFaults = 0
  MaxCrashes = 0
  MaxManual = 0
PROPERTIES PausedStaysFlat
CHECK_DEADLOCK FALSE
