SPECIFICATION Spec
CONSTANTS
  EntryQtys = {1}
  Multiplier = 1
  MaxLevel = 2
  RefusedLevels = {2}
  PauseAfterCycle = TRUE
  ReentryDelay = TRUE
  PartialFills = FALSE
  Attempts = 2
  IllegalQtys = {}
  MaxExecs = 3
  MaxFaults = 1
  MaxCrashes = 1
  MaxManual = 1
INVARIANTS SingleEntry OneCyclePerResume
PROPERTIES EntryOnlyWhenResumed
CHECK_DEADLOCK FALSE
