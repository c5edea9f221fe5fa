SPECIFICATION FairSpec
CONSTANTS
  EntryQtys = {2}
  Multiplier = 1
  MaxLevel = 1
  RefusedLevels = {}
  PauseAfterCycle = FALSE
  ReentryDelay = TRUE
  PartialFills = TRUE
  Attempts = 2
  IllegalQtys = {1}
  MaxExecs = 3
  MaxFaults = 1
  MaxCrashes = 1
  MaxManual = 0
PROPERTIES OpenBasketProtected
CHECK_DEADLOCK FALSE
