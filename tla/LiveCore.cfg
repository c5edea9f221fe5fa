SPECIFICATION Spec
CONSTANTS
  EntryQtys = {1}
  Multiplier = 2
  MaxLevel = 1
  RefusedLevels = {}
  PauseAfterCycle = FALSE
  ReentryDelay = TRUE
  PartialFills = TRUE
  Attempts = 2
  IllegalQtys = {}
  MaxExecs = 4
  MaxFaults = 1
  MaxCrashes = 1
  MaxManual = 0
INVARIANTS TypeOK AtMostOneDca AtMostTwoExits JournalMirrorsExchange
PROPERTIES TakeProfitFirst
CHECK_DEADLOCK FALSE
