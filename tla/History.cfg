SPECIFICATION Spec
CONSTANTS
  TimeTolerance = 2
  PriceTolerance = 1
  Threshold = 8
  CloseWindow = 3
  ExportRows <- MCRows
  Minute = 2
  Depths = {0, 1}
  CloseTarget = 1
  MaxRows = 3
  MaxReplayed = 2
INVARIANTS GroupsArePositions MatchesOptimal PairsOfTheirCycles
CHECK_DEADLOCK FALSE
