SPECIFICATION FairSpec
CONSTANTS
  Never = Never
  Unset = Unset
  Executions = {e1, e2, e3}
  Week = 3
  Overlap = 2
  Lag = 1
  Skew = 1
  PageSize = 1
  MaxPages = 2
  MaxClock = 4
  MaxFailures = 1
INVARIANTS TypeOK
PROPERTIES KeepsLedger EveryExecutionJournaled
CHECK_DEADLOCK FALSE
