SPECIFICATION FairSpec
CONSTANTS
  MaxBaskets = 1
  MaxFaults = 2
  MaxEvents = 2
INVARIANTS TypeOK OneWorker LossShown FailureShown
PROPERTIES SyncAfterRecovery GapRecovered AlertsResolved
CHECK_DEADLOCK FALSE
