CONSTANTS
  Txn <- MCTxn
  KeyRegion <- MCKeyRegion
  Region <- MCRegion
  Home <- MCHome
  Reads <- MCReads
  Writes <- MCWrites
  Parts = {"scheduler"}
  DeadlockReads <- CycleReads
  DeadlockWrites <- CycleWrites
  DeadlockLog <- CycleLog
  SchedulerRegion = {0, 1}
  SchedulerScenarios <- WakeupScenarios
SPECIFICATION LockingSafety
INVARIANT CleanAtRest
CHECK_DEADLOCK FALSE
