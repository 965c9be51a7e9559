CONSTANTS
  Txn <- MCTxn
  KeyRegion <- MCKeyRegion
  Region <- MCRegion
  Home <- MCHome
  Reads <- MCReads
  Writes <- MCWrites
  Parts = {"resolver"}
  DeadlockReads <- AheadReads
  DeadlockWrites <- AheadWrites
  DeadlockLog <- AheadLog
  SchedulerRegion = {0, 1}
  SchedulerScenarios <- AllScenarios
SPECIFICATION LockingSafety
INVARIANT NoConflictingExecution
