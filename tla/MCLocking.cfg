CONSTANTS
  Txn <- MCTxn
  KeyRegion <- MCKeyRegion
  Region <- MCRegion
  Home <- MCHome
  Reads <- MCReads
  Writes <- MCWrites
  Parts = {"DDR", "resolver", "scheduler"}
  DeadlockReads <- CycleReads
  DeadlockWrites <- CycleWrites
  DeadlockLog <- CycleLog
  SchedulerRegion = {0, 1}
  SchedulerScenarios <- AllScenarios
SPECIFICATION LockingSpec
INVARIANTS
  TypesAndChecks
  CountersExact
  GrantOrder
  MutualExclusion
  ResolutionAgreement
  SnapshotIsPrefix
  ExecutionExclusive
  LogOrder
  OutcomeFixedByLogs
  CleanAtRest
PROPERTIES
  AllComplete
  DispatchLegal
CHECK_DEADLOCK FALSE
