CONSTANTS
  NoValue = NoValue
  Parts = {"worker"}
  WorkerScenarios <- OneStuck
  Transactions <- SlogTransactions
SPECIFICATION ExecutionSpec
INVARIANT ReadsOfSameDispatch
CHECK_DEADLOCK FALSE
