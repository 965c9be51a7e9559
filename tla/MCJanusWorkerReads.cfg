CONSTANTS
  NoValue = NoValue
  Parts = {"execution"}
  WorkerScenarios <- AllMulti
  Transactions <- JanusTransactions
SPECIFICATION ExecutionSpec
INVARIANT AsOnOneMachine
CHECK_DEADLOCK FALSE
