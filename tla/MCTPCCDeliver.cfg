CONSTANTS
  NoValue = NoValue
  Parts = {"TPC-C"}
  WorkerScenarios <- AllMulti
  Transactions <- SlogTransactions
SPECIFICATION ExecutionSpec
INVARIANT DeliveredWhole
CHECK_DEADLOCK FALSE
