CONSTANTS
  NoValue = NoValue
  Parts = {"worker", "order", "janus", "execution", "TPC-C"}
  WorkerScenarios <- AllMulti
  Transactions <- SlogTransactions
SPECIFICATION ExecutionSpec
INVARIANTS
  TypesAndChecks
  SameDecision
  AllFinish
  ComponentsExact
  DispatchClosed
  AllExecuted
  AsOnOneMachine
  BooksBalance
  WorkloadCommits
CHECK_DEADLOCK FALSE
