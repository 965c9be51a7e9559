CONSTANTS
  BatchId <- MCBatchId
  NoBatch = NoBatch
  MaxSlot = 3
  Order <- MCOrder
  ReplicationFactor = 2
  NoGenerator = NoGenerator
  NoTimer = NoTimer
  Parts = {"batch log", "log", "paths", "paxos", "orderer", "sequencer", "front end"}
  PathsReplicas <- TwoReplicas
  PathsOrder <- EachOther
  SequencerOptions <- Harmless
SPECIFICATION PipelineSpec
INVARIANTS
  TypesAndChecks
  LetsThroughExactly
  OrderReplicated
  NothingHeldBack
  SameOrder
  NothingDropped
  TimestampOrder
  MergedAnswer
  LockOnlyParts
  NothingLost
PROPERTIES
  ImplementsSharedLog
  ImplementsProposalOrder
  AllLearned
  AllSent
CHECK_DEADLOCK FALSE
