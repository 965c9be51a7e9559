CONSTANTS
  BatchId <- MCBatchId
  NoBatch = NoBatch
  MaxSlot = 3
  Order <- MCOrder
  ReplicationFactor = 2
  NoGenerator = NoGenerator
  NoTimer = NoTimer
  Parts = {"paths"}
  PathsReplicas <- OneReplica
  PathsOrder <- Nowhere
  SequencerOptions <- Harmless
SPECIFICATION PipelineSpec
INVARIANT NoAckAwaited
CHECK_DEADLOCK FALSE
