CONSTANTS
  BatchId <- MCBatchId
  NoBatch = NoBatch
  MaxSlot = 3
  Order <- MCOrder
  ReplicationFactor = 2
  NoGenerator = NoGenerator
  NoTimer = NoTimer
  Parts = {"sequencer"}
  PathsReplicas <- OneReplica
  PathsOrder <- EachOther
  SequencerOptions <- DelayedInTwos
SPECIFICATION PipelineSpec
INVARIANT NothingDropped
CHECK_DEADLOCK FALSE
