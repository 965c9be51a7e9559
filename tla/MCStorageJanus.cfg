CONSTANTS
  thread1 = thread1
  thread2 = thread2
  thread3 = thread3
  Thread = {thread1, thread2, thread3}
  MAX_READERS = 4
  Key = {1, 2, 3}
  Value = {5, 6}
  NotFound = NotFound
  Hash <- MCHash
  ShardBits = 1
  InitialBuckets = 1
  NoSegment = NoSegment
  Programs <- MCPrograms
  r1 = r1
  r2 = r2
  r3 = r3
  t1 = t1
  t2 = t2
  t3 = t3
  NoTxn = NoTxn
  Parts = {"map", "janus"}
CONSTRAINT Bound
SYMMETRY Symmetry
SPECIFICATION ServiceSpec
INVARIANTS
  TypesAndChecks
  NoLostWakeup
  CommittedEverywhere
  ConflictsOrdered
PROPERTY
  Linearizable
CHECK_DEADLOCK FALSE
