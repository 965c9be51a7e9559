---------------------------- MODULE DDRLockTable ----------------------------
(***************************************************************************)
(* Data of the DDR lock manager of one partition                           *)
(* (module/scheduler_components/ddr_lock_manager.{h,cpp}): the tail of     *)
(* each lock queue, the waited-by lists and the counters derived from      *)
(* them.  Every lock is on a <key, region> pair, here a KeyRegion, and the *)
(* lock-only transaction of home h asks for the locks whose region is h.   *)
(***************************************************************************)
EXTENDS Integers, Sequences, FiniteSets

CONSTANTS Txn,        \* transaction ids, ordered: the resolver sorts by id
          KeyRegion,  \* <key, region> pairs
          Region,     \* home regions
          Home,       \* the region of each KeyRegion
          Reads,      \* the KeyRegions each transaction locks for reading
          Writes      \* the KeyRegions each transaction locks for writing

ASSUME TxnAssumption == Txn \subseteq Nat \ {0} /\ IsFiniteSet(Txn)

ASSUME LockAssumption ==
  /\ IsFiniteSet(KeyRegion)
  /\ Home \in [KeyRegion -> Region]
  /\ Reads \in [Txn -> SUBSET KeyRegion]
  /\ Writes \in [Txn -> SUBSET KeyRegion]
  /\ \A t \in Txn : Reads[t] \cap Writes[t] = {}

kSentinelTxnId == 0

Keys(t) == Reads[t] \cup Writes[t]

\* The keys AcquireLocks counts as relevant in the request of home h.
RelevantKeys(t, h) == {k \in Keys(t) : Home[k] = h}

Conflict(t, u, k) ==
  /\ k \in Keys(t) \cap Keys(u)
  /\ k \in Writes[t] \cup Writes[u]

-----------------------------------------------------------------------------
(* LockQueueTail *)

LockQueueTail == [writer : Txn \cup {kSentinelTxnId}, readers : SUBSET Txn]

EmptyTail == [writer |-> kSentinelTxnId, readers |-> {}]

Writer(tail) == {tail.writer} \ {kSentinelTxnId}

AcquireReadLock(tail, t) == [tail EXCEPT !.readers = @ \cup {t}]

\* Mutant: the writer is not recorded.
AcquireWriteLockUnrecorded(tail, t) == [tail EXCEPT !.readers = {}]

AcquireWriteLock(tail, t) == [writer |-> t, readers |-> {}]

\* Mutant: a writer waits for the last writer only.
WriteDependenciesNoReaders(tail) == Writer(tail)

WriteDependencies(tail) ==
  IF tail.readers = {} THEN Writer(tail) ELSE tail.readers

-----------------------------------------------------------------------------
(* AcquireLocks on the lock table, for the keys K of one request of t *)

BlockingTxns(table, t, K) ==
  UNION {IF k \in Writes[t] THEN WriteDependencies(table[k]) ELSE Writer(table[k]) :
           k \in K}

Enqueue(table, t, K) ==
  [k \in KeyRegion |->
     IF k \notin K THEN table[k]
     ELSE IF k \in Writes[t] THEN AcquireWriteLock(table[k], t)
     ELSE AcquireReadLock(table[k], t)]

-----------------------------------------------------------------------------
(* TxnInfo *)

InitWaitedBy == <<kSentinelTxnId>>

AppendWaiter(waitedBy, blockers, t) ==
  [b \in Txn |-> IF b \in blockers THEN Append(waitedBy[b], t) ELSE waitedBy[b]]

\* The positions of u in a waited-by list: a transaction with two lock-only
\* parts may be listed twice.
Slots(list, u) == {i \in DOMAIN list : list[i] = u}

Occurrences(list, u) == Cardinality(Slots(list, u))

\* Mutant: the readiness test is missing.
ReadyUnchecked(candidates, waiting, missing) == candidates

\* The candidates that became ready: is_ready of TxnInfo.
Ready(candidates, waiting, missing) ==
  {t \in candidates : waiting[t] = 0 /\ missing[t] = 0}

\* Every place where a live transaction promises to wake u.
Edges(live, waitedBy, u) ==
  UNION {{<<b, i>> : i \in Slots(waitedBy[b], u)} : b \in live}
=============================================================================
