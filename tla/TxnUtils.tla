------------------------------ MODULE TxnUtils ------------------------------
(***************************************************************************)
(* The functions of common/proto_utils.cpp that classify, split and merge  *)
(* transactions.  A transaction is a record                                *)
(*   [keys, meta, writes, remaster, type, home, regions, partitions]       *)
(* where meta maps a key to its master region, or to Unset; remaster is    *)
(* the new master of a remaster transaction, or Unset.  The lists of       *)
(* involved regions and partitions are sets: the code keeps them sorted    *)
(* and free of duplicates.                                                 *)
(***************************************************************************)
EXTENDS Integers, FiniteSets

CONSTANTS PartitionOf    \* the sharder: key -> partition

Unset == -1
Null == [keys |-> {}]

IsRemaster(txn) == txn.remaster # Unset

Masters(txn) == {txn.meta[k] : k \in txn.keys}

\* SetTransactionType: unknown until every key has its master.  In the
\* COUNTERLESS protocol a remaster is always multi-home.
SetTransactionType(txn, counterless) ==
  IF txn.keys = {} \/ Unset \in Masters(txn)
    THEN [txn EXCEPT !.type = "UNKNOWN"]
    ELSE IF Cardinality(Masters(txn)) = 1 /\ ~(counterless /\ IsRemaster(txn))
      THEN [txn EXCEPT !.type = "SINGLE_HOME", !.home = CHOOSE m \in Masters(txn) : TRUE]
      ELSE [txn EXCEPT !.type = "MULTI_HOME_OR_LOCK_ONLY", !.home = Unset]

PopulateInvolvedRegions(txn, counterless) ==
  IF txn.type = "UNKNOWN" THEN txn
  ELSE [txn EXCEPT !.regions =
          Masters(txn) \cup (IF counterless /\ IsRemaster(txn) /\ txn.type # "SINGLE_HOME"
                               THEN {txn.remaster} ELSE {})]

PopulateInvolvedPartitions(txn) ==
  [txn EXCEPT !.partitions = {PartitionOf[k] : k \in txn.keys},
              !.active = {PartitionOf[k] : k \in txn.writes}]

GenerateLockOnlyTxn(txn, lo_master) == [txn EXCEPT !.home = lo_master]

\* Mutant: a part without a key of its home is kept.
RedundantNever(txn, keys) == FALSE

\* The part does not lock any key in its home region.
Redundant(txn, keys) == ~IsRemaster(txn) /\ \A k \in keys : txn.meta[k] # txn.home

\* GeneratePartitionedTxn keeps the keys of the partition; Null when there is
\* nothing to lock for the home.
GeneratePartitionedTxn(txn, partition) ==
  LET keys == {k \in txn.keys : PartitionOf[k] = partition}
      masters == {txn.meta[k] : k \in keys}
  IN  IF keys = {} \/ Redundant(txn, keys) THEN Null
      ELSE [txn EXCEPT !.keys = keys,
                       !.regions = IF txn.type = "MULTI_HOME_OR_LOCK_ONLY" THEN masters ELSE @]

\* Mutant: the status of the last part to arrive stays.
MergeTransactionLast(txn, other) ==
  [txn EXCEPT !.status = other.status, !.keys = @ \cup other.keys]

\* MergeTransaction: one aborted part aborts the transaction, and the keys of
\* an aborted transaction are not collected.
MergeTransaction(txn, other) ==
  IF other.status = "ABORTED" THEN [txn EXCEPT !.status = "ABORTED"]
  ELSE IF txn.status = "ABORTED" THEN txn
  ELSE [txn EXCEPT !.keys = @ \cup other.keys]
=============================================================================
