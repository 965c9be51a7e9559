--------------------------- MODULE OldLockManager ---------------------------
(***************************************************************************)
(* OldLockState and OldLockManager                                         *)
(* (module/scheduler_components/old_lock_manager.{h,cpp}) as operators on  *)
(* a record lm = [table, info, num_locked_keys]: lock_table_, txn_info_    *)
(* and num_locked_keys_.  Locks are on keys.  A key of a transaction is a  *)
(* record [key, type, master, counter].  The scheduler's module calls      *)
(* AcquireLocks and ReleaseLocks.                                          *)
(***************************************************************************)
EXTENDS Integers, Sequences, FiniteSets, SequencesExt

CONSTANT kLockTableSizeLimit

Unlocked == [mode |-> "UNLOCKED", holders |-> {}, waiters |-> {}, waiter_queue |-> <<>>]

EmptyManager == [table |-> <<>>, info |-> <<>>, num_locked_keys |-> 0]

Lookup(table, k) == IF k \in DOMAIN table THEN table[k] ELSE Unlocked

Enqueue(l, t, mode) ==
  [l EXCEPT !.waiters = @ \cup {t}, !.waiter_queue = Append(@, [txn |-> t, mode |-> mode])]

AcquireReadLock(l, t) ==
  IF l.mode = "UNLOCKED" \/ (l.mode = "READ" /\ l.waiters = {})
    THEN [l EXCEPT !.mode = "READ", !.holders = @ \cup {t}]
    ELSE Enqueue(l, t, "READ")

AcquireWriteLock(l, t) ==
  IF l.mode = "UNLOCKED"
    THEN [l EXCEPT !.mode = "WRITE", !.holders = {t}]
    ELSE Enqueue(l, t, "WRITE")

\* The transactions that get the lock when its last holder leaves: all readers
\* at the head of the queue, or the one writer there.
HeadOfQueue(queue) ==
  IF queue[1].mode = "WRITE" THEN 1
  ELSE CHOOSE n \in DOMAIN queue :
         /\ \A i \in 1..n : queue[i].mode = "READ"
         /\ n < Len(queue) => queue[n + 1].mode = "WRITE"

HandOver(l) ==
  LET n == HeadOfQueue(l.waiter_queue)
      grantees == {l.waiter_queue[i].txn : i \in 1..n}
  IN  [mode |-> l.waiter_queue[1].mode,
       holders |-> grantees,
       waiters |-> l.waiters \ grantees,
       waiter_queue |-> SubSeq(l.waiter_queue, n + 1, Len(l.waiter_queue))]

Release(l, t) ==
  IF t \notin l.holders
    THEN [l EXCEPT !.waiters = @ \ {t},
                   !.waiter_queue = SelectSeq(@, LAMBDA w : w.txn # t)]
  ELSE IF l.holders # {t} THEN [l EXCEPT !.holders = @ \ {t}]
  ELSE IF l.waiters = {} THEN Unlocked
  ELSE HandOver(l)

-----------------------------------------------------------------------------

AcquireKey(lm, t, home, kv) ==
  IF kv.master # home THEN lm
  ELSE LET before == Lookup(lm.table, kv.key)
           after == IF kv.type = "READ" THEN AcquireReadLock(before, t)
                                        ELSE AcquireWriteLock(before, t)
       IN  [table |-> (kv.key :> after) @@ lm.table,
            info |-> [lm.info EXCEPT
                        ![t].keys = Append(@, kv.key),
                        ![t].num_waiting_for = IF t \in after.holders THEN @ - 1 ELSE @],
            num_locked_keys |-> IF before.mode = "UNLOCKED" THEN lm.num_locked_keys + 1
                                                            ELSE lm.num_locked_keys]

AcquireLocks(lm, t, home, keys) ==
  LET known == [lm EXCEPT !.info =
                  IF t \in DOMAIN @ THEN @
                  ELSE (t :> [num_waiting_for |-> Len(keys), keys |-> <<>>]) @@ @]
  IN  FoldLeft(LAMBDA acc, kv : AcquireKey(acc, t, home, kv), known, keys)

IsReady(lm, t) == lm.info[t].num_waiting_for = 0

\* One key of ReleaseLocks; acc also collects the transactions that became
\* ready.  An unlocked entry leaves a table that is over its limit.
ReleaseKey(acc, t, k) ==
  LET before == acc.lm.table[k]
      after == Release(before, t)
      grantees == after.holders \ before.holders
      info == [u \in DOMAIN acc.lm.info |->
                 IF u \in grantees
                   THEN [acc.lm.info[u] EXCEPT !.num_waiting_for = @ - 1]
                   ELSE acc.lm.info[u]]
      table == [acc.lm.table EXCEPT ![k] = after]
  IN  IF k \notin DOMAIN acc.lm.table THEN acc
      ELSE [lm |-> [table |-> IF after.mode = "UNLOCKED"
                                    /\ Cardinality(DOMAIN table) > kLockTableSizeLimit
                                THEN [j \in DOMAIN table \ {k} |-> table[j]] ELSE table,
                    info |-> info,
                    num_locked_keys |->
                      IF after.mode = "UNLOCKED" /\ before.mode # "UNLOCKED"
                        THEN acc.lm.num_locked_keys - 1 ELSE acc.lm.num_locked_keys],
            ready |-> acc.ready \cup {u \in grantees : info[u].num_waiting_for = 0}]

ReleaseLocks(lm, t) ==
  IF t \notin DOMAIN lm.info THEN [lm |-> lm, ready |-> {}]
  ELSE LET acc == FoldLeft(LAMBDA a, k : ReleaseKey(a, t, k),
                           [lm |-> lm, ready |-> {}], lm.info[t].keys)
       IN  [acc EXCEPT !.lm.info = [u \in DOMAIN @ \ {t} |-> @[u]]]
=============================================================================
