--------------------------- MODULE RMALockManager ---------------------------
(***************************************************************************)
(* LockState and RMALockManager                                            *)
(* (module/scheduler_components/rma_lock_manager.{h,cpp}), the remaster-   *)
(* aware lock manager, as operators on lm = [table, info,                  *)
(* num_locked_keys].  Locks are on <key, region> pairs; a remaster         *)
(* transaction locks its one key in the old and in the new region.  The    *)
(* table never shrinks.                                                    *)
(***************************************************************************)
EXTENDS Integers, Sequences, FiniteSets, SequencesExt

Unlocked == [mode |-> "UNLOCKED", holders |-> {}, waiter_queue |-> <<>>]

EmptyManager == [table |-> <<>>, info |-> <<>>, num_locked_keys |-> 0]

Lookup(table, kr) == IF kr \in DOMAIN table THEN table[kr] ELSE Unlocked

Enqueue(l, t, mode) == [l EXCEPT !.waiter_queue = Append(@, [txn |-> t, mode |-> mode])]

\* Mutant: a reader overtakes the writers that wait.
AcquireReadLockOvertakes(l, t) ==
  IF l.mode \in {"UNLOCKED", "READ"}
    THEN [l EXCEPT !.mode = "READ", !.holders = @ \cup {t}]
    ELSE Enqueue(l, t, "READ")

AcquireReadLock(l, t) ==
  IF l.mode = "UNLOCKED" \/ (l.mode = "READ" /\ l.waiter_queue = <<>>)
    THEN [l EXCEPT !.mode = "READ", !.holders = @ \cup {t}]
    ELSE Enqueue(l, t, "READ")

AcquireWriteLock(l, t) ==
  IF l.mode = "UNLOCKED"
    THEN [l EXCEPT !.mode = "WRITE", !.holders = {t}]
    ELSE Enqueue(l, t, "WRITE")

\* Mutant: whoever waits gets the lock.
GranteesAll(queue) == Len(queue)

\* How many waiters get the lock when its last holder leaves: all readers at
\* the head of the queue, or the one writer there.
Grantees(queue) ==
  IF queue[1].mode = "WRITE" THEN 1
  ELSE CHOOSE n \in DOMAIN queue :
         /\ \A i \in 1..n : queue[i].mode = "READ"
         /\ n < Len(queue) => queue[n + 1].mode = "WRITE"

HandOver(l) ==
  LET n == Grantees(l.waiter_queue)
  IN  [mode |-> l.waiter_queue[1].mode,
       holders |-> {l.waiter_queue[i].txn : i \in 1..n},
       waiter_queue |-> SubSeq(l.waiter_queue, n + 1, Len(l.waiter_queue))]

Release(l, t) ==
  IF t \notin l.holders
    THEN [l EXCEPT !.waiter_queue = SelectSeq(@, LAMBDA w : w.txn # t)]
  ELSE IF l.holders # {t} THEN [l EXCEPT !.holders = @ \ {t}]
  ELSE IF l.waiter_queue = <<>> THEN Unlocked
  ELSE HandOver(l)

-----------------------------------------------------------------------------

AcquireKey(lm, t, home, remaster, kv) ==
  IF ~remaster /\ kv.master # home THEN lm
  ELSE LET kr == <<kv.key, home>>
           before == Lookup(lm.table, kr)
           after == IF kv.type = "READ" THEN AcquireReadLock(before, t)
                                        ELSE AcquireWriteLock(before, t)
       IN  [table |-> (kr :> after) @@ lm.table,
            info |-> [lm.info EXCEPT
                        ![t].keys = Append(@, kr),
                        ![t].num_waiting_for = IF t \in after.holders THEN @ - 1 ELSE @],
            num_locked_keys |-> IF before.mode = "UNLOCKED" THEN lm.num_locked_keys + 1
                                                            ELSE lm.num_locked_keys]

NumRequiredLocks(keys, remaster) == IF remaster THEN 2 ELSE Len(keys)

AcquireLocks(lm, t, home, keys, remaster) ==
  LET known == [lm EXCEPT !.info =
                  IF t \in DOMAIN @ THEN @
                  ELSE (t :> [num_waiting_for |-> NumRequiredLocks(keys, remaster),
                              keys |-> <<>>]) @@ @]
  IN  FoldLeft(LAMBDA acc, kv : AcquireKey(acc, t, home, remaster, kv), known, keys)

IsReady(lm, t) == lm.info[t].num_waiting_for = 0

\* One lock of ReleaseLocks; acc also collects the transactions that became
\* ready.
ReleaseKey(acc, t, kr) ==
  LET before == acc.lm.table[kr]
      after == Release(before, t)
      grantees == after.holders \ before.holders
      info == [u \in DOMAIN acc.lm.info |->
                 IF u \in grantees
                   THEN [acc.lm.info[u] EXCEPT !.num_waiting_for = @ - 1]
                   ELSE acc.lm.info[u]]
  IN  [lm |-> [table |-> [acc.lm.table EXCEPT ![kr] = after],
               info |-> info,
               num_locked_keys |->
                 IF after.mode = "UNLOCKED" /\ before.mode # "UNLOCKED"
                   THEN acc.lm.num_locked_keys - 1 ELSE acc.lm.num_locked_keys],
       ready |-> acc.ready \cup {u \in grantees : info[u].num_waiting_for = 0}]

ReleaseLocks(lm, t) ==
  IF t \notin DOMAIN lm.info THEN [lm |-> lm, ready |-> {}]
  ELSE LET acc == FoldLeft(LAMBDA a, kr : ReleaseKey(a, t, kr),
                           [lm |-> lm, ready |-> {}], lm.info[t].keys)
       IN  [acc EXCEPT !.lm.info = [u \in DOMAIN @ \ {t} |-> @[u]]]
=============================================================================
