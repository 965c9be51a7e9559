----------------------------- MODULE Scheduler ------------------------------
(***************************************************************************)
(* One partition's scheduler (module/scheduler.cpp) with its transaction   *)
(* holders, its lock manager, its remaster manager and its workers.  The   *)
(* build fixes the managers: "SIMPLE" and "PER_KEY" are the counter-based  *)
(* remaster managers over the OLD lock manager, "COUNTERLESS" has no       *)
(* remaster manager and the RMA lock manager.  (The DDR lock manager and   *)
(* the second dispatch are in DeadlockResolver.)                           *)
(*                                                                         *)
(* The scheduler reads one log per home region, in an interleaving of its  *)
(* own; a handler of the code calls itself through its managers, so it is  *)
(* a function from the scheduler's state s to the next one.  Transactions  *)
(* have all their keys in this partition, hence workers need no remote     *)
(* reads (Worker has them).  No sender sets the status ABORTED before the  *)
(* scheduler sees a transaction.                                           *)
(***************************************************************************)
EXTENDS Integers, Sequences, FiniteSets, SequencesExt

CONSTANTS Txn,          \* transaction ids
          Region,       \* regions, each the home of some keys
          Key,
          TxnKeys,      \* keys of each transaction: [key, type, master, counter]
          NewMaster,    \* NewMaster[t]: new master of a remaster transaction, or NoRegion
          NoRegion,
          InitialMaster,
          NumWorkers,
          kLockTableSizeLimit,
          Scenarios     \* records [build, logs]: a log is a sequence of transactions

VARIABLES build, logs,  \* chosen once, among the scenarios
          position,     \* how much of each log was processed
          storage,      \* metadata [master, counter] of each key
          s,            \* the scheduler: [holder, lm, rm, inbox, outbox, current_worker, failed]
          running,      \* running[w]: what worker w is executing
          outcome       \* status with which each transaction finished

vars == <<build, logs, position, storage, s, running, outcome>>

OLD == INSTANCE OldLockManager
RMA == INSTANCE RMALockManager
REM == INSTANCE RemasterManager

Worker == 0..NumWorkers - 1
IsRemaster(t) == NewMaster[t] # NoRegion
MasterRegions(t) == {TxnKeys[t][i].master : i \in DOMAIN TxnKeys[t]}

-----------------------------------------------------------------------------
(* TxnHolder *)

\* Mutant: the holder expects one part, whatever the transaction.
NewHolderExpectsOne(t, home) ==
  [main |-> home, lo_txns |-> {home}, num_lo |-> 1, expected |-> 1, aborting |-> FALSE,
   done |-> FALSE, dispatches |-> 0, worker |-> NoRegion, remaster_result |-> <<>>]

\* involved_regions, after GeneratePartitionedTxn, are the masters of the keys.
NewHolder(t, home) ==
  [main |-> home, lo_txns |-> {home}, num_lo |-> 1,
   expected |-> Cardinality(MasterRegions(t)), aborting |-> FALSE,
   done |-> FALSE, dispatches |-> 0, worker |-> NoRegion, remaster_result |-> <<>>]

AddLockOnlyTxn(h, home) == [h EXCEPT !.lo_txns = @ \cup {home}, !.num_lo = @ + 1]

FinalizeAndRelease(h) == [h EXCEPT !.lo_txns = {}]

IsReadyForGC(h) == h.done /\ h.num_lo = h.expected

Erase(f, t) == [u \in DOMAIN f \ {t} |-> f[u]]

-----------------------------------------------------------------------------
(* The handlers' parts.  A CHECK that fails is recorded in failed.         *)

Fail(st, check) == [st EXCEPT !.failed = @ \cup {check}]

MastersDiffer == "masters don't match for same key"

\* A transaction goes to the next worker, or to the one it went to before.
Dispatch(st, t) ==
  IF t \notin DOMAIN st.holder THEN Fail(st, "dispatched txn does not exist")
  ELSE LET w == IF st.holder[t].worker = NoRegion THEN st.current_worker
                                                  ELSE st.holder[t].worker
       IN  [st EXCEPT !.holder[t].dispatches = @ + 1,
                      !.holder[t].worker = w,
                      !.current_worker = (@ + 1) % NumWorkers,
                      !.inbox[w] = Append(@, t)]

DispatchAll(st, T) == FoldLeft(Dispatch, st, SetToSeq(T))

LMAcquire(lm, p) ==
  IF build = "COUNTERLESS" THEN RMA!AcquireLocks(lm, p[1], p[2], TxnKeys[p[1]], IsRemaster(p[1]))
                           ELSE OLD!AcquireLocks(lm, p[1], p[2], TxnKeys[p[1]])

LMRelease(lm, t) == IF build = "COUNTERLESS" THEN RMA!ReleaseLocks(lm, t) ELSE OLD!ReleaseLocks(lm, t)

SendToLockManager(st, p) ==
  LET lm == LMAcquire(st.lm, p)
  IN  IF RMA!IsReady(lm, p[1]) THEN Dispatch([st EXCEPT !.lm = lm], p[1])
                               ELSE [st EXCEPT !.lm = lm]

RMVerify(st, p) ==
  IF build = "SIMPLE" THEN REM!SimpleVerifyMaster(st.rm, p, storage)
                      ELSE REM!PerKeyVerifyMaster(st.rm, p, storage)

RMRelease(st, t) ==
  IF build = "SIMPLE" THEN REM!SimpleReleaseTransaction(st.rm, t, MasterRegions(t), storage)
                      ELSE REM!PerKeyReleaseTransaction(st.rm, t, storage)

RMOccured(st, k, metadata) ==
  IF build = "SIMPLE" THEN REM!SimpleRemasterOccured(st.rm, k, metadata)
                      ELSE REM!PerKeyRemasterOccured(st.rm, k, metadata)

\* Releases the locks of t and dispatches the transactions that got ready.
ReleaseAndDispatch(st, t) ==
  LET released == LMRelease(st.lm, t)
  IN  DispatchAll([st EXCEPT !.lm = released.lm], released.ready)

RECURSIVE TriggerPreDispatchAbort(_, _)

\* First the unblocked parts, then the aborts.
ProcessRemasterResult(st, r) ==
  LET aborting == {r.should_abort[i][1] : i \in DOMAIN r.should_abort}
      taken == IF r.fatal THEN Fail([st EXCEPT !.rm = r.queue], MastersDiffer)
                          ELSE [st EXCEPT !.rm = r.queue]
      checked == IF Cardinality(aborting) = Len(r.should_abort) THEN taken
                 ELSE Fail(taken, "duplicate transactions returned for abort")
  IN  FoldLeft(TriggerPreDispatchAbort,
               FoldLeft(SendToLockManager, checked, r.unblocked),
               SetToSeq(aborting))

TriggerPreDispatchAbort(st, t) ==
  IF st.holder[t].aborting THEN st
  ELSE LET marked == [st EXCEPT !.holder[t].aborting = TRUE]
           freed == IF build = "COUNTERLESS" THEN marked
                    ELSE ProcessRemasterResult(marked, RMRelease(marked, t))
       IN  Dispatch(ReleaseAndDispatch(freed, t), t)

SendToRemasterManager(st, p) ==
  LET v == RMVerify(st, p)
      queued == [st EXCEPT !.rm = v.queue]
  IN  CASE v.verdict = "VALID" -> SendToLockManager(queued, p)
        [] v.verdict = "ABORT" -> TriggerPreDispatchAbort(queued, p[1])
        [] v.verdict = "WAITING" -> queued
        [] v.verdict = "FATAL" -> Fail(queued, MastersDiffer)

-----------------------------------------------------------------------------
(* Actions *)

Init ==
  /\ \E sc \in Scenarios : build = sc.build /\ logs = sc.logs
  /\ position = [h \in Region |-> 0]
  /\ storage = [k \in Key |-> [master |-> InitialMaster[k], counter |-> 0]]
  /\ s = [holder |-> <<>>, lm |-> OLD!EmptyManager,
          rm |-> IF build = "SIMPLE" THEN [h \in Region |-> <<>>] ELSE [k \in Key |-> <<>>],
          inbox |-> [w \in Worker |-> <<>>], outbox |-> [w \in Worker |-> <<>>],
          current_worker |-> 0, failed |-> {}]
  /\ running = [w \in Worker |-> <<>>]
  /\ outcome = [t \in Txn |-> "none"]

Admit(st, p) == IF build = "COUNTERLESS" THEN SendToLockManager(st, p)
                                         ELSE SendToRemasterManager(st, p)

\* The next entry of the log of home h: a new transaction, or a further part
\* of a known one, which an aborted transaction only counts.
ProcessTransaction(h) ==
  /\ position[h] < Len(logs[h])
  /\ position' = [position EXCEPT ![h] = @ + 1]
  /\ LET t == logs[h][position[h] + 1]
         added == [s EXCEPT !.holder[t] = AddLockOnlyTxn(@, h)]
     IN  s' = IF t \notin DOMAIN s.holder
                THEN Admit([s EXCEPT !.holder = (t :> NewHolder(t, h)) @@ @], <<t, h>>)
              ELSE IF h \in s.holder[t].lo_txns THEN s
              ELSE IF ~s.holder[t].aborting
                THEN IF s.holder[t].main \in s.holder[t].lo_txns THEN Admit(added, <<t, h>>)
                     ELSE Fail(added, "the transaction of the holder is gone")
              ELSE IF IsReadyForGC(added.holder[t]) THEN [added EXCEPT !.holder = Erase(@, t)]
              ELSE added
  /\ UNCHANGED <<build, logs, storage, running, outcome>>

\* Mutant: the worker trusts the check of the remaster manager.
StaleNever(t) == FALSE

\* The metadata of every key is compared with the storage.
Stale(t) ==
  \/ \E i \in DOMAIN TxnKeys[t] : TxnKeys[t][i].master # storage[TxnKeys[t][i].key].master
  \/ build # "COUNTERLESS" /\ REM!CheckCounters(<<t, NoRegion>>, FALSE, storage) = "ABORT"

\* ReadLocalStorage.  A counter ahead of the storage is fatal, and so is an
\* equal one with another master.
WorkerRead(w) ==
  /\ running[w] = <<>>
  /\ s.inbox[w] # <<>>
  /\ LET t == Head(s.inbox[w])
         aborted == s.holder[t].aborting
         taken == [s EXCEPT !.inbox[w] = Tail(@)]
         verdict == IF aborted \/ build = "COUNTERLESS" THEN "VALID"
                    ELSE REM!CheckCounters(<<t, NoRegion>>, FALSE, storage)
     IN  /\ running' = [running EXCEPT ![w] =
                          <<t, IF aborted \/ Stale(t) THEN "ABORTED" ELSE "NOT_STARTED">>]
         /\ s' = CASE verdict = "WAITING" -> Fail(taken, "txn sent to worker with a high counter")
                   [] verdict = "FATAL" -> Fail(taken, MastersDiffer)
                   [] OTHER -> taken
  /\ UNCHANGED <<build, logs, position, storage, outcome>>

\* Execute and Finish.  A remaster transaction is executed whatever its status.
WorkerExecute(w) ==
  /\ running[w] # <<>>
  /\ LET t == running[w][1]
         kv == TxnKeys[t][1]
         finished == [s EXCEPT !.holder[t] = FinalizeAndRelease(@), !.outbox[w] = Append(@, t)]
     IN  IF IsRemaster(t)
           THEN /\ storage' = [storage EXCEPT ![kv.key] =
                                 [master |-> NewMaster[t], counter |-> kv.counter + 1]]
                /\ outcome' = [outcome EXCEPT ![t] = "COMMITTED"]
                /\ s' = [finished EXCEPT !.holder[t].remaster_result = <<kv.key>>]
           ELSE /\ outcome' = [outcome EXCEPT ![t] =
                                 IF running[w][2] = "ABORTED" THEN "ABORTED" ELSE "COMMITTED"]
                /\ s' = finished
                /\ UNCHANGED storage
  /\ running' = [running EXCEPT ![w] = <<>>]
  /\ UNCHANGED <<build, logs, position>>

\* The worker's answer: locks are released, parts that waited for a remaster
\* are let through, and the holder goes once all its parts were seen.
OnCustomSocket(w) ==
  /\ s.outbox[w] # <<>>
  /\ LET t == Head(s.outbox[w])
         released == ReleaseAndDispatch([s EXCEPT !.outbox[w] = Tail(@)], t)
         result == released.holder[t].remaster_result
         unblocked == IF build = "COUNTERLESS" \/ result = <<>> THEN released
                      ELSE ProcessRemasterResult(released, RMOccured(released, result[1], storage))
         done == [unblocked EXCEPT !.holder[t].done = TRUE]
     IN  s' = IF IsReadyForGC(done.holder[t]) THEN [done EXCEPT !.holder = Erase(@, t)] ELSE done
  /\ UNCHANGED <<build, logs, position, storage, running, outcome>>

Next ==
  \/ \E h \in Region : ProcessTransaction(h)
  \/ \E w \in Worker : WorkerRead(w) \/ WorkerExecute(w) \/ OnCustomSocket(w)

Spec == Init /\ [][Next]_vars

-----------------------------------------------------------------------------
(* Properties *)

Conflict(t, u, k) ==
  \E i \in DOMAIN TxnKeys[t], j \in DOMAIN TxnKeys[u] :
    /\ TxnKeys[t][i].key = k /\ TxnKeys[u][j].key = k
    /\ TxnKeys[t][i].type = "WRITE" \/ TxnKeys[u][j].type = "WRITE"

MetadataOf(t, k) == LET i == CHOOSE i \in DOMAIN TxnKeys[t] : TxnKeys[t][i].key = k
                    IN  [master |-> TxnKeys[t][i].master, counter |-> TxnKeys[t][i].counter]

\* Dispatched with its locks, and not yet answered by its worker.
InExecution(t) ==
  /\ t \in DOMAIN s.holder
  /\ s.holder[t].dispatches > 0 /\ ~s.holder[t].aborting
  /\ t \in DOMAIN s.lm.info

Idle ==
  /\ \A h \in Region : position[h] = Len(logs[h])
  /\ \A w \in Worker : s.inbox[w] = <<>> /\ s.outbox[w] = <<>> /\ running[w] = <<>>

\* Types of the scheduler's tables.
TypeOK ==
  /\ DOMAIN s.holder \subseteq Txn
  /\ DOMAIN s.lm.info \subseteq DOMAIN s.holder
  /\ \A t \in DOMAIN s.holder : s.holder[t].num_lo \in 1..Cardinality(Region)
  /\ \A t \in DOMAIN s.lm.info : s.lm.info[t].num_waiting_for \in Nat
  /\ s.lm.num_locked_keys \in Nat
  /\ outcome \in [Txn -> {"none", "COMMITTED", "ABORTED"}]

\* No CHECK of the scheduler fails: every dispatched transaction has a holder,
\* a lock-only part always finds its transaction, no transaction is returned
\* twice for abort by the remaster manager, none reaches a worker with a counter
\* ahead of the storage, and wherever a counter equals that of the storage so
\* does the master.
ChecksHold == s.failed = {}

\* num_waiting_for of both lock managers is the number of locks of the
\* transaction it does not hold, and num_locked_keys_ the number of entries
\* that are locked, through waits, hand-overs, aborts and erased entries.
LockCountersExact ==
  LET table == s.lm.table
      locks(t) == IF build = "COUNTERLESS" /\ IsRemaster(t) THEN 2 ELSE Len(TxnKeys[t])
  IN  /\ \A t \in DOMAIN s.lm.info :
           s.lm.info[t].num_waiting_for =
             locks(t) - Cardinality({k \in DOMAIN table : t \in table[k].holders})
      /\ s.lm.num_locked_keys = Cardinality({k \in DOMAIN table : table[k].mode # "UNLOCKED"})

\* Two transactions in execution never conflict on a lock: OLD locks the key,
\* RMA the key in the region the transaction took it to be mastered in.
ExecutionExclusive ==
  \A t, u \in {v \in Txn : InExecution(v)}, k \in Key :
    t # u /\ Conflict(t, u, k) =>
      build = "COUNTERLESS" /\ MetadataOf(t, k).master # MetadataOf(u, k).master

\* "If transaction X appears before transaction Y in the log, X always gets all
\* locks before Y": of two conflicting transactions of one log that agree on
\* the master of the key, the later is in execution only when the earlier left or
\* aborts.
LogOrder ==
  \A h \in Region : \A i, j \in DOMAIN logs[h] :
    LET x == logs[h][i]
        y == logs[h][j]
    IN  i < j /\ x # y /\ InExecution(y) =>
          \A k \in Key :
            Conflict(x, y, k) /\ MetadataOf(x, k) = MetadataOf(y, k) /\ MetadataOf(x, k).master = h
              => ~InExecution(x) /\ (outcome[x] # "none" \/ s.holder[x].aborting)

\* An earlier remaster in the log of its home took one of t's keys away.
Overtaken(t) ==
  \E h \in Region : \E i, n \in DOMAIN logs[h] :
    LET r == logs[h][i]
    IN  /\ logs[h][n] = t /\ i < n /\ IsRemaster(r)
        /\ \E j \in DOMAIN TxnKeys[t] :
             /\ TxnKeys[t][j].key = TxnKeys[r][1].key
             /\ TxnKeys[t][j].master = h
             /\ MetadataOf(t, TxnKeys[t][j].key) = MetadataOf(r, TxnKeys[t][j].key)

\* Whether a transaction commits is decided by the logs alone, not by how the
\* scheduler interleaves them with its workers, so all replicas agree: it
\* aborts exactly when, for one of its keys, an earlier remaster in the log of
\* the key's home moved the key away.
OutcomeFixedByLogs ==
  \A t \in Txn : outcome[t] # "none" => (outcome[t] = "ABORTED" <=> Overtaken(t))

\* Nothing is left behind: when the logs are consumed and the workers idle, no
\* lock is held, no part is blocked, every transaction finished and its holder
\* is gone.  The exception is the holder of a remaster transaction in the
\* COUNTERLESS build, which waits for one part and gets two.
CleanAtRest ==
  Idle =>
    /\ DOMAIN s.lm.info = {} /\ s.lm.num_locked_keys = 0
    /\ \A q \in DOMAIN s.rm : s.rm[q] = <<>>
    /\ \A t \in DOMAIN s.holder : build = "COUNTERLESS" /\ IsRemaster(t)
    /\ \A h \in Region : \A n \in DOMAIN logs[h] : outcome[logs[h][n]] # "none"

\* A key's metadata change only while no other transaction in execution has the
\* key with the master the storage says: "if two transactions hold separate
\* locks for the same key, then one has an incorrect master and will be
\* aborted" (ddr_lock_manager.h, rma_lock_manager.h).
RemasterAlone ==
  \A k \in Key, t \in Txn :
    /\ storage'[k] # storage[k]
    /\ InExecution(t) /\ outcome[t] = "none"
    /\ \E i \in DOMAIN TxnKeys[t] : TxnKeys[t][i].key = k
    /\ MetadataOf(t, k).master = storage[k].master
    => outcome'[t] # "none"
=============================================================================
