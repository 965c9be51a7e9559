----------------------------- MODULE MCLocking ------------------------------
(***************************************************************************)
(* The parts that decide when a transaction may execute, each on its own   *)
(* small instance: the DDR lock manager (extended), the deadlock resolver  *)
(* of several partitions, and the scheduler with the other lock managers   *)
(* and the remaster managers.  `part' says which one a behaviour is about; *)
(* the others do not move.                                                 *)
(***************************************************************************)
EXTENDS DDRLockManager

CONSTANTS Parts,            \* which of them this run checks
          DeadlockReads, DeadlockWrites, DeadlockLog,
          SchedulerRegion, SchedulerScenarios

-----------------------------------------------------------------------------
(* DDR lock manager: four transactions on three locks of two regions.  A   *)
(* chain of writers and readers on x, two multi-home transactions whose    *)
(* lock-only parts may arrive in either order (so a waiter can be listed   *)
(* twice), and a pair that can deadlock.                                   *)

MCTxn == 1..4
MCKeyRegion == {"x0", "y0", "z1"}
MCRegion == {0, 1}
MCHome == [k \in MCKeyRegion |-> IF k = "z1" THEN 1 ELSE 0]
MCReads == [t \in MCTxn |-> CASE t = 1 -> {} [] t = 2 -> {"x0"} [] t = 3 -> {"x0", "z1"}
                              [] t = 4 -> {}]
MCWrites == [t \in MCTxn |-> CASE t = 1 -> {"x0", "z1"} [] t = 2 -> {"y0"} [] t = 3 -> {}
                               [] t = 4 -> {"x0", "y0", "z1"}]

-----------------------------------------------------------------------------
(* Deadlock resolver: partition 1 owns A (home 0) and C (home 1),          *)
(* partition 2 owns B (home 1).                                            *)

DeadlockKeyRegion == {"A0", "C1", "B1"}
DeadlockHome == [k \in DeadlockKeyRegion |-> IF k = "A0" THEN 0 ELSE 1]
DeadlockPartitionOf == [k \in DeadlockKeyRegion |-> IF k = "B1" THEN 2 ELSE 1]

\* Three transactions write A and B and meet in different orders in the two
\* regions' logs: the distributed deadlock of the comment at the top of
\* module/scheduler.cpp.  Transaction 3 also reads C, and so comes to partition
\* 1 in two lock-only parts.
CycleReads == [t \in 1..3 |-> IF t = 3 THEN {"C1"} ELSE {}]
CycleWrites == [t \in 1..3 |-> {"A0", "B1"}]
CycleLog == [h \in 0..1 |-> IF h = 0 THEN <<1, 2, 3>> ELSE <<3, 2, 1>>]

\* Transactions 1 and 2 are multi-home and multi-partition and meet in opposite
\* orders in the two regions' logs; transaction 3 is single-home and
\* single-partition and is ahead of both on A.
AheadReads == [t \in 1..3 |-> IF t = 2 THEN {"C1"} ELSE {}]
AheadWrites == [t \in 1..3 |-> IF t = 3 THEN {"A0"} ELSE {"A0", "B1"}]
AheadLog == [h \in 0..1 |-> IF h = 0 THEN <<3, 2, 1>> ELSE <<1, 2>>]

-----------------------------------------------------------------------------
(* Scheduler: eight transactions on three keys, two of them remaster a.    *)

KV(k, type, m, c) == [key |-> k, type |-> type, master |-> m, counter |-> c]

NoNewMaster == -1
SchedulerTxnKeys ==
  <<  <<KV("a", "WRITE", 0, 0)>>,
      <<KV("a", "WRITE", 0, 0)>>,
      <<KV("a", "WRITE", 1, 1)>>,
      <<KV("a", "READ", 0, 0), KV("b", "WRITE", 1, 0)>>,
      <<KV("a", "READ", 0, 0)>>,
      <<KV("b", "READ", 1, 0)>>,
      <<KV("a", "WRITE", 0, 0)>>,
      <<KV("c", "WRITE", 0, 0), KV("a", "READ", 1, 1)>>  >>
SchedulerNewMaster == <<-1, 1, -1, -1, -1, -1, 2, -1>>
SchedulerInitialMaster == [k \in {"a", "b", "c"} |-> IF k = "b" THEN 1 ELSE 0]

Pos(log, t) == CHOOSE i \in DOMAIN log : log[i] = t
Pair(l0, l1) == [h \in 0..1 |-> IF h = 0 THEN l0 ELSE l1]
Logs(S) == {f \in [1..Cardinality(S) -> S] : \A i, j \in DOMAIN f : f[i] = f[j] => i = j}

\* 3 was issued where the remaster 2 had been executed, after everything before
\* 2 in its log.
CounterScenarios(A, B) ==
  {sc \in {[build |-> b, logs |-> Pair(l0, l1)] :
             b \in {"SIMPLE", "PER_KEY"}, l0 \in Logs(A), l1 \in Logs(B)} :
     Pos(sc.logs[0], 4) < Pos(sc.logs[0], 2) => Pos(sc.logs[1], 4) < Pos(sc.logs[1], 3)}

\* The multi-home orderer puts 2 and 4 in one order, and 3 follows 2.
CounterlessScenarios ==
  {sc \in {[build |-> "COUNTERLESS", logs |-> Pair(l0, l1)] :
             l0 \in Logs({1, 2, 4, 5}), l1 \in Logs({2, 3, 4})} :
     /\ Pos(sc.logs[1], 2) < Pos(sc.logs[1], 3)
     /\ Pos(sc.logs[0], 2) < Pos(sc.logs[0], 4) <=> Pos(sc.logs[1], 2) < Pos(sc.logs[1], 4)}

AllScenarios == CounterScenarios({1, 2, 4}, {3, 4, 6}) \cup CounterlessScenarios

\* Two clients remaster a at once, to different regions: 7 follows 2 in the log
\* of the region both take a from.
StaleScenarios ==
  {[build |-> "COUNTERLESS",
    logs |-> [h \in 0..2 |-> CASE h = 0 -> <<2, 7>> [] h = 1 -> <<2, 3>> [] h = 2 -> <<7>>]]}

\* 8 has a key of home 0 and one that the remaster 2 brings to home 1.
WakeupScenarios == {[build |-> "PER_KEY", logs |-> Pair(<<2, 8>>, <<3, 8>>)]}

-----------------------------------------------------------------------------
(* The parts together.                                                     *)

VARIABLES part,
          \* of the deadlock resolver
          locks, txns, waiters, waiting_for, missing, deadlocked, log, pending, graph,
          updates, to_be_updated, fresh, net, ready_txns, signals, taken, runs,
          dispatches, resolved,
          \* of the scheduler
          build, logs, position, storage, s, running, outcome

DR == INSTANCE DeadlockResolver WITH
        Txn <- 1..3, KeyRegion <- DeadlockKeyRegion, Region <- {0, 1}, Home <- DeadlockHome,
        Reads <- DeadlockReads, Writes <- DeadlockWrites, Partition <- {1, 2},
        PartitionOf <- DeadlockPartitionOf, HomeLog <- DeadlockLog,
        lock_table <- locks, live <- txns, waited_by <- waiters,
        num_waiting_for <- waiting_for, unarrived <- missing, position <- taken
SC == INSTANCE Scheduler WITH
        Txn <- 1..8, Region <- SchedulerRegion, Key <- {"a", "b", "c"},
        TxnKeys <- SchedulerTxnKeys, NewMaster <- SchedulerNewMaster,
        NoRegion <- NoNewMaster, InitialMaster <- SchedulerInitialMaster,
        NumWorkers <- 2, kLockTableSizeLimit <- 1, Scenarios <- SchedulerScenarios

resolverVars == <<locks, txns, waiters, waiting_for, missing, deadlocked, log, pending, graph,
                  updates, to_be_updated, fresh, net, ready_txns, signals, taken, runs,
                  dispatches, resolved>>
schedulerVars == <<build, logs, position, storage, s, running, outcome>>
allVars == <<part, vars, resolverVars, schedulerVars>>

Off4(a, b, c, d) == a = <<>> /\ b = <<>> /\ c = <<>> /\ d = <<>>
ResolverOff ==
  /\ Off4(locks, txns, waiters, waiting_for) /\ Off4(missing, deadlocked, log, pending)
  /\ Off4(updates, to_be_updated, fresh, net) /\ Off4(ready_txns, signals, taken, runs)
  /\ graph = <<>> /\ dispatches = <<>> /\ resolved = <<>>
SchedulerOff == Off4(build, logs, position, storage) /\ s = <<>> /\ running = <<>> /\ outcome = <<>>

LockingInit ==
  /\ part \in Parts
  /\ Init
  /\ \/ part = "DDR" /\ ResolverOff /\ SchedulerOff
     \/ part = "resolver" /\ DR!Init /\ SchedulerOff
     \/ part = "scheduler" /\ SC!Init /\ ResolverOff

DDRStep == part = "DDR" /\ Next /\ UNCHANGED <<part, resolverVars, schedulerVars>>
ResolverAlone == part = "resolver" /\ UNCHANGED <<part, vars, schedulerVars>>
ResolverStep == ResolverAlone /\ DR!Next
SchedulerStep ==
  part = "scheduler" /\ SC!Next /\ UNCHANGED <<part, vars, resolverVars>>

LockingNext == DDRStep \/ ResolverStep \/ SchedulerStep

\* The fairness of DeadlockResolver, for the part that runs.
LockingFairness ==
  \A p \in {1, 2} :
    /\ \A h \in {0, 1} : WF_allVars(ResolverAlone /\ DR!AcquireLocks(p, h))
    /\ WF_allVars(ResolverAlone /\ DR!AppendLog(p))
    /\ \A t \in 1..3 : WF_allVars(ResolverAlone /\ DR!ReleaseLocks(p, t))
    /\ WF_allVars(ResolverAlone /\ DR!OnSignal(p))
    /\ WF_allVars(ResolverAlone /\ DR!ResolverRun(p))
    /\ WF_allVars(ResolverAlone /\ DR!ApplyUpdates(p))
    /\ WF_allVars(ResolverAlone /\ DR!PublishReady(p))
    /\ \A q \in {1, 2} : WF_allVars(ResolverAlone /\ DR!ReceiveGraphLog(p, q))

LockingSafety == LockingInit /\ [][LockingNext]_allVars
LockingSpec == LockingSafety /\ LockingFairness

-----------------------------------------------------------------------------
(* Properties: those of the part that runs, as its module states them. *)

\* Every table has its type, and no CHECK fails: in the resolver and in
\* ReleaseLocks, no dangling edge and no resolved, ready or released
\* transaction that is not there; in the scheduler, every dispatched
\* transaction has a holder, a lock-only part finds its transaction, the
\* remaster manager returns no transaction twice for abort, and in the builds
\* with counters no transaction reaches a worker with a counter ahead of the
\* storage, and one with the counter of the storage has its master too (the
\* CHECK of remaster_manager.h:90).  The logs remaster a key once: two remasters
\* at once are another matter (RemasterAlone).
TypesAndChecks ==
  /\ TypeOK
  /\ part = "resolver" => DR!TypeOK /\ DR!ChecksHold
  /\ part = "scheduler" => SC!TypeOK /\ SC!ChecksHold

\* The counter a transaction waits on is never off by one: num_waiting_for
\* counts the entries naming the transaction in the waited-by lists of
\* transactions still in txn_info_, after every step of every thread, resolver
\* updates included; with OLD and RMA it is the number of locks the transaction
\* does not hold, through waits, hand-overs, aborts and erased entries.
CountersExact ==
  /\ WaitCountExact
  /\ part = "resolver" => DR!WaitCountExact
  /\ part = "scheduler" => SC!LockCountersExact

\* The resolver's copy of a waited-by list is a prefix of the lock manager's,
\* so overwriting it loses no newer waiter (ddr_lock_manager.cpp:301).
SnapshotIsPrefix == part = "resolver" => DR!SnapshotIsPrefix

\* Two components resolved at any two partitions are equal or disjoint, so
\* every partition chains the same transactions in the same order.
ResolutionAgreement == part = "resolver" => DR!ResolutionAgreement

\* Scheduler::Dispatch and Worker::OnCustomSocket accept a dispatch only of a
\* live transaction, once per flag, and never after the deadlocked one.
DispatchLegal == [][part = "resolver" => DR!DispatchLegal]_allVars

\* Every transaction of the logs eventually runs and releases its locks at
\* every partition: no deadlock stays undetected and no wakeup is lost.
AllComplete == <>[](part = "resolver" => DR!Finished)

\* No two conflicting transactions can execute at a partition at the same
\* time: a transaction that does not get its locks "is queued up to wait for
\* the current holders to release" (ddr_lock_manager.h:106-108).
NoConflictingExecution == part = "resolver" => DR!NoConflictingExecution

\* Two transactions in execution never conflict on a lock: OLD locks the key,
\* RMA the key in the region the transaction took it to be mastered in.
ExecutionExclusive == part = "scheduler" => SC!ExecutionExclusive

\* "If transaction X appears before transaction Y in the log, X always gets all
\* locks before Y": of two conflicting transactions of one log that agree on
\* the master of the key, the later executes only when the earlier left or
\* aborts.
LogOrder == part = "scheduler" => SC!LogOrder

\* Whether a transaction commits is decided by the logs alone, not by how the
\* scheduler interleaves them with its workers, so all replicas agree.
OutcomeFixedByLogs == part = "scheduler" => SC!OutcomeFixedByLogs

\* When the logs are consumed and the workers idle, no lock is held, no part
\* blocked, every transaction finished and its holder gone, except the holder
\* of a remaster in the COUNTERLESS build, which expects one part and gets two.
CleanAtRest == part = "scheduler" => SC!CleanAtRest

\* A key's metadata change only while no other transaction in execution has the
\* key with the master the storage says: "if two transactions hold separate
\* locks for the same key, then one has an incorrect master and will be
\* aborted" (ddr_lock_manager.h, rma_lock_manager.h).
RemasterAlone == [][part = "scheduler" => SC!RemasterAlone]_allVars
=============================================================================
