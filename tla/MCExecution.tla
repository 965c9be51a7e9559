----------------------------- MODULE MCExecution ----------------------------
(***************************************************************************)
(* The parts that execute transactions or order them for execution, each   *)
(* on its own small instances: the workers of a multi-partition            *)
(* transaction and their brokers, the order the deadlock resolver gives to *)
(* a deadlock, the Janus schedulers, the Janus (and SLOG) execution of a   *)
(* key-value program, and the TPC-C procedures with their workload.        *)
(* `part' says which one a behaviour is about; the others do not move.     *)
(* Variables of the same name are shared.                                  *)
(***************************************************************************)
EXTENDS Integers, Sequences, FiniteSets, TLC

CONSTANTS Parts,   \* which of them this run checks
          WorkerScenarios, Transactions, NoValue

-----------------------------------------------------------------------------
(* Workers: two partitions, every outdated master and every place of a     *)
(* deadlock, and the lock managers with which only the active partitions   *)
(* wait; three partitions with and without a deadlock.                     *)

Multi(parts, ddr, active, outdated, stuck) ==
  [parts |-> parts, ddr |-> ddr, active |-> active, outdated |-> outdated, stuck |-> stuck]

AllMulti ==
  {Multi({1, 2}, TRUE, {1, 2}, o, st) : o \in SUBSET {1, 2}, st \in SUBSET {1, 2}}
    \cup {Multi({1, 2}, FALSE, a, o, {}) : a \in SUBSET {1, 2} \ {{}}, o \in SUBSET {1, 2}}
    \cup {Multi(1..3, TRUE, 1..3, o, {}) : o \in {{}, {1}}}
    \cup {Multi(1..3, TRUE, 1..3, {}, {2, 3})}

OneStuck == {Multi(1..3, TRUE, 1..3, {}, {3})}

-----------------------------------------------------------------------------
(* Janus schedulers *)

D(t, p) == [txn |-> t, target |-> p]

JanusScenarios ==
  { \* a chain and a cycle on one partition
    [deps |-> <<<<>>, <<D(1, 1)>>, <<D(2, 1)>>>>, parts |-> [t \in 1..3 |-> {1}]],
    [deps |-> <<<<D(2, 1)>>, <<D(3, 1)>>, <<D(1, 1)>>>>, parts |-> [t \in 1..3 |-> {1}]],
    \* two missing dependencies
    [deps |-> <<<<>>, <<>>, <<D(1, 1), D(2, 1)>>>>, parts |-> [t \in 1..3 |-> {1}]],
    \* partition 2 hears of transaction 1 through 2 only
    [deps |-> <<<<>>, <<D(1, 1)>>, <<D(2, 2)>>>>, parts |-> <<{1}, {1, 2}, {2}>>],
    \* a cycle of three through two partitions
    [deps |-> <<<<D(2, 1)>>, <<D(3, 1), D(3, 2)>>, <<D(1, 1)>>>>,
     parts |-> <<{1}, {1, 2}, {1, 2}>>],
    \* a chain over three partitions
    [deps |-> <<<<>>, <<D(1, 1)>>, <<D(2, 2)>>, <<D(3, 3)>>>>,
     parts |-> <<{1}, {1, 2}, {2, 3}, {3}>>],
    \* a reversed chain and a cycle at its end
    [deps |-> <<<<D(2, 1)>>, <<D(3, 1)>>, <<D(4, 2)>>, <<D(3, 2)>>>>,
     parts |-> <<{1}, {1}, {1, 2}, {2}>>] }

-----------------------------------------------------------------------------
(* Execution: programs on keys 1 and 2 of partition 1, 3 of partition 2    *)
(* and 4 of partition 3.                                                   *)

KeyPartition == <<1, 1, 2, 3>>

P(op, k, a) == [op |-> op, key |-> k, arg |-> a]

Programs ==
  { <<P("SET", 1, "x"), P("SET", 3, "y")>>,
    <<P("COPY", 1, 3), P("COPY", 3, 1)>>,
    <<P("SET", 1, "x"), P("COPY", 1, 3), P("EQ", 3, "b")>>,
    <<P("EQ", 4, "a"), P("SET", 2, "x")>>,
    <<P("COPY", 2, 4), P("DEL", 1, NoValue), P("SET", 4, "z")>>,
    <<P("GET", 1, NoValue), P("SET", 5, "x"), P("COPY", 3, 2)>> }

KeyLists ==
  { <<<<1, "WRITE">>, <<3, "WRITE">>>>,
    <<<<1, "WRITE">>, <<2, "WRITE">>>>,
    <<<<2, "READ">>, <<1, "WRITE">>, <<3, "READ">>, <<4, "WRITE">>>>,
    <<<<4, "READ">>, <<3, "WRITE">>, <<2, "WRITE">>>> }

Stores == {1 :> "a" @@ 2 :> "a" @@ 3 :> "b" @@ 4 :> "a", 1 :> "a" @@ 4 :> "b"}

Has(list, k) == \E i \in DOMAIN list : list[i][1] = k

AllTransactions ==
  {t \in [janus : BOOLEAN, keys : KeyLists, program : Programs, store : Stores, server : BOOLEAN,
          noop : BOOLEAN] :
     \A i \in DOMAIN t.program : t.program[i].op = "DEL" => Has(t.keys, t.program[i].key)}
SlogTransactions == {t \in AllTransactions : ~t.janus}
JanusTransactions == {t \in AllTransactions : t.janus /\ ~t.noop}

-----------------------------------------------------------------------------
(* TPC-C: small warehouses in several deployments, and how many            *)
(* transactions of each kind are generated.                                *)

Limit(no, pay, os, del, sl, bad) ==
  [new_order |-> no, payment |-> pay, order_status |-> os, deliver |-> del,
   stock_level |-> sl, malformed |-> bad]

Deployment(regions, replicas, partitions, generators, sh_only, limit) ==
  [regions |-> regions, replicas |-> replicas, partitions |-> partitions,
   warehouses |-> partitions * (IF regions = 1 THEN replicas ELSE regions),
   homes |-> 2, sh_only |-> sh_only, generators |-> generators, limit |-> limit]

Deployments ==
  {Deployment(1, 1, 1, 1, FALSE, Limit(1, 1, 0, 3, 0, 0)),
   Deployment(1, 1, 1, 1, FALSE, Limit(2, 0, 0, 1, 0, 1)),
   Deployment(1, 1, 1, 2, FALSE, Limit(2, 0, 0, 0, 0, 0)),
   Deployment(1, 1, 1, 2, FALSE, Limit(0, 2, 0, 0, 0, 0)),
   Deployment(2, 1, 2, 1, FALSE, Limit(1, 1, 0, 0, 0, 0)),
   Deployment(2, 1, 1, 1, FALSE, Limit(0, 2, 0, 1, 0, 0)),
   Deployment(2, 1, 1, 1, TRUE, Limit(1, 0, 0, 0, 1, 0)),
   Deployment(1, 2, 1, 1, FALSE, Limit(1, 0, 1, 1, 0, 0))}

-----------------------------------------------------------------------------
(* The parts together. *)

VARIABLES part,
          scenario, sched, keys, net, failed, store, phase,  \* of several parts
          version, signalled, status, states, redirect, control, channel, decision,
          edges, incomplete, is_stable, queue, st, is_visited, dfs_order, graph, scc, sccs,
          commits, executing,
          txn, waiting, answers, reported,
          ids, max_o_id, made, pending, done

W == INSTANCE Worker WITH Partition <- 1..3, Scenarios <- WorkerScenarios
SO == INSTANCE SCCOrder WITH Node <- 1..4, MaxIncomplete <- 1
JS == INSTANCE JanusScheduler WITH Partition <- 1..3, Scenarios <- JanusScenarios
JW == INSTANCE JanusWorker WITH Partition <- 1..3, PartitionOf <- KeyPartition
TP == INSTANCE TPCC WITH
        kMaxItems <- 2, kDistPerWare <- 1, kCustPerDist <- 1, kOrdPerDist <- 2,
        kLinePerOrder <- 2, kLastDelivered <- 1, kStatusWindow <- 1, kStockWindow <- 1,
        kDataGenThreads <- 3, InitialStock <- {10}, Quantities <- {10}, Amounts <- {100, 200},
        Garbage <- {0, 7}, Scenarios <- Deployments

workerVars == <<version, signalled, status, states, redirect, control, channel, decision>>
orderVars == <<edges, incomplete, is_stable, queue, st, is_visited, dfs_order, graph, scc, sccs>>
janusVars == <<commits, executing>>
executionVars == <<txn, waiting, answers, reported>>
tpccVars == <<ids, max_o_id, made, pending, done>>
allVars == <<part, scenario, sched, keys, net, failed, store, phase, workerVars, orderVars,
             janusVars, executionVars, tpccVars>>

Off(v) == v = <<>>
WorkerOff ==
  /\ Off(version) /\ Off(signalled) /\ Off(status) /\ Off(states) /\ Off(redirect)
  /\ Off(control) /\ Off(channel) /\ Off(decision)
OrderOff ==
  /\ Off(edges) /\ Off(incomplete) /\ Off(is_stable) /\ Off(queue) /\ Off(st)
  /\ Off(is_visited) /\ Off(dfs_order) /\ Off(graph) /\ Off(scc) /\ Off(sccs)
JanusOff == Off(commits) /\ Off(executing)
ExecutionOff == Off(txn) /\ Off(waiting) /\ Off(answers) /\ Off(reported)
TpccOff == Off(ids) /\ Off(max_o_id) /\ Off(made) /\ Off(pending) /\ Off(done)

ExecutionInit ==
  /\ part \in Parts
  /\ \/ /\ part = "worker" /\ W!Init
        /\ Off(store) /\ Off(phase) /\ OrderOff /\ JanusOff /\ ExecutionOff /\ TpccOff
     \/ /\ part = "order" /\ SO!Init
        /\ Off(scenario) /\ Off(sched) /\ Off(keys) /\ Off(net) /\ Off(failed) /\ Off(store)
        /\ WorkerOff /\ JanusOff /\ ExecutionOff /\ TpccOff
     \/ /\ part = "janus" /\ JS!Init
        /\ Off(keys) /\ Off(store) /\ Off(phase)
        /\ WorkerOff /\ OrderOff /\ ExecutionOff /\ TpccOff
     \/ /\ part = "execution" /\ JW!Init
        /\ Off(scenario) /\ Off(sched) /\ Off(failed)
        /\ WorkerOff /\ OrderOff /\ JanusOff /\ TpccOff
     \/ /\ part = "TPC-C" /\ TP!TpccInit
        /\ Off(sched) /\ Off(keys) /\ Off(net) /\ Off(failed) /\ Off(phase)
        /\ WorkerOff /\ OrderOff /\ JanusOff /\ ExecutionOff

WorkerStep ==
  /\ part = "worker" /\ W!Next
  /\ UNCHANGED <<part, store, phase, orderVars, janusVars, executionVars, tpccVars>>
OrderStep ==
  /\ part = "order" /\ SO!Next
  /\ UNCHANGED <<part, scenario, sched, keys, net, failed, store, workerVars, janusVars,
                 executionVars, tpccVars>>
JanusStep ==
  /\ part = "janus" /\ JS!Next
  /\ UNCHANGED <<part, keys, store, phase, workerVars, orderVars, executionVars, tpccVars>>
ExecutionStep ==
  /\ part = "execution" /\ JW!Next
  /\ UNCHANGED <<part, scenario, sched, failed, workerVars, orderVars, janusVars, tpccVars>>
TpccStep ==
  /\ part = "TPC-C" /\ TP!TpccNext
  /\ UNCHANGED <<part, sched, keys, net, failed, phase, workerVars, orderVars, janusVars,
                 executionVars>>

ExecutionNext == WorkerStep \/ OrderStep \/ JanusStep \/ ExecutionStep \/ TpccStep

ExecutionSpec == ExecutionInit /\ [][ExecutionNext]_allVars

-----------------------------------------------------------------------------
(* Properties: those of the part that runs, as its module states them. *)

\* Every table has its type, every stored row of TPC-C is empty or whole, and
\* no CHECK fails: a run is dispatched to a worker once and no remote read
\* reaches a transaction that was handed back; a transaction enters the graph
\* of a Janus scheduler once and is dispatched once, whatever order commits and
\* inquiry results come in.
TypesAndChecks ==
  /\ part = "worker" => W!TypeOK /\ W!WorkerChecksHold
  /\ part = "janus" => JS!TypeOK /\ JS!SchedulerChecksHold
  /\ part = "TPC-C" => TP!TpccTypeOK

\* The partitions that wait for each other's reads decide alike, whether one
\* of them has an outdated master, the program aborts, or a deadlock made them
\* start over with some of the messages of the first run still under way.
\* Those that commit computed from the same values, the ones the keys had when
\* the committing run read them.
SameDecision == part = "worker" => W!SameDecision /\ W!SameReads

\* No read is lost between the brokers and the workers, early or late: when
\* nothing is under way every partition has finished, and no worker keeps the
\* state of a run.  A broker keeps for ever only buffered reads of the first run
\* of a transaction that was in a deadlock.
AllFinish == part = "worker" => W!AllFinish /\ W!OnlyFirstRunsLeak

\* The comment on the two dispatches in scheduler.cpp: "the remote reads will
\* only be applied to the dispatch with the same 'deadlocked' flag".  A
\* transaction of any number of partitions commits on the values its last
\* dispatch read.
ReadsOfSameDispatch == part = "worker" => W!ReadsOfSameDispatch

\* The nodes called stable when the search starts are exactly those no
\* incomplete node reaches (the CHECK of ddr_lock_manager.cpp:361), and the
\* components handed to ResolveDeadlock are exactly the strongly connected
\* components of the graph of the stable ones.
ComponentsExact == part = "order" => SO!StableExact /\ SO!ComponentsExact

\* Nothing is dispatched before what it depends on is known: its dependencies,
\* the transactions they depend on and so forth are dispatched by the same handler
\* or before, or are over; the order within a handler is not promised (the
\* on_stack that tarjan.cpp:48-61 leaves set can reverse it).  A partition that
\* takes part in a transaction considers it over exactly when its own worker has
\* executed it, however the horizon and its buffer grew.
DispatchClosed == part = "janus" => JS!DispatchClosed /\ JS!HorizonExact

\* No transaction is forgotten by a Janus scheduler: when nothing can happen
\* any more, every participant has executed it and nobody waits for anything.
AllExecuted == part = "janus" => JS!AllExecuted

\* A transaction over several partitions has the effect it has on one machine:
\* the remote reads give every partition the values it needs, all partitions
\* finish and decide alike, each writes its own keys, and nothing is written
\* after an abort.
AsOnOneMachine == part = "execution" => JW!AsOnOneMachine

\* The consistency of the database, in whatever order transactions execute: what
\* the districts of a warehouse gained is what the warehouse gained, and all
\* the warehouses together what the customers paid; a stock is never sold out
\* nor overfull; an order has all its lines and waits for its delivery exactly
\* while NEW_ORDER says so.  With one generator in a region (two of them give
\* out the same ids) the history records what the customers paid, and when
\* nothing is on its way a district's orders are numbered without gaps up to
\* its next order id.
BooksBalance ==
  part = "TPC-C" => TP!BooksBalance /\ TP!StockInRange /\ TP!OrderComplete /\ TP!OrdersNumbered

\* What the workload generates commits, and only that: the keys fixed when a
\* transaction was made are enough when it executes, whatever was executed in
\* between, and the profile says of its homes and partitions what its keys do.
\* Every warehouse, district, customer, item and stock row an order or payment
\* reads was loaded at its partition, except the items of all replicas but the
\* first in a deployment of one region with several: workload/tpcc.cpp:234
\* counts replicas where load_tables.cpp:197-203 counts regions, so that these
\* orders commit with a price that was never loaded.
WorkloadCommits ==
  part = "TPC-C" => TP!WorkloadCommits /\ TP!ReadsLoadedRows /\ TP!ProfileTrue

\* A delivered order has all its lines delivered: Deliver dates every line of
\* an order it finds (deliver.cpp numbers them from 1, as its test does).
DeliveredWhole == part = "TPC-C" => TP!DeliveredWhole
=============================================================================
