-------------------------- MODULE DeadlockResolver --------------------------
(***************************************************************************)
(* The DDR lock managers of all partitions of one replica, each with its   *)
(* deadlock resolver thread, under the scheduler and worker protocol that  *)
(* calls them.  A partition has two threads that matter here: the          *)
(* scheduler thread (AcquireLocks, ReleaseLocks, the kSignal handler) and  *)
(* the resolver thread (Run, OnInternalRequestReceived); they meet at the  *)
(* latches of ddr_lock_manager.cpp, and a step of the model is what a      *)
(* thread does between two of them.  Resolvers exchange graph logs over    *)
(* FIFO links.  Every region's log reaches every partition in the same     *)
(* order; logs of different regions interleave freely at each partition.   *)
(***************************************************************************)
EXTENDS DDRLockTable, WaitGraph, SequencesExt

CONSTANTS Partition,
          PartitionOf,  \* the partition of each KeyRegion
          HomeLog       \* the transactions of each region's log, in order

VARIABLES lock_table, live, waited_by, num_waiting_for, unarrived, deadlocked,
          log,            \* log entries not yet taken by the resolver
          pending,        \* AcquireLocks between its two latches
          graph,          \* graph_ of each resolver
          updates,        \* txn_info_updates_
          to_be_updated,  \* resolved, not yet applied
          fresh,          \* ready after an update, not yet published
          net,            \* graph logs in flight
          ready_txns, signals,
          position,       \* next request of each home at each partition
          runs,           \* dispatches a worker holds
          dispatches,     \* how often each <<txn, deadlocked>> was dispatched
          resolved        \* history: components each resolver resolved

txnInfo == <<waited_by, num_waiting_for, unarrived, deadlocked>>
resolver == <<graph, updates, to_be_updated, fresh>>
scheduler == <<position, runs, dispatches>>
vars == <<lock_table, live, txnInfo, log, pending, resolver, net,
          ready_txns, signals, scheduler, resolved>>

Run == Txn \X BOOLEAN

Involved(t) == {PartitionOf[k] : k \in Keys(t)}

KeysAt(p, t) == {k \in Keys(t) : PartitionOf[k] = p}

\* What GeneratePartitionedTxn leaves of region h's log for partition p.
PartitionLog(p, h) == SelectSeq(HomeLog[h], LAMBDA t : KeysAt(p, t) \cap RelevantKeys(t, h) # {})

EmptyGraph == [node |-> {}, complete |-> [t \in Txn |-> 0], incoming |-> {}, outgoing |-> {}]

NoEntry == [txn |-> kSentinelTxnId]

Init ==
  /\ lock_table = [k \in KeyRegion |-> EmptyTail]
  /\ live = [p \in Partition |-> {}]
  /\ waited_by = [p \in Partition |-> [t \in Txn |-> InitWaitedBy]]
  /\ num_waiting_for = [p \in Partition |-> [t \in Txn |-> 0]]
  /\ unarrived = [p \in Partition |-> [t \in Txn |-> Cardinality(KeysAt(p, t))]]
  /\ deadlocked = [p \in Partition |-> [t \in Txn |-> FALSE]]
  /\ log = [p \in Partition |-> << >>]
  /\ pending = [p \in Partition |-> NoEntry]
  /\ graph = [p \in Partition |-> EmptyGraph]
  /\ updates = [p \in Partition |-> << >>]
  /\ to_be_updated = [p \in Partition |-> {}]
  /\ fresh = [p \in Partition |-> {}]
  /\ net = [p, q \in Partition |-> << >>]
  /\ ready_txns = [p \in Partition |-> {}]
  /\ signals = [p \in Partition |-> 0]
  /\ position = [p \in Partition, h \in Region |-> 0]
  /\ runs = [p \in Partition |-> {}]
  /\ dispatches = [p \in Partition |-> [r \in Run |-> 0]]
  /\ resolved = [p \in Partition |-> {}]

IsReady(p, t) == num_waiting_for[p][t] = 0 /\ unarrived[p][t] = 0

-----------------------------------------------------------------------------
(* Scheduler thread *)

\* Dispatch of the runs in D to the workers, which drop the runs of the
\* transactions in `done'.  A dispatch with deadlocked = TRUE replaces the
\* state a worker created for the first one.
Dispatch(p, done, D) ==
  /\ runs' = [runs EXCEPT ![p] =
       {r \in @ : r[1] \notin done /\ <<r[1], TRUE>> \notin D} \cup D]
  /\ dispatches' = [dispatches EXCEPT ![p] =
       [r \in Run |-> IF r \in D THEN @[r] + 1 ELSE @[r]]]

\* AcquireLocks up to the end of the txn_info critical section.
AcquireLocks(p, h) ==
  LET t == PartitionLog(p, h)[position[p, h] + 1]
      K == KeysAt(p, t) \cap RelevantKeys(t, h)
      blocking == BlockingTxns(lock_table, t, K)
      blockers == (blocking \cap live[p]) \ {t}
  IN  /\ pending[p] = NoEntry
      /\ position[p, h] < Len(PartitionLog(p, h))
      /\ position' = [position EXCEPT ![p, h] = @ + 1]
      /\ lock_table' = Enqueue(lock_table, t, K)
      /\ live' = [live EXCEPT ![p] = @ \cup {t}]
      /\ waited_by' = [waited_by EXCEPT ![p] = AppendWaiter(@, blockers, t)]
      /\ num_waiting_for' = [num_waiting_for EXCEPT ![p][t] = @ + Cardinality(blockers)]
      /\ unarrived' = [unarrived EXCEPT ![p][t] = @ - Cardinality(K)]
      /\ pending' = [pending EXCEPT ![p] =
           [txn |-> t, is_complete |-> unarrived'[p][t] = 0, incoming |-> blocking,
            acquired |-> num_waiting_for'[p][t] = 0 /\ unarrived'[p][t] = 0]]
      /\ UNCHANGED <<deadlocked, log, resolver, net, ready_txns, signals,
                     runs, dispatches, resolved>>

\* The rest of AcquireLocks, under the log latch, and the scheduler's Dispatch
\* of a transaction that got all its locks.
AppendLog(p) ==
  LET e == pending[p]
  IN  /\ e # NoEntry
      /\ log' = [log EXCEPT ![p] = Append(@, [txn |-> e.txn, is_complete |-> e.is_complete,
                                              incoming |-> e.incoming])]
      /\ pending' = [pending EXCEPT ![p] = NoEntry]
      /\ Dispatch(p, {}, IF e.acquired THEN {<<e.txn, FALSE>>} ELSE {})
      /\ UNCHANGED <<lock_table, live, txnInfo, resolver, net, ready_txns, signals,
                     position, resolved>>

\* A worker executes a dispatch once the reads of every involved partition
\* for the same <<txn, deadlocked>> arrived.
CanExecute(p, r) ==
  /\ r \in runs[p]
  /\ \A q \in Involved(r[1]) : dispatches[q][r] > 0

\* A worker reports t done: ReleaseLocks and dispatch of what it unblocked.
ReleaseLocks(p, t) ==
  LET waiters == {u \in live[p] \ {t} : Slots(waited_by[p][t], u) # {}}
      left == [u \in Txn |-> IF u \in waiters
                               THEN num_waiting_for[p][u] - Occurrences(waited_by[p][t], u)
                               ELSE num_waiting_for[p][u]]
      unblocked == Ready(waiters, left, unarrived[p])
  IN  /\ pending[p] = NoEntry
      /\ \E f \in BOOLEAN : CanExecute(p, <<t, f>>)
      /\ live' = [live EXCEPT ![p] = @ \ {t}]
      /\ num_waiting_for' = [num_waiting_for EXCEPT ![p] = left]
      /\ waited_by' = [waited_by EXCEPT ![p][t] = InitWaitedBy]
      /\ deadlocked' = [deadlocked EXCEPT ![p][t] = FALSE]
      /\ Dispatch(p, {t}, {<<u, deadlocked[p][u]>> : u \in unblocked})
      /\ UNCHANGED <<lock_table, unarrived, log, pending, resolver, net, ready_txns,
                     signals, position, resolved>>

\* The kSignal handler: GetReadyTxns, then a dispatch as deadlocked for each.
OnSignal(p) ==
  /\ pending[p] = NoEntry
  /\ signals[p] > 0
  /\ signals' = [signals EXCEPT ![p] = @ - 1]
  /\ ready_txns' = [ready_txns EXCEPT ![p] = {}]
  /\ Dispatch(p, {}, ready_txns[p] \X {TRUE})
  /\ UNCHANGED <<lock_table, live, txnInfo, log, pending, resolver, net,
                 position, resolved>>

-----------------------------------------------------------------------------
(* Resolver thread *)

\* Mutant: the copy of a waited-by list starts without its empty slot.
ReconstructWithoutSlot(upd, e) ==
  LET known == DOMAIN upd \cup {e.txn}
  IN  [t \in known |->
         LET u == IF t \in DOMAIN upd THEN upd[t]
                  ELSE [num_waiting_for |-> 0, waited_by |-> << >>]
         IN  IF t \in e.incoming THEN [u EXCEPT !.waited_by = Append(@, e.txn)] ELSE u]

\* txn_info_updates_ after one log entry.
ReconstructLocalTxnInfo(upd, e) ==
  LET known == DOMAIN upd \cup {e.txn}
  IN  [t \in known |->
         LET u == IF t \in DOMAIN upd THEN upd[t]
                  ELSE [num_waiting_for |-> 0, waited_by |-> InitWaitedBy]
         IN  IF t \in e.incoming THEN [u EXCEPT !.waited_by = Append(@, e.txn)] ELSE u]

\* graph_ after one log entry, local or remote.
UpdateGraph(g, e) ==
  LET node == g.node \cup {e.txn}
  IN  [node     |-> node,
       complete |-> [g.complete EXCEPT ![e.txn] = IF e.is_complete THEN @ + 1 ELSE @],
       incoming |-> g.incoming \cup (e.incoming \X {e.txn}),
       outgoing |-> g.outgoing \cup ((e.incoming \cap node) \X {e.txn})]

\* Mutant: one complete partition is taken for all of them.
IncompleteAnywhere(g) == {t \in g.node : g.complete[t] = 0}

Incomplete(g) == {t \in g.node : g.complete[t] < Cardinality(Involved(t))}

\* Mutant: instability does not spread along the edges.
StableNodesUnspread(g) == g.node \ Incomplete(g)

StableNodes(g) == g.node \ Reach(g.node, g.outgoing, Incomplete(g))

\* The components of more than one stable node; SCCOrder models the search.
Deadlocks(g, stable) ==
  {S \in Components(stable, g.incoming) : Cardinality(S) > 1}

Erase(g, S) ==
  [node     |-> g.node \ S,
   complete |-> [t \in Txn |-> IF t \in S THEN 0 ELSE g.complete[t]],
   incoming |-> {e \in g.incoming : e[2] \notin S},
   outgoing |-> {e \in g.outgoing : e[1] \notin S}]

\* Mutant: the edges inside the component are kept.
ChainedWaitedByUncleared(list, S, larger) ==
  IF larger = {} THEN list
  ELSE [list EXCEPT ![Min(Slots(list, kSentinelTxnId))] = Min(larger)]

\* The waited-by list of t without the edges inside S, and with an edge to the
\* next local member of S in the first empty slot.
ChainedWaitedBy(list, S, larger) ==
  LET cleared == [i \in DOMAIN list |-> IF list[i] \in S THEN kSentinelTxnId ELSE list[i]]
  IN  IF larger = {} THEN cleared
      ELSE [cleared EXCEPT ![Min(Slots(cleared, kSentinelTxnId))] = Min(larger)]

\* ResolveDeadlock for component S on the local snapshot.
ResolveDeadlock(upd, S) ==
  LET local == S \cap DOMAIN upd
      lists == [t \in DOMAIN upd |-> upd[t].waited_by]
  IN  [t \in DOMAIN upd |->
         IF t \notin local THEN upd[t]
         ELSE [waited_by |-> ChainedWaitedBy(lists[t], S, {u \in local : u > t}),
               num_waiting_for |-> upd[t].num_waiting_for - Cardinality(Edges(local, lists, t))
                                     + IF \E u \in local : u < t THEN 1 ELSE 0]]

\* Run up to the txn_info critical section: everything it touches but the log
\* and the network is private to the thread.
ResolverRun(p) ==
  /\ to_be_updated[p] = {} /\ fresh[p] = {}
  /\ \E g \in {FoldLeft(UpdateGraph, graph[p], log[p])} :
     \E upd \in {FoldLeft(ReconstructLocalTxnInfo, updates[p], log[p])} :
     \E stable \in {StableNodes(g)} :
     \E deadlocks \in {Deadlocks(g, stable)} :
     \E hit \in {UNION deadlocks \cap DOMAIN upd} :
       /\ graph' = [graph EXCEPT ![p] = Erase(g, stable)]
       /\ to_be_updated' = [to_be_updated EXCEPT ![p] = hit]
       /\ updates' = [updates EXCEPT ![p] =
            Restrict(FoldSet(LAMBDA S, u : ResolveDeadlock(u, S), upd, deadlocks),
                     (DOMAIN upd \ stable) \cup hit)]
       /\ resolved' = [resolved EXCEPT ![p] = @ \cup deadlocks]
  /\ log' = [log EXCEPT ![p] = << >>]
  /\ net' = [c \in Partition \X Partition |->
               IF c[1] = p /\ c[2] # p /\ log[p] # << >>
                 THEN Append(net[c], log[p]) ELSE net[c]]
  /\ UNCHANGED <<lock_table, live, txnInfo, pending, fresh, ready_txns, signals,
                 scheduler>>

Overwrite(list, prefix) ==
  [i \in DOMAIN list |-> IF i \in DOMAIN prefix THEN prefix[i] ELSE list[i]]

\* The critical section of CheckAndResolveDeadlocks.
ApplyUpdates(p) ==
  LET hit == to_be_updated[p]
  IN  /\ hit # {}
      /\ waited_by' = [waited_by EXCEPT ![p] = [t \in Txn |->
           IF t \in hit THEN Overwrite(@[t], updates[p][t].waited_by) ELSE @[t]]]
      /\ num_waiting_for' = [num_waiting_for EXCEPT ![p] = [t \in Txn |->
           IF t \in hit THEN @[t] + updates[p][t].num_waiting_for ELSE @[t]]]
      /\ deadlocked' = [deadlocked EXCEPT ![p] = [t \in Txn |-> @[t] \/ t \in hit]]
      /\ fresh' = [fresh EXCEPT ![p] = Ready(hit, num_waiting_for'[p], unarrived[p])]
      /\ to_be_updated' = [to_be_updated EXCEPT ![p] = {}]
      /\ updates' = [updates EXCEPT ![p] = Restrict(@, DOMAIN @ \ hit)]
      /\ UNCHANGED <<lock_table, live, unarrived, log, pending, graph, net,
                     ready_txns, signals, scheduler, resolved>>

\* Mutant: ready transactions are published and nobody is told.
PublishReadyUnsignalled(p) ==
  /\ fresh[p] # {}
  /\ ready_txns' = [ready_txns EXCEPT ![p] = @ \cup fresh[p]]
  /\ fresh' = [fresh EXCEPT ![p] = {}]
  /\ UNCHANGED <<lock_table, live, txnInfo, log, pending, graph, updates,
                 to_be_updated, net, signals, scheduler, resolved>>

\* After the critical section: hand the ready transactions over, then signal.
PublishReady(p) ==
  /\ fresh[p] # {}
  /\ ready_txns' = [ready_txns EXCEPT ![p] = @ \cup fresh[p]]
  /\ signals' = [signals EXCEPT ![p] = @ + 1]
  /\ fresh' = [fresh EXCEPT ![p] = {}]
  /\ UNCHANGED <<lock_table, live, txnInfo, log, pending, graph, updates,
                 to_be_updated, net, scheduler, resolved>>

\* OnInternalRequestReceived: the next graph log from partition q.
ReceiveGraphLog(p, q) ==
  /\ to_be_updated[p] = {} /\ fresh[p] = {}
  /\ net[q, p] # << >>
  /\ graph' = [graph EXCEPT ![p] = FoldLeft(UpdateGraph, @, Head(net[q, p]))]
  /\ net' = [net EXCEPT ![q, p] = Tail(@)]
  /\ UNCHANGED <<lock_table, live, txnInfo, log, pending, updates, to_be_updated,
                 fresh, ready_txns, signals, scheduler, resolved>>

-----------------------------------------------------------------------------

SchedulerStep(p) ==
  \/ \E h \in Region : AcquireLocks(p, h)
  \/ AppendLog(p)
  \/ \E t \in Txn : ReleaseLocks(p, t)
  \/ OnSignal(p)

ResolverStep(p) ==
  \/ ResolverRun(p)
  \/ ApplyUpdates(p)
  \/ PublishReady(p)
  \/ \E q \in Partition : ReceiveGraphLog(p, q)

Next == \E p \in Partition : SchedulerStep(p) \/ ResolverStep(p)

\* The resolver's timer and both event loops keep running; inputs, signals and
\* graph logs are eventually handled.
Fairness ==
  \A p \in Partition :
    /\ \A h \in Region : WF_vars(AcquireLocks(p, h))
    /\ WF_vars(AppendLog(p))
    /\ \A t \in Txn : WF_vars(ReleaseLocks(p, t))
    /\ WF_vars(OnSignal(p))
    /\ WF_vars(ResolverRun(p))
    /\ WF_vars(ApplyUpdates(p))
    /\ WF_vars(PublishReady(p))
    /\ \A q \in Partition : WF_vars(ReceiveGraphLog(p, q))

SafetySpec == Init /\ [][Next]_vars

Spec == SafetySpec /\ Fairness

-----------------------------------------------------------------------------
(* Properties *)

\* Types of the tables and threads' local state.
TypeOK ==
  /\ lock_table \in [KeyRegion -> LockQueueTail]
  /\ live \in [Partition -> SUBSET Txn]
  /\ \A p \in Partition, t \in Txn :
       /\ waited_by[p][t] \in Seq(Txn \cup {kSentinelTxnId})
       /\ num_waiting_for[p][t] \in Nat
       /\ unarrived[p][t] \in Nat
  /\ \A p \in Partition :
       /\ DOMAIN updates[p] \subseteq Txn
       /\ to_be_updated[p] \subseteq DOMAIN updates[p]
       /\ runs[p] \subseteq Run

\* After every step of every thread, resolver updates included, num_waiting_for
\* is the number of entries naming the transaction in waited-by lists of
\* transactions still in txn_info_.
WaitCountExact ==
  \A p \in Partition, t \in Txn :
    num_waiting_for[p][t] = Cardinality(Edges(live[p], waited_by[p], t))

\* The log determines the waited-by lists: replaying it, including an entry
\* AcquireLocks has not appended yet, turns the resolver's copy of a
\* transaction's list into the lock manager's.  So the copy is a prefix, and
\* overwriting that prefix (ddr_lock_manager.cpp:301) loses no newer waiter.
SnapshotIsPrefix ==
  \A p \in Partition :
    LET rest == log[p] \o IF pending[p] = NoEntry THEN << >> ELSE <<pending[p]>>
        upd == FoldLeft(ReconstructLocalTxnInfo, updates[p], rest)
    IN  \A t \in live[p] \cap DOMAIN upd :
          IF t \in to_be_updated[p]
            THEN Len(upd[t].waited_by) = Len(waited_by[p][t])
            ELSE upd[t].waited_by = waited_by[p][t]

\* The CHECKs of the resolver and of ReleaseLocks: no edge of graph_ leads to
\* an erased node, no stable component has an unstable predecessor, every
\* transaction whose deadlock is being resolved is still in txn_info_, and only
\* ready transactions are released.
ChecksHold ==
  \A p \in Partition :
    /\ \A e \in graph[p].outgoing : e[2] \in graph[p].node
    /\ \A e \in graph[p].incoming : e[1] \in graph[p].node => e \in graph[p].outgoing
    /\ to_be_updated[p] \subseteq live[p]
    /\ \A t \in Txn, f \in BOOLEAN : CanExecute(p, <<t, f>>) => t \in live[p] /\ IsReady(p, t)

\* Resolvers agree: two components resolved anywhere are equal or disjoint, so
\* every partition chains the same transactions in the same order.
ResolutionAgreement ==
  \A p, q \in Partition : \A S \in resolved[p], T \in resolved[q] :
    S = T \/ S \cap T = {}

\* Scheduler::Dispatch and Worker::OnCustomSocket accept a dispatch only of a
\* live transaction, once per flag, and never after the deadlocked one.
DispatchLegal ==
  \A p \in Partition, r \in Run :
    dispatches'[p][r] > dispatches[p][r] =>
      /\ r[1] \in live'[p]
      /\ dispatches[p][r] = 0
      /\ dispatches[p][<<r[1], TRUE>>] = 0

\* No two conflicting transactions can execute at a partition at the same
\* time: a transaction that does not get its locks "is queued up to wait for
\* the current holders to release" (ddr_lock_manager.h:106-108).
NoConflictingExecution ==
  \A p \in Partition : \A r, s \in runs[p] :
    r[1] # s[1] /\ CanExecute(p, r) /\ CanExecute(p, s) =>
      \A k \in KeysAt(p, r[1]) : ~Conflict(r[1], s[1], k)

Finished ==
  \A p \in Partition :
    /\ live[p] = {}
    /\ \A h \in Region : position[p, h] = Len(PartitionLog(p, h))

\* Every transaction of the logs eventually runs and releases its locks at
\* every partition: no deadlock stays undetected and no wakeup is lost.
AllComplete == <>[]Finished
=============================================================================
