--------------------------- MODULE JanusScheduler ---------------------------
(***************************************************************************)
(* The Janus schedulers of the partitions of one region                    *)
(* (module/janus/scheduler.cpp, tarjan.cpp, horizon.h).  Each one receives *)
(* committed transactions with their dependencies in any order, asks other *)
(* partitions about dependencies it does not take part in, and dispatches  *)
(* strongly connected components to its workers.  All transactions come    *)
(* from one server, so an id is the counter of that server.                *)
(***************************************************************************)
EXTENDS Integers, FiniteSets, FiniteSetsExt, Sequences, SequencesExt, TLC

CONSTANTS Partition,
          Scenarios    \* [deps, parts]: transaction -> sequence of [txn, target]; -> participants

VARIABLES scenario,
          commits,     \* partition -> transactions whose commit has not arrived
          sched,       \* partition -> state of its scheduler
          executing,   \* partition -> dispatched transactions the worker has not reported
          net,         \* FIFO links: sender -> receiver -> messages
          failed       \* a CHECK has failed

vars == <<scenario, commits, sched, executing, net, failed>>

Txn == DOMAIN scenario.deps

Local(p, t) == p \in scenario.parts[t]

-----------------------------------------------------------------------------
(* TxnHorizon *)

NoHorizon == [horizon |-> 0, buffered |-> {}]

Add(h, t) ==
  IF t = h.horizon + 1
    THEN LET top == Max({n \in t..Max(h.buffered \cup {t}) : t + 1..n \subseteq h.buffered})
         IN  [horizon |-> top, buffered |-> h.buffered \ (t..top)]
    ELSE [h EXCEPT !.buffered = @ \cup {t}]

\* contains: all transactions up to the horizon, and the buffered ones.
Over(h, t) == t <= h.horizon \/ t \in h.buffered

-----------------------------------------------------------------------------
(* TarjanSCCsFinder.  A vertex is [disc, on_stack, missing]; its            *)
(* dependencies are those of the commit.  A search is [graph, low, stack,   *)
(* sccs, missing, counter].                                                 *)

NewVertex == [disc |-> 0, on_stack |-> FALSE, missing |-> 0]

RECURSIVE FindSCCs(_, _, _)

\* One dependency d of v.
Visit(f, horizon, v, d) ==
  IF d.txn = v \/ Over(horizon, d.txn) THEN f
  ELSE IF d.txn \notin DOMAIN f.graph
    THEN [f EXCEPT !.missing = IF \E e \in @ : e.txn = d.txn THEN @ ELSE @ \cup {d}]
  ELSE IF f.graph[d.txn].disc = 0
    THEN LET g == FindSCCs(f, horizon, d.txn)
         IN  [g EXCEPT !.low[v] = Min({@, g.low[d.txn]})]
  ELSE IF f.graph[d.txn].on_stack THEN [f EXCEPT !.low[v] = Min({@, f.graph[d.txn].disc})]
  ELSE f

\* The component of root v: what is above it on the stack, and v.  The flag
\* on_stack of v itself stays set.
PopSCC(f, v) ==
  LET at == SelectInSeq(f.stack, LAMBDA t : t = v)
      above == ToSet(SubSeq(f.stack, at + 1, Len(f.stack)))
  IN  [f EXCEPT !.graph = [t \in DOMAIN @ |-> [@[t] EXCEPT !.on_stack = @ /\ t \notin above]],
                !.stack = SubSeq(@, 1, at - 1),
                !.sccs = Append(@, SetToSortSeq(above \cup {v}, <))]

FindSCCs(f, horizon, v) ==
  IF f.graph[v].disc # 0 \/ Over(horizon, v) THEN f
  ELSE LET id == f.counter + 1
           pushed == [f EXCEPT !.counter = id, !.low[v] = id, !.stack = Append(@, v),
                               !.graph[v].disc = id, !.graph[v].on_stack = TRUE]
           g == FoldLeft(LAMBDA x, d : Visit(x, horizon, v, d), pushed, scenario.deps[v])
       IN  IF g.missing = {} /\ g.graph[v].disc = g.low[v] THEN PopSCC(g, v) ELSE g

\* Mutant: vertices that are not in a component yet stay discovered.
FinalizeKeepsDisc(f) == f

\* Finalize: what is left on the stack is unready.
Finalize(f) == [f EXCEPT !.graph = [t \in DOMAIN @ |-> [@[t] EXCEPT !.disc = IF t \in ToSet(f.stack) THEN 0 ELSE @]]]

Search(s, v) ==
  Finalize(FindSCCs([graph |-> s.graph, low |-> [t \in Txn |-> 0], stack |-> <<>>, sccs |-> <<>>,
                     missing |-> {}, counter |-> 0], s.horizon, v))

-----------------------------------------------------------------------------
(* Scheduler.  The state of a partition is [txns, graph, horizon, pending,  *)
(* inquiries, dispatched, out, ok]: out are the messages sent by a handler, *)
(* <<receiver, message>>.                                                   *)

EmptyScheduler ==
  [txns |-> {}, graph |-> <<>>, horizon |-> NoHorizon, pending |-> <<>>, inquiries |-> <<>>,
   dispatched |-> <<>>, out |-> <<>>, ok |-> TRUE]

Without(f, x) == [y \in DOMAIN f \ {x} |-> f[y]]

Send(s, to, msg) == [s EXCEPT !.out = Append(@, <<to, msg>>)]

\* DispatchSCCs, one transaction.
DispatchTxn(s, p, t) ==
  IF Local(p, t) THEN [s EXCEPT !.ok = @ /\ t \in s.txns, !.txns = @ \ {t}, !.dispatched = Append(@, t)]
  ELSE [s EXCEPT !.graph = Without(@, t), !.horizon = Add(@, t)]

\* A missing dependency: remembered, and its target asked the first time if it
\* will not come here by itself.  (One message per partition carries all ids.)
MissingDep(s, p, v, d) ==
  LET new == d.txn \notin DOMAIN s.pending
      waiting == IF new THEN {v} ELSE s.pending[d.txn] \cup {v}
      added == [s EXCEPT !.pending = (d.txn :> waiting) @@ @]
  IN  IF new /\ ~Local(p, d.txn)
      THEN Send(added, d.target, [type |-> "inquire", txn |-> d.txn]) ELSE added

\* FindAndResolveSCCs on [s, ready, unready].
FindAndResolveSCCs(c, p, v, order) ==
  LET f == Search(c.s, v)
      searched == [c.s EXCEPT !.graph = [f.graph EXCEPT ![v].missing = Cardinality(f.missing)]]
      asked == FoldLeft(LAMBDA s, t : LET ds == {d \in f.missing : d.txn = t}
                                      IN  IF ds = {} THEN s ELSE MissingDep(s, p, v, CHOOSE d \in ds : TRUE),
                        searched, order)
      found == FlattenSeq(f.sccs)
  IN  [s |-> FoldLeft(LAMBDA s, t : DispatchTxn(s, p, t), asked, found),
       ready |-> c.ready \o found, unready |-> c.unready \cup ToSet(f.stack)]

\* Mutant: the counter of missing dependencies is not decreased.
CheckPendingTxnSkips(c, p, u, order) ==
  IF u \notin DOMAIN c.s.graph \/ c.s.graph[u].disc # 0 THEN c
  ELSE IF u \in c.unready \/ c.s.graph[u].missing > 1 THEN c
  ELSE FindAndResolveSCCs(c, p, u, order)

\* The body of the inner loop of CheckPendingTxns.
CheckPendingTxn(c, p, u, order) ==
  IF u \notin DOMAIN c.s.graph \/ c.s.graph[u].disc # 0 THEN c
  ELSE LET d == [c EXCEPT !.s.graph[u].missing = @ - 1]
       IN  IF u \in d.unready \/ d.s.graph[u].missing > 0 THEN d ELSE FindAndResolveSCCs(d, p, u, order)

RECURSIVE CheckPendingTxns(_, _, _, _)

\* order is the order in which the hash sets are iterated.
CheckPendingTxns(s, p, ready, order) ==
  IF ready = <<>> THEN s
  ELSE LET t == Last(ready)
           waiting == IF t \in DOMAIN s.pending THEN s.pending[t] ELSE {}
           c == FoldLeft(LAMBDA x, u : CheckPendingTxn(x, p, u, order),
                         [s |-> [s EXCEPT !.pending = Without(@, t)], ready |-> Front(ready), unready |-> {}],
                         SelectSeq(order, LAMBDA u : u \in waiting))
       IN  CheckPendingTxns(c.s, p, c.ready, order)

Resolve(s, p, v, order) ==
  LET c == FindAndResolveSCCs([s |-> s, ready |-> <<>>, unready |-> {}], p, v, order)
  IN  CheckPendingTxns(c.s, p, c.ready, order)

\* ProcessInquiry of one transaction.
ProcessInquiry(s, t, from) ==
  IF t \in DOMAIN s.graph
    THEN Send(s, from, [type |-> "result", txn |-> t, executed |-> FALSE])
  ELSE IF Over(s.horizon, t) THEN Send(s, from, [type |-> "result", txn |-> t, executed |-> TRUE])
  ELSE [s EXCEPT !.inquiries = (t :> (IF t \in DOMAIN @ THEN Append(@[t], from) ELSE <<from>>)) @@ @]

CheckPendingInquiry(s, t) ==
  IF t \notin DOMAIN s.inquiries THEN s
  ELSE FoldLeft(LAMBDA x, from : ProcessInquiry(x, t, from), [s EXCEPT !.inquiries = Without(@, t)], s.inquiries[t])

\* ProcessTransaction
ProcessTransaction(s, p, t, order) ==
  LET new == [s EXCEPT !.ok = @ /\ t \notin DOMAIN s.graph, !.txns = @ \cup {t},
                       !.graph = @ @@ (t :> NewVertex)]
  IN  Resolve(CheckPendingInquiry(new, t), p, t, order)

\* OnInternalResponseReceived, one result.
ProcessResult(s, p, msg, order) ==
  IF msg.executed THEN CheckPendingTxns([s EXCEPT !.horizon = Add(@, msg.txn)], p, <<msg.txn>>, order)
  ELSE Resolve([s EXCEPT !.graph = @ @@ (msg.txn :> NewVertex)], p, msg.txn, order)

-----------------------------------------------------------------------------

Orders == SetToSeqs(Txn)

Init ==
  /\ scenario \in Scenarios
  /\ commits = [p \in Partition |-> {t \in Txn : Local(p, t)}]
  /\ sched = [p \in Partition |-> EmptyScheduler]
  /\ executing = [p \in Partition |-> {}]
  /\ net = [p \in Partition |-> [q \in Partition |-> <<>>]]
  /\ failed = FALSE

\* The handler of p ends in state s: its messages are sent (after one was
\* taken from links), its transactions are with the workers.
After(p, s, links) ==
  /\ sched' = [sched EXCEPT ![p] = [s EXCEPT !.out = <<>>]]
  /\ net' = [links EXCEPT ![p] =
               FoldLeft(LAMBDA l, m : [l EXCEPT ![m[1]] = Append(@, m[2])], links[p], s.out)]
  /\ executing' = [executing EXCEPT ![p] = @ \cup (ToSet(s.dispatched) \ ToSet(sched[p].dispatched))]
  /\ failed' = (failed \/ ~s.ok)

Commit(p, t) ==
  /\ t \in commits[p]
  /\ commits' = [commits EXCEPT ![p] = @ \ {t}]
  /\ \E order \in Orders : After(p, ProcessTransaction(sched[p], p, t, order), net)
  /\ UNCHANGED scenario

ReceiveMessage(p, from) ==
  /\ net[from][p] # <<>>
  /\ LET msg == Head(net[from][p])
         links == [net EXCEPT ![from][p] = Tail(@)]
     IN  \/ msg.type = "inquire" /\ After(p, ProcessInquiry(sched[p], msg.txn, from), links)
         \/ msg.type = "result" /\ \E order \in Orders : After(p, ProcessResult(sched[p], p, msg, order), links)
  /\ UNCHANGED <<scenario, commits>>

\* OnCustomSocket: a worker has executed t, which needs the reads of all
\* participants.
OnCustomSocket(p, t) ==
  /\ t \in executing[p]
  /\ \A q \in scenario.parts[t] : t \in ToSet(sched[q].dispatched)
  /\ executing' = [executing EXCEPT ![p] = @ \ {t}]
  /\ sched' = [sched EXCEPT ![p].horizon = Add(@, t), ![p].graph = Without(@, t)]
  /\ UNCHANGED <<scenario, commits, net, failed>>

Next ==
  \E p \in Partition : \/ \E t \in Txn : Commit(p, t) \/ OnCustomSocket(p, t)
                       \/ \E q \in Partition : ReceiveMessage(p, q)

Spec == Init /\ [][Next]_vars

-----------------------------------------------------------------------------
(* Properties *)

Executed(p) == ToSet(sched[p].dispatched) \ executing[p]

\* Types of the state.
TypeOK ==
  \A p \in Partition :
    /\ DOMAIN sched[p].graph \subseteq Txn /\ sched[p].txns \subseteq {t \in Txn : Local(p, t)}
    /\ \A t \in DOMAIN sched[p].pending : sched[p].pending[t] \subseteq Txn
    /\ sched[p].horizon.horizon \in 0..Cardinality(Txn) /\ executing[p] \subseteq Txn

\* The CHECKs of the scheduler hold: a transaction enters the graph once and is
\* dispatched once, whatever order commits and inquiry results come in.
SchedulerChecksHold == ~failed

\* Nothing is dispatched before what it depends on is known: its dependencies,
\* the transactions they depend on and so forth are dispatched by the same handler
\* or before, or are over.  Nothing is said of the order within a handler: the
\* on_stack a component's root keeps can join what is not strongly connected, and
\* a joined component goes out by transaction id (1 before 2 although 1 depends on
\* 2, with the dependencies 1 -> 2 -> 3 <-> 4).
DispatchClosed ==
  \A p \in Partition : \A t \in ToSet(sched[p].dispatched) : \A d \in ToSet(scenario.deps[t]) :
    d.txn \in ToSet(sched[p].dispatched) \/ Over(sched[p].horizon, d.txn)

\* A partition that takes part in a transaction considers it over exactly when
\* its own worker has executed it, however the horizon and its buffer grew.
HorizonExact ==
  \A p \in Partition : \A t \in Txn : Local(p, t) => (Over(sched[p].horizon, t) <=> t \in Executed(p))

AtRest ==
  \A p \in Partition : /\ commits[p] = {} /\ \A q \in Partition : net[p][q] = <<>>
                       /\ \A t \in executing[p] :
                            \E q \in scenario.parts[t] : t \notin ToSet(sched[q].dispatched)

\* No transaction is forgotten: when nothing can happen any more, every
\* participant has executed it and nobody waits for anything.
AllExecuted ==
  AtRest =>
    \A p \in Partition : /\ Executed(p) = {t \in Txn : Local(p, t)}
                         /\ sched[p].txns = {} /\ sched[p].inquiries = <<>> /\ sched[p].pending = <<>>
=============================================================================
