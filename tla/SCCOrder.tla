------------------------------ MODULE SCCOrder ------------------------------
(***************************************************************************)
(* How the deadlock resolver finds deadlocks: the loop that spreads        *)
(* instability (end of UpdateGraphAndBroadcastChanges), the iterative      *)
(* depth-first search of FindSCCOrder along outgoing edges, and the        *)
(* breadth-first search of FormStronglyConnectedComponent along incoming   *)
(* edges, vertex by vertex in reverse finishing order.  One step is one    *)
(* iteration of a loop.  The iteration order of graph_ and the order of an *)
(* adjacency list are arbitrary.                                           *)
(***************************************************************************)
EXTENDS WaitGraph, SequencesExt

CONSTANTS Node,
          MaxIncomplete  \* bound on the incomplete nodes of the initial graphs

VARIABLES edges, incomplete,  \* the graph; they never change
          is_stable,          \* nodes with is_stable = true
          phase, queue, st, is_visited, dfs_order,
          graph,              \* nodes not yet erased from graph_
          scc, sccs

graphVars == <<edges, incomplete>>
vars == <<graphVars, is_stable, phase, queue, st, is_visited, dfs_order, graph, scc, sccs>>

Out(n) == {m \in Node : <<n, m>> \in edges}
In(n) == {m \in Node : <<m, n>> \in edges}

\* AcquireLocks never makes a transaction wait for itself.
Init ==
  /\ edges \in SUBSET {e \in Node \X Node : e[1] # e[2]}
  /\ incomplete \in {S \in SUBSET Node : Cardinality(S) <= MaxIncomplete}
  /\ is_stable = Node \ incomplete
  /\ phase = "spread"
  /\ queue \in SetToSeqs(incomplete)
  /\ st = << >>
  /\ is_visited = {}
  /\ dfs_order = << >>
  /\ graph = Node
  /\ scc = {}
  /\ sccs = {}

\* One unstable node makes the nodes waiting for it unstable.
Spread ==
  LET next == Out(Head(queue)) \cap is_stable
  IN  /\ phase = "spread"
      /\ queue # << >>
      /\ \E s \in SetToSeqs(next) : queue' = Tail(queue) \o s
      /\ is_stable' = is_stable \ next
      /\ UNCHANGED <<graphVars, phase, st, is_visited, dfs_order, graph, scc, sccs>>

StartSearch ==
  /\ phase = "spread"
  /\ queue = << >>
  /\ phase' = "order"
  /\ UNCHANGED <<graphVars, is_stable, queue, st, is_visited, dfs_order, graph, scc, sccs>>

-----------------------------------------------------------------------------
(* FindSCCOrder *)

\* The next stable, unvisited node of graph_ becomes a root.
PushRoot ==
  /\ phase = "order"
  /\ st = << >>
  /\ \E n \in is_stable \ is_visited : st' = <<[cur |-> n, done |-> FALSE]>>
  /\ UNCHANGED <<graphVars, is_stable, phase, queue, is_visited, dfs_order, graph, scc, sccs>>

\* The new top after visiting n: its second entry, then one per neighbour.
Visit(n, rest) ==
  \E s \in SetToSeqs((Out(n) \cap is_stable) \ (is_visited \cup {n})) :
    st' = rest \o <<[cur |-> n, done |-> TRUE]>>
               \o [i \in DOMAIN s |-> [cur |-> s[i], done |-> FALSE]]

\* Mutant: a node is emitted when it is first met, not when it is finished.
PopPreorder ==
  LET top == Last(st) rest == Front(st)
  IN  /\ phase = "order"
      /\ st # << >>
      /\ IF top.done \/ top.cur \in is_visited
           THEN st' = rest /\ UNCHANGED <<is_visited, dfs_order>>
           ELSE /\ Visit(top.cur, rest)
                /\ is_visited' = is_visited \cup {top.cur}
                /\ dfs_order' = Append(dfs_order, top.cur)
      /\ UNCHANGED <<graphVars, is_stable, phase, queue, graph, scc, sccs>>

\* One iteration of the loop over the stack.
Pop ==
  LET top == Last(st) rest == Front(st)
  IN  /\ phase = "order"
      /\ st # << >>
      /\ \/ top.done /\ st' = rest /\ dfs_order' = Append(dfs_order, top.cur)
              /\ UNCHANGED is_visited
         \/ ~top.done /\ top.cur \in is_visited /\ st' = rest
              /\ UNCHANGED <<is_visited, dfs_order>>
         \/ ~top.done /\ top.cur \notin is_visited /\ Visit(top.cur, rest)
              /\ is_visited' = is_visited \cup {top.cur}
              /\ UNCHANGED dfs_order
      /\ UNCHANGED <<graphVars, is_stable, phase, queue, graph, scc, sccs>>

\* The order is reversed, and CheckAndResolveDeadlocks clears is_visited.
ReverseOrder ==
  /\ phase = "order"
  /\ st = << >> /\ is_stable \subseteq is_visited
  /\ dfs_order' = Reverse(dfs_order)
  /\ is_visited' = {}
  /\ phase' = "form"
  /\ UNCHANGED <<graphVars, is_stable, queue, st, graph, scc, sccs>>

-----------------------------------------------------------------------------
(* CheckAndResolveDeadlocks and FormStronglyConnectedComponent *)

\* The next vertex starts a component unless it already belongs to one.
StartComponent ==
  /\ phase = "form"
  /\ queue = << >> /\ scc = {}
  /\ dfs_order # << >>
  /\ Head(dfs_order) \notin is_visited
  /\ queue' = <<Head(dfs_order)>>
  /\ is_visited' = is_visited \cup {Head(dfs_order)}
  /\ UNCHANGED <<graphVars, is_stable, phase, st, dfs_order, graph, scc, sccs>>

GrowComponent ==
  LET next == (In(Head(queue)) \cap graph) \ is_visited
  IN  /\ phase = "form"
      /\ queue # << >>
      /\ scc' = scc \cup {Head(queue)}
      /\ \E s \in SetToSeqs(next) : queue' = Tail(queue) \o s
      /\ is_visited' = is_visited \cup next
      /\ UNCHANGED <<graphVars, is_stable, phase, st, dfs_order, graph, sccs>>

\* The component, if the vertex started one, is complete; the vertex is erased.
EraseVertex ==
  /\ phase = "form"
  /\ queue = << >>
  /\ dfs_order # << >>
  /\ Head(dfs_order) \in is_visited
  /\ sccs' = IF scc = {} THEN sccs ELSE sccs \cup {scc}
  /\ scc' = {}
  /\ graph' = graph \ {Head(dfs_order)}
  /\ dfs_order' = Tail(dfs_order)
  /\ UNCHANGED <<graphVars, is_stable, phase, queue, st, is_visited>>

Done == phase = "form" /\ dfs_order = << >>

Next ==
  \/ Spread \/ StartSearch
  \/ PushRoot \/ Pop \/ ReverseOrder
  \/ StartComponent \/ GrowComponent \/ EraseVertex
  \/ Done /\ UNCHANGED vars

Spec == Init /\ [][Next]_vars

-----------------------------------------------------------------------------
(* Properties *)

\* The components handed to ResolveDeadlock are exactly the strongly connected
\* components of the stable graph, and every node of one was erased from graph_.
ComponentsExact == Done => sccs = Components(is_stable, edges) /\ graph = Node \ is_stable

\* The nodes called stable when the search starts are exactly those no
\* incomplete node reaches; the CHECK "All nodes in a component must be stable"
\* (ddr_lock_manager.cpp:361) never fails.
StableExact ==
  /\ phase # "spread" => is_stable = Node \ Reach(Node, edges, incomplete)
  /\ phase = "form" => is_visited \subseteq is_stable
=============================================================================
