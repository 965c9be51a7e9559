------------------------------ MODULE WaitGraph ------------------------------
(***************************************************************************)
(* What the deadlock resolver computes on a graph of waits with nodes N    *)
(* and edges E (an edge <<t, u>>: u waits for t).                          *)
(***************************************************************************)
EXTENDS Integers, FiniteSets

\* The nodes reachable from S along E, S included: what belongs to every set
\* that contains S and is closed under E.
Reach(N, E, S) ==
  {t \in N : \A U \in SUBSET N :
     (S \subseteq U /\ \A e \in E : e[1] \in U => e[2] \in U) => t \in U}

\* The strongly connected components of the subgraph on N.
Components(N, E) ==
  LET F == E \cap (N \X N)
  IN  {{u \in N : u \in Reach(N, F, {t}) /\ t \in Reach(N, F, {u})} : t \in N}
=============================================================================
