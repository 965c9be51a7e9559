---------------------------- MODULE ProposalOrder ----------------------------
(***************************************************************************)
(* What the simulated Paxos of a region promises its users: the proposals  *)
(* are put into one order, each exactly once, and every learner is told    *)
(* slots of that order.                                                    *)
(***************************************************************************)
EXTENDS Integers, Sequences, FiniteSets

CONSTANTS Proposer, Learner

VARIABLES proposed,  \* how many proposals each proposer made
          order,     \* the proposers of the proposals ordered so far
          learned    \* <<slot, proposer>> pairs each learner was told

Ordered(v) == Cardinality({i \in DOMAIN order : order[i] = v})

Init ==
  /\ proposed = [v \in Proposer |-> 0]
  /\ order = << >>
  /\ learned = [m \in Learner |-> {}]

Propose(v) ==
  /\ proposed' = [proposed EXCEPT ![v] = @ + 1]
  /\ UNCHANGED <<order, learned>>

Decide(v) ==
  /\ Ordered(v) < proposed[v]
  /\ order' = Append(order, v)
  /\ UNCHANGED <<proposed, learned>>

Learn(m, s) ==
  /\ <<s, order[s + 1]>> \notin learned[m]
  /\ learned' = [learned EXCEPT ![m] = @ \cup {<<s, order[s + 1]>>}]
  /\ UNCHANGED <<proposed, order>>

Next ==
  \/ \E v \in Proposer : Propose(v) \/ Decide(v)
  \/ \E m \in Learner : \E s \in 0 .. Len(order) - 1 : Learn(m, s)

vars == <<proposed, order, learned>>

Spec == Init /\ [][Next]_vars
=============================================================================
