------------------------------ MODULE MCStorageJanus -----------------------------
(***************************************************************************)
(* The hash map of the storage with its latch (extended), and the          *)
(* coordinators and acceptors of Janus, each on its own small instances.   *)
(* `part' says which one a behaviour is about; the other does not move.    *)
(***************************************************************************)
EXTENDS HashMap, TLC

CONSTANTS Parts,   \* which of them this run checks
          thread1, thread2, thread3,
          r1, r2, r3, t1, t2, t3, NoTxn

-----------------------------------------------------------------------------
(* Hash map: keys 1 and 2 share a bucket until there are eight of them. *)

MCHash == [k \in Key |-> CASE k = 1 -> 0 [] k = 2 -> 8 [] k = 3 -> 2]

Get(k) == [kind |-> "Get", key |-> k, value |-> 5]
Put(k, v) == [kind |-> "InsertOrUpdate", key |-> k, value |-> v]
Del(k) == [kind |-> "Erase", key |-> k, value |-> 5]

Calls(c1, c2, c3) == (thread1 :> c1) @@ (thread2 :> c2) @@ (thread3 :> c3)

MCPrograms ==
  { Calls(<<Put(3, 6), Put(2, 5), Put(1, 5)>>, <<Get(1), Get(2)>>, <<>>),
    Calls(<<Put(1, 5), Del(1), Put(2, 5)>>, <<Put(2, 6), Get(1)>>, <<>>),
    Calls(<<Put(1, 5)>>, <<Put(1, 6), Get(2)>>, <<Put(2, 5), Get(1)>>),
    Calls(<<Put(2, 5), Put(1, 6)>>, <<Get(2)>>, <<Del(2)>>) }

-----------------------------------------------------------------------------
(* Janus: three regions; keys 1 and 2 are on different partitions.         *)
(* choosing: only the choice of the dependencies is explored, not what     *)
(* follows; held: transactions whose coordinator has not heard anything    *)
(* yet when a behaviour ends.                                              *)

JanusRegion == {r1, r2, r3}
JanusTxn == {t1, t2, t3}
Symmetry == Permutations(JanusRegion) \cup Permutations(JanusTxn)

Writes(keys) == [k \in keys |-> "WRITE"]

\* Transactions that are executed: the region of their server does not matter,
\* which leaves the regions interchangeable.
Of(access, choosing) ==
  [access |-> access, server |-> <<>>, noop |-> FALSE, badKey |-> {}, choosing |-> choosing,
   held |-> {}]

JanusScenarios ==
  { Of([t \in JanusTxn |-> Writes({1})], TRUE),
    Of((t1 :> Writes({1, 2})) @@ (t2 :> Writes({1})), TRUE),
    Of((t1 :> Writes({1})) @@ (t2 :> Writes({1})), FALSE),
    \* the slow path over two partitions, to its end
    [Of((t1 :> Writes({1, 2})) @@ (t2 :> Writes({1})), FALSE) EXCEPT !.held = {t2}],
    [Of((t1 :> Writes({1})) @@ (t2 :> Writes({1})), FALSE) EXCEPT !.badKey = {t1}],
    [Of(t1 :> Writes({1, 2}), FALSE) EXCEPT !.noop = TRUE, !.server = t1 :> r1] }

JanusPartitionOf == <<1, 2>>

-----------------------------------------------------------------------------
(* The parts together. *)

VARIABLES part,
          \* of Janus
          scenario, info, accepted, latest_writing_txns, toAcceptor, toCoordinator, scheduled,
          finished, failed

JC == INSTANCE JanusConsensus WITH
        Region <- JanusRegion, Partition <- {1, 2}, Key <- {1, 2},
        PartitionOf <- JanusPartitionOf, Txn <- JanusTxn, Scenarios <- JanusScenarios

janusVars == <<scenario, info, accepted, latest_writing_txns, toAcceptor, toCoordinator,
               scheduled, finished, failed>>
allVars == <<part, mapVars, janusVars>>

Off(v) == v = <<>>
JanusOff ==
  /\ Off(scenario) /\ Off(info) /\ Off(accepted) /\ Off(latest_writing_txns)
  /\ Off(toAcceptor) /\ Off(toCoordinator) /\ Off(scheduled) /\ Off(finished) /\ Off(failed)

ServiceInit ==
  /\ part \in Parts
  /\ HashInit /\ (part # "map" => program = CHOOSE p \in MCPrograms : TRUE)
  /\ IF part = "janus" THEN JC!Init ELSE JanusOff

MapStep == part = "map" /\ HashNext /\ UNCHANGED <<part, janusVars>>
JanusStep == part = "janus" /\ JC!Next /\ UNCHANGED <<part, mapVars>>

ServiceNext == MapStep \/ JanusStep

ServiceSpec == ServiceInit /\ [][ServiceNext]_allVars

Bound ==
  part = "janus" =>
    /\ scenario.choosing =>
         \A m \in JC!Machine :
           scheduled[m] = <<>> /\ \A t \in DOMAIN accepted[m] : accepted[m][t] = "PRE_ACCEPT"
    /\ \A t \in scenario.held : info[t].phase # "NEW" =>
         \A p \in JC!Participants(t) : info[t].deps[p] = JC!NoQuorumDeps

-----------------------------------------------------------------------------
(* Properties: those of the part that runs, as its module states them. *)

\* The map's and Janus' tables have their types, every node of the map lies
\* once in the bucket of its key, also after a rehash, and the coordinator's
\* CHECKs hold: an acceptor has seen a transaction before it is asked to accept
\* it.
TypesAndChecks ==
  /\ HashTypeOK /\ WellFormed
  /\ part = "janus" => JC!TypeOK /\ JC!CoordinatorChecksHold

\* No transaction is half committed: when no message about it is left, every
\* participant of every region has handed it to its scheduler (or every
\* participant of the server's region has answered it) and all have forgotten
\* it, however far the others have come.  Lost is only a transaction with a key
\* the sharder cannot place (coordinator.cpp:64-67): no machine ever hears of it
\* and its client gets no answer.
CommittedEverywhere == part = "janus" => JC!CommittedEverywhere

\* Transactions that write the same key, and are not dropped, are ordered once
\* their dependencies are chosen: one reaches the other through the chosen dependencies, although
\* each coordinator only heard a quorum of the replicas and each replica only
\* names the latest writer.
ConflictsOrdered == part = "janus" => JC!ConflictsOrdered
=============================================================================
