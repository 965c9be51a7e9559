--------------------------- MODULE JanusConsensus ---------------------------
(***************************************************************************)
(* Agreement on the dependencies of transactions in Janus: the coordinator *)
(* of a transaction (module/janus/coordinator.cpp) and the acceptors of    *)
(* its partitions in every region (module/janus/acceptor.cpp).  All        *)
(* ballots are 0: recovery of a coordinator is not implemented.  A         *)
(* dependency is the id of a transaction; its participants follow from the *)
(* transaction, and its target partition is the index it is stored under.  *)
(* Every transaction is submitted to a server of its own, so the links     *)
(* between its coordinator and the acceptors are its own.                  *)
(***************************************************************************)
EXTENDS Integers, FiniteSets, Sequences, Functions, Relation, TLC

CONSTANTS Region, Partition, Key,
          PartitionOf,    \* the sharder: key -> partition
          Txn, NoTxn,
          Scenarios       \* records [access, server, noop, badKey]: transaction -> key ->
                          \* "READ" or "WRITE", transaction -> region of its server (only
                          \* used when execution is NOOP), execution_type, transactions
                          \* with a key that is no number

VARIABLES scenario,
          info,           \* txns_ of the coordinators: transaction -> its state
          accepted,       \* txns_ of the acceptors: machine -> transaction -> phase
          latest_writing_txns,
          toAcceptor,     \* FIFO links: machine -> transaction of the coordinator -> messages
          toCoordinator,
          scheduled,      \* commits handed to the schedulers: machine -> transaction -> deps
          finished,       \* <<transaction, partition>> answered to the server when execution is NOOP
          failed          \* a CHECK has failed

vars == <<scenario, info, accepted, latest_writing_txns, toAcceptor, toCoordinator, scheduled, finished, failed>>

Machine == Region \X Partition

\* The transactions submitted.
Txns == DOMAIN scenario.access

\* Those the sharder can place.
Numeric == Txns \ scenario.badKey

LocalKeys(t, p) == {k \in DOMAIN scenario.access[t] : PartitionOf[k] = p}

\* PopulateInvolvedPartitions
Participants(t) == {PartitionOf[k] : k \in DOMAIN scenario.access[t]}

Destinations(t) == Region \X Participants(t)

Init ==
  /\ scenario \in Scenarios
  /\ info = [t \in Txn |-> [phase |-> "NEW"]]
  /\ accepted = [m \in Machine |-> <<>>]
  /\ latest_writing_txns = [m \in Machine |-> [k \in Key |-> NoTxn]]
  /\ toAcceptor = [m \in Machine |-> [t \in Txn |-> <<>>]]
  /\ toCoordinator = [m \in Machine |-> [t \in Txn |-> <<>>]]
  /\ scheduled = [m \in Machine |-> <<>>]
  /\ finished = {}
  /\ failed = FALSE

Broadcast(t, msg) ==
  toAcceptor' = [m \in Machine |-> IF m \in Destinations(t) THEN [toAcceptor[m] EXCEPT ![t] = Append(@, msg)]
                                   ELSE toAcceptor[m]]

-----------------------------------------------------------------------------
(* QuorumDeps and Quorum; an absent one is one without responses *)

NumReplicas == Cardinality(Region)

NoQuorumDeps == [deps |-> {}, fast |-> TRUE, count |-> 0]

IsDone(q) == IF q.fast THEN q.count = NumReplicas ELSE q.count >= (NumReplicas + 1) \div 2

\* Mutant: what a differing replica reports is not added.
AddFirstOnly(q, deps) ==
  IF IsDone(q) THEN q
  ELSE IF q.count = 0 THEN [deps |-> deps, fast |-> TRUE, count |-> 1]
  ELSE [q EXCEPT !.fast = @ /\ deps = q.deps, !.count = @ + 1]

Add(q, deps) ==
  IF IsDone(q) THEN q
  ELSE IF q.count = 0 THEN [deps |-> deps, fast |-> TRUE, count |-> 1]
  ELSE IF ~q.fast \/ deps # q.deps THEN [deps |-> q.deps \cup deps, fast |-> FALSE, count |-> q.count + 1]
  ELSE [q EXCEPT !.count = @ + 1]

QuorumIsDone(count) == count >= (NumReplicas + 1) \div 2

-----------------------------------------------------------------------------
(* Coordinator *)

\* A transaction with a key the sharder cannot place is dropped, without a
\* state at the coordinator and without an answer.
StartNewTxn(t) ==
  /\ info[t].phase = "NEW"
  /\ \/ /\ t \in Numeric
        /\ info' = [info EXCEPT ![t] =
                      [phase |-> "PRE_ACCEPT", deps |-> [p \in Partition |-> NoQuorumDeps],
                       quorums |-> [p \in Partition |-> 0]]]
        /\ Broadcast(t, [type |-> "pre_accept"])
     \/ /\ t \notin Numeric
        /\ info' = [info EXCEPT ![t] = [phase |-> "DROPPED"]]
        /\ UNCHANGED toAcceptor
  /\ UNCHANGED <<scenario, accepted, latest_writing_txns, toCoordinator, scheduled, finished, failed>>

\* Mutant: the state of the transaction is kept.
CommitTxnKeeps(t, sharded) ==
  /\ Broadcast(t, [type |-> "commit", deps |-> [p \in Partition |-> sharded[p].deps]])
  /\ UNCHANGED info

\* The state of the transaction is erased.
CommitTxn(t, sharded) ==
  /\ Broadcast(t, [type |-> "commit", deps |-> [p \in Partition |-> sharded[p].deps]])
  /\ info' = [info EXCEPT ![t] = [phase |-> "ERASED"]]

PreAcceptTxn(m, t, msg) ==
  LET sharded == [info[t].deps EXCEPT ![m[2]] = Add(@, msg.deps)]
  IN  IF info[t].phase # "PRE_ACCEPT" THEN UNCHANGED <<info, toAcceptor>>
      ELSE IF \E p \in Participants(t) : ~IsDone(sharded[p])
        THEN info' = [info EXCEPT ![t].deps = sharded] /\ UNCHANGED toAcceptor
      ELSE IF \A p \in Participants(t) : sharded[p].fast THEN CommitTxn(t, sharded)
      ELSE /\ info' = [info EXCEPT ![t].deps = sharded, ![t].phase = "ACCEPT"]
           /\ Broadcast(t, [type |-> "accept"])

AcceptTxn(m, t) ==
  LET quorums == [info[t].quorums EXCEPT ![m[2]] = @ + 1]
  IN  IF info[t].phase = "ERASED" THEN UNCHANGED <<info, toAcceptor>>
      ELSE IF \A p \in Participants(t) : QuorumIsDone(quorums[p]) THEN CommitTxn(t, info[t].deps)
      ELSE info' = [info EXCEPT ![t].quorums = quorums] /\ UNCHANGED toAcceptor

CoordinatorReceive(m, t) ==
  /\ toCoordinator[m][t] # <<>>
  /\ LET msg == Head(toCoordinator[m][t])
     IN  IF ~msg.ok THEN failed' = TRUE /\ UNCHANGED <<info, toAcceptor>>
         ELSE /\ IF msg.type = "pre_accept" THEN PreAcceptTxn(m, t, msg) ELSE AcceptTxn(m, t)
              /\ UNCHANGED failed
  /\ toCoordinator' = [toCoordinator EXCEPT ![m][t] = Tail(@)]
  /\ UNCHANGED <<scenario, accepted, latest_writing_txns, scheduled, finished>>

-----------------------------------------------------------------------------
(* Acceptor *)

Reply(m, t, msg) == toCoordinator' = [toCoordinator EXCEPT ![m][t] = Append(@, msg)]

\* The writers of the local keys after a pre-accept.
LatestWriters(m, t) ==
  [k \in Key |-> IF k \in LocalKeys(t, m[2]) /\ scenario.access[t][k] = "WRITE" THEN t
                 ELSE latest_writing_txns[m][k]]

\* Mutant: the transaction is not remembered.
ProcessPreAcceptForgets(m, t) ==
  LET deps == {latest_writing_txns[m][k] : k \in LocalKeys(t, m[2])} \ {NoTxn}
  IN  /\ latest_writing_txns' = [latest_writing_txns EXCEPT ![m] = LatestWriters(m, t)]
      /\ Reply(m, t, [type |-> "pre_accept", ok |-> TRUE, deps |-> deps])
      /\ UNCHANGED <<accepted, scheduled, finished>>

ProcessPreAccept(m, t) ==
  LET deps == {latest_writing_txns[m][k] : k \in LocalKeys(t, m[2])} \ {NoTxn}
  IN  /\ accepted' = [accepted EXCEPT ![m] = (t :> "PRE_ACCEPT") @@ @]
      /\ latest_writing_txns' = [latest_writing_txns EXCEPT ![m] = LatestWriters(m, t)]
      /\ Reply(m, t, [type |-> "pre_accept", ok |-> TRUE, deps |-> deps])
      /\ UNCHANGED <<scheduled, finished>>

ProcessAccept(m, t) ==
  LET found == t \in DOMAIN accepted[m]
  IN  /\ accepted' = IF found THEN [accepted EXCEPT ![m][t] = "ACCEPT"] ELSE accepted
      /\ Reply(m, t, [type |-> "accept", ok |-> found])
      /\ UNCHANGED <<latest_writing_txns, scheduled, finished>>

\* The transaction goes to the scheduler or, without execution, back to its
\* server; a commit of an unknown transaction is only logged.
ProcessCommit(m, t, deps) ==
  LET found == t \in DOMAIN accepted[m]
  IN  /\ scheduled' = IF found /\ ~scenario.noop THEN [scheduled EXCEPT ![m] = (t :> deps) @@ @]
                      ELSE scheduled
      /\ finished' = IF found /\ scenario.noop /\ m[1] = scenario.server[t]
                     THEN finished \cup {<<t, m[2]>>} ELSE finished
      /\ accepted' = [accepted EXCEPT ![m] = Restrict(@, DOMAIN @ \ {t})]
      /\ UNCHANGED <<latest_writing_txns, toCoordinator>>

AcceptorReceive(m, t) ==
  /\ toAcceptor[m][t] # <<>>
  /\ LET msg == Head(toAcceptor[m][t])
     IN  \/ msg.type = "pre_accept" /\ ProcessPreAccept(m, t)
         \/ msg.type = "accept" /\ ProcessAccept(m, t)
         \/ msg.type = "commit" /\ ProcessCommit(m, t, msg.deps)
  /\ toAcceptor' = [toAcceptor EXCEPT ![m][t] = Tail(@)]
  /\ UNCHANGED <<scenario, info, failed>>

Next ==
  \E t \in Txns : \/ StartNewTxn(t)
                 \/ \E m \in Machine : AcceptorReceive(m, t) \/ CoordinatorReceive(m, t)

Spec == Init /\ [][Next]_vars

-----------------------------------------------------------------------------
(* Properties *)

\* The coordinator has t, and no message about it is left.
AtRest(t) ==
  /\ info[t].phase # "NEW"
  /\ \A m \in Machine : toAcceptor[m][t] = <<>> /\ toCoordinator[m][t] = <<>>

\* Types of the state.
TypeOK ==
  /\ \A t \in Txn : info[t].phase \in {"NEW", "PRE_ACCEPT", "ACCEPT", "ERASED", "DROPPED"}
  /\ \A m \in Machine : /\ DOMAIN accepted[m] \subseteq {t \in Txns : m[2] \in Participants(t)}
                        /\ \A k \in Key : latest_writing_txns[m][k] \in Txn \cup {NoTxn}
                        /\ DOMAIN scheduled[m] \subseteq Txn
  /\ finished \subseteq Txn \X Partition

\* The coordinator's CHECKs that every answer is ok never fail: an acceptor has
\* seen a transaction before it is asked to accept it.
CoordinatorChecksHold == ~failed

\* No transaction is half committed: when no message about it is left, every
\* participant of every region has handed it to its scheduler (or every
\* participant of the server's region has answered it) and all have forgotten
\* it, however far the others have come.  Lost is only a transaction with a key
\* the sharder cannot place: no machine ever hears of it and its client gets no
\* answer.
CommittedEverywhere ==
  \A t \in Txns :
    LET known == {m \in Machine : t \in DOMAIN scheduled[m]}
        answered == {p \in Partition : <<t, p>> \in finished}
    IN  AtRest(t) =>
          /\ info[t].phase = IF t \in Numeric THEN "ERASED" ELSE "DROPPED"
          /\ known = IF t \in Numeric /\ ~scenario.noop THEN Destinations(t) ELSE {}
          /\ answered = IF t \in Numeric /\ scenario.noop THEN Participants(t) ELSE {}
          /\ \A m \in Machine : t \notin DOMAIN accepted[m]

\* The dependencies chosen for a transaction: by the coordinator in its accept
\* phase, then in the commit in flight or at the schedulers that have it.
Chosen == {t \in Txns : info[t].phase \in {"ACCEPT", "ERASED"}}

DepsOf(t) ==
  LET messages == UNION {Range(toAcceptor[m][t]) : m \in Machine}
      commits == {msg.deps : msg \in {x \in messages : x.type = "commit"}}
                 \cup {scheduled[m][t] : m \in {n \in Machine : t \in DOMAIN scheduled[n]}}
  IN  IF info[t].phase = "ACCEPT" THEN UNION {info[t].deps[p].deps : p \in Partition}
      ELSE UNION {UNION Range(deps) : deps \in commits}

Writes(t, k) == k \in DOMAIN scenario.access[t] /\ scenario.access[t][k] = "WRITE"

\* Transactions that write the same key, and are not dropped, are ordered once
\* their dependencies are chosen: one reaches the other through the chosen dependencies, although
\* each coordinator only heard a quorum of the replicas and each replica only
\* names the latest writer.  The schedulers execute along these paths.
ConflictsOrdered ==
  ~scenario.noop /\ Chosen = Numeric =>
    LET path == TransitiveClosure([t, u \in Numeric |-> u \in DepsOf(t)], Numeric)
    IN  \A t, u \in Numeric :
          t # u /\ (\E k \in Key : Writes(t, k) /\ Writes(u, k)) => path[t, u] \/ path[u, t]
=============================================================================
