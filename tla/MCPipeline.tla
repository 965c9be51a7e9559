---------------------------- MODULE MCPipeline ------------------------------
(***************************************************************************)
(* The parts on the way of a transaction from its client to the scheduler, *)
(* each on its own small instance: the server and the forwarder, the       *)
(* multi-home orderer, the sequencer with its batcher, Paxos, the log      *)
(* managers in two topologies, and the log of batches they are built from  *)
(* (extended).  `part' says which one a behaviour is about; the others do  *)
(* not move.                                                               *)
(***************************************************************************)
EXTENDS BatchLog

CONSTANTS Parts,   \* which of them this run checks
          PathsReplicas, PathsOrder, SequencerOptions,
          NoGenerator, NoTimer

-----------------------------------------------------------------------------
(* BatchLog: three batches that need two acks each. *)

MCBatchId == {"b1", "b2", "b3"}
MCOrder == <<"b2", "b1", "b3">>

-----------------------------------------------------------------------------
(* Log managers: two regions of two partitions; with one replica and two   *)
(* generators in region 0, to look at order and replication ("log"), or    *)
(* with one generator outside the leader's replica, to take every          *)
(* forwarding path ("paths").                                              *)

Machines(replicas) == {m \in (0..1) \X (0..1) \X (0..1) : m[2] < replicas[m[1]]}
OneReplica == [r \in 0..1 |-> 1]
TwoReplicas == [r \in 0..1 |-> 2]
EachOther == [r \in 0..1 |-> <<1 - r>>]
Nowhere == [r \in 0..1 |-> <<>>]
OneEach == [m \in Machines(OneReplica) |-> IF m[1] = 0 THEN 1 ELSE 0]
OneBatch ==
  [m \in Machines(PathsReplicas) |-> IF m = <<0, PathsReplicas[0] - 1, 1>> THEN 1 ELSE 0]

(* Paxos: three replicas of two partitions.  One proposer is an acceptor,  *)
(* the other is no member of the group.                                    *)

TwoProposers == [m \in (0..2) \X (0..1) |-> IF m[1] = 2 THEN 1 ELSE 0]

(* Multi-home orderer: three regions, and transactions that do not involve *)
(* all of them, so that the part of a batch for a region may be empty.     *)

OrdererInvolved == <<{0, 1}, {0, 1, 2}>>

(* Sequencer: four transactions, two of them with the same timestamp.  The *)
(* delay is harmless when a round has one batch.                           *)

SequencerTimestamp == <<2, 1, 3, 2>>
Synchronized ==
  [synchronized_batching |-> TRUE, sequencer_batch_size |-> 2, replication_delay |-> FALSE]
Delayed(size) ==
  [synchronized_batching |-> FALSE, sequencer_batch_size |-> size, replication_delay |-> TRUE]
Harmless == {Synchronized, Delayed(0)}
DelayedInTwos == {Delayed(2)}

-----------------------------------------------------------------------------
(* Server and forwarder: three machines of a region, two clients. *)

Unknown == -1
FrontKeys == {"a", "b", "c"}
FrontPartitionOf == [k \in FrontKeys |-> CASE k = "a" -> 0 [] k = "b" -> 1 [] k = "c" -> 2]
FrontMasters == [k \in FrontKeys |-> CASE k = "a" -> 0 [] k = "b" -> 1 [] k = "c" -> Unknown]
FrontLatencies == {-1, 4}

Conf(regions, counterless, bypass, synchronized, shrink, moves) ==
  [regions |-> regions, counterless |-> counterless, bypass |-> bypass,
   synchronized |-> synchronized, shrink |-> shrink, leader |-> 0,
   starting |-> IF regions = 1 THEN {0, 1} ELSE {},
   probing |-> IF synchronized THEN {<<1, 1>>} ELSE {}, moves |-> moves]

Submit(at, keys, remaster) ==
  [kind |-> "txn", at |-> at, keys |-> keys, writes |-> keys, remaster |-> remaster,
   badKey |-> FALSE]
BadTxn == [Submit(0, {"a"}, Unknown) EXCEPT !.badKey = TRUE]
Stats(m) == [kind |-> "stats", at |-> 0, module |-> m]

Two(cf, rq1, rq2) == [conf |-> cf, request |-> <<rq1, rq2>>, master |-> FrontMasters]

\* Two clients of one machine whose transactions share a lookup batch, with a
\* key that is remastered meanwhile; the kinds of requests; the ways to forward.
FrontScenarios ==
  {Two(Conf(2, TRUE, b, FALSE, FALSE, {<<"b", 0>>}),
       Submit(0, {"a", "b", "c"}, Unknown), Submit(0, {"b"}, Unknown)) : b \in BOOLEAN}
  \cup {Two(Conf(2, TRUE, FALSE, FALSE, TRUE, {}),
            Submit(1, {"b", "c"}, Unknown), Submit(0, {"b", "c"}, Unknown)),
        Two(Conf(2, TRUE, TRUE, TRUE, FALSE, {}), Submit(1, {"a", "b"}, Unknown), Stats("SERVER"))}
  \cup {Two(Conf(2, cl, FALSE, FALSE, FALSE, {}), Submit(0, {"b"}, 0), BadTxn) : cl \in BOOLEAN}
  \cup {Two(Conf(1, TRUE, FALSE, FALSE, FALSE, {}), Submit(0, {"a", "b"}, u), Stats("FORWARDER")) :
          u \in {Unknown, 1}}
  \cup {Two(Conf(2, TRUE, FALSE, FALSE, FALSE, {}), r, Stats("INVALID")) :
          r \in {Submit(0, {}, Unknown), [kind |-> "metrics", at |-> 0],
                 [kind |-> "unknown", at |-> 0]}}
  \cup {Two(Conf(2, TRUE, FALSE, FALSE, FALSE, {}), Submit(0, {"a", "b"}, Unknown), Stats(m)) :
          m \in {"MHORDERER", "SEQUENCER", "SCHEDULER"}}

-----------------------------------------------------------------------------
(* The parts together. *)

VARIABLES part,
          \* of the log managers, in either topology
          local_log, single_home_logs, net, sent, order, emitted,
          p_local_log, p_single_home_logs, p_net, p_sent, p_order, p_emitted,
          \* of Paxos
          channel, next_empty_slot, instances, proposed, learned, assigned, accepted,
          \* of the multi-home orderer
          o_waiting, batch_per_reg, o_batch_id_counter, multi_home_batch_log, contents,
          proposals, num_ordered, o_net, forwarded,
          \* of the sequencer
          options, now, waiting, future_txns, owes_signal, inbox, wake_up, send_timer,
          batches, batch_id_counter, s_sent, delayed, batched, seen,
          \* of the server and the forwarder
          conf, request, f_sent, master, server, toForwarder, toModule, forwarder, f_net, toServer,
          f_forwarded,
          answers, pongs, reported

LM == INSTANCE LogManager WITH
        NumRegions <- 2, NumPartitions <- 2, NumReplicas <- OneReplica, ReplicationFactor <- 2,
        ReplicationOrder <- EachOther, SequencerRRR <- TRUE, Load <- OneEach, MaxSlot <- 2
LP == INSTANCE LogManager WITH
        NumRegions <- 2, NumPartitions <- 2, NumReplicas <- PathsReplicas,
        ReplicationFactor <- 2, ReplicationOrder <- PathsOrder, SequencerRRR <- FALSE,
        Load <- OneBatch, MaxSlot <- 1,
        local_log <- p_local_log, single_home_logs <- p_single_home_logs, net <- p_net,
        sent <- p_sent, order <- p_order, emitted <- p_emitted
PX == INSTANCE Paxos WITH
        NumReplicas <- 3, NumPartitions <- 2, LocalSyncReplication <- TRUE,
        MaxProposals <- TwoProposers
MH == INSTANCE MultiHomeOrderer WITH
        Region <- {0, 1, 2}, Txn <- 1..2, InvolvedRegions <- OrdererInvolved, MaxSlot <- 2,
        waiting <- o_waiting, batch_id_counter <- o_batch_id_counter, net <- o_net
SQ == INSTANCE Sequencer WITH
        Txn <- 1..4, Timestamp <- SequencerTimestamp, Options <- SequencerOptions, MaxTime <- 4,
        sent <- s_sent
FE == INSTANCE FrontEnd WITH
        Partition <- 0..2, Region <- {0, 1}, LocalRegion <- 0, Key <- FrontKeys, Client <- {1, 2},
        PartitionOf <- FrontPartitionOf, DefaultMaster <- 1, WindowSize <- 2,
        Latencies <- FrontLatencies, MaxPongs <- 3, Scenarios <- FrontScenarios,
        sent <- f_sent, net <- f_net, forwarded <- f_forwarded

\* The instances satisfy what the theorems require of the constants, and their
\* replication orders are such as the code reads from a configuration.
ASSUME ProvedInstances ==
  /\ LM!ConstantsOK /\ LM!ReplicationOK /\ LP!ConstantsOK /\ LP!ReplicationOK
  /\ PX!ConstantsOK /\ SQ!ConstantsOK

logVars == <<local_log, single_home_logs, net, sent, order, emitted>>
pathsVars == <<p_local_log, p_single_home_logs, p_net, p_sent, p_order, p_emitted>>
paxosVars == <<channel, next_empty_slot, instances, proposed, learned, assigned, accepted>>
ordererVars == <<o_waiting, batch_per_reg, o_batch_id_counter, multi_home_batch_log, contents,
                 proposals, num_ordered, o_net, forwarded>>
sequencerVars == <<options, now, waiting, future_txns, owes_signal, inbox, wake_up, send_timer,
                   batches, batch_id_counter, s_sent, delayed, batched, seen>>
frontVars == <<conf, request, f_sent, master, server, toForwarder, toModule, forwarder, f_net,
               toServer, f_forwarded, answers, pongs, reported>>
allVars == <<part, vars, logVars, pathsVars, paxosVars, ordererVars, sequencerVars,
             frontVars>>

Off(v) == v = <<>>
LogOff ==
  /\ Off(local_log) /\ Off(single_home_logs) /\ Off(net) /\ Off(sent) /\ Off(order)
  /\ Off(emitted)
PathsOff ==
  /\ Off(p_local_log) /\ Off(p_single_home_logs) /\ Off(p_net) /\ Off(p_sent) /\ Off(p_order)
  /\ Off(p_emitted)
PaxosOff ==
  /\ Off(channel) /\ Off(next_empty_slot) /\ Off(instances) /\ Off(proposed) /\ Off(learned)
  /\ Off(assigned) /\ Off(accepted)
OrdererOff ==
  /\ Off(o_waiting) /\ Off(batch_per_reg) /\ Off(o_batch_id_counter)
  /\ Off(multi_home_batch_log) /\ Off(contents) /\ Off(proposals) /\ Off(num_ordered)
  /\ Off(o_net) /\ Off(forwarded)
SequencerOff ==
  /\ Off(options) /\ Off(now) /\ Off(waiting) /\ Off(future_txns) /\ Off(owes_signal)
  /\ Off(inbox) /\ Off(wake_up) /\ Off(send_timer) /\ Off(batches) /\ Off(batch_id_counter)
  /\ Off(s_sent) /\ Off(delayed) /\ Off(batched) /\ Off(seen)

FrontOff ==
  /\ Off(conf) /\ Off(request) /\ Off(f_sent) /\ Off(master) /\ Off(server) /\ Off(toForwarder)
  /\ Off(toModule) /\ Off(forwarder) /\ Off(f_net) /\ Off(toServer) /\ Off(f_forwarded) /\ Off(answers)
  /\ Off(pongs) /\ Off(reported)

PipelineInit ==
  /\ part \in Parts
  /\ Init
  /\ IF part = "log" THEN LM!Init ELSE LogOff
  /\ IF part = "paths" THEN LP!Init ELSE PathsOff
  /\ IF part = "paxos" THEN PX!Init ELSE PaxosOff
  /\ IF part = "orderer" THEN MH!Init ELSE OrdererOff
  /\ IF part = "sequencer" THEN SQ!Init ELSE SequencerOff
  /\ IF part = "front end" THEN FE!Init ELSE FrontOff

BatchLogStep ==
  /\ part = "batch log" /\ Next
  /\ UNCHANGED <<part, logVars, pathsVars, paxosVars, ordererVars, sequencerVars,
                 frontVars>>
LogStep ==
  /\ part = "log" /\ LM!Next
  /\ UNCHANGED <<part, vars, pathsVars, paxosVars, ordererVars, sequencerVars,
                 frontVars>>
PathsStep ==
  /\ part = "paths" /\ LP!Next
  /\ UNCHANGED <<part, vars, logVars, paxosVars, ordererVars, sequencerVars,
                 frontVars>>
PaxosStep ==
  /\ part = "paxos" /\ PX!Next
  /\ UNCHANGED <<part, vars, logVars, pathsVars, ordererVars, sequencerVars,
                 frontVars>>
OrdererStep ==
  /\ part = "orderer" /\ MH!Next
  /\ UNCHANGED <<part, vars, logVars, pathsVars, paxosVars, sequencerVars,
                 frontVars>>
SequencerStep ==
  /\ part = "sequencer" /\ SQ!Next
  /\ UNCHANGED <<part, vars, logVars, pathsVars, paxosVars, ordererVars, frontVars>>
FrontStep ==
  /\ part = "front end" /\ FE!Next
  /\ UNCHANGED <<part, vars, logVars, pathsVars, paxosVars, ordererVars, sequencerVars>>

PipelineNext ==
  BatchLogStep \/ LogStep \/ PathsStep \/ PaxosStep \/ OrdererStep \/ SequencerStep
    \/ FrontStep

PipelineSpec ==
  /\ PipelineInit /\ [][PipelineNext]_allVars
  /\ WF_allVars(PaxosStep) /\ WF_allVars(SequencerStep)

-----------------------------------------------------------------------------
(* Properties: those of the part that runs, as its module states them. *)

\* Every table has its type, and the log manager meets none of its exceptions:
\* no position of an AsyncLog is inserted twice (async_log.h:25-30 throws), a
\* batch that reaches a replica for the first time carries the data of all
\* partitions, any other of one (the CHECK_EQ of log_manager.cpp:156), and a
\* Paxos learner is told every slot once, when a majority accepted it, although
\* the majorities of several slots form at the same time.  A forwarder's average
\* latency is that of the last probes.
TypesAndChecks ==
  /\ TypeOK
  /\ part = "log" => LM!TypeOK
  /\ part = "paths" => LP!InsertOnce /\ LP!WholeWhenFirst
  /\ part = "paxos" => PX!CommitsInSequence /\ PX!MajorityAccepted
  /\ part = "sequencer" => SQ!TypeOK
  /\ part = "front end" => FE!TypeOK /\ FE!AverageExact

\* The log managers implement, for each home region, one shared log: every
\* machine of every region emits a growing prefix of the same order, however
\* data, orders and acks travel.
ImplementsSharedLog ==
  /\ part = "log" => LM!SL!Init
  /\ [][part = "log" => [LM!SL!Next]_(LM!SL!vars)]_allVars

\* A machine of the home region emits a batch only after every region it
\* replicates to synchronously knows the slot of the batch (the ack is sent
\* when the order arrives, log_manager.cpp:227).
OrderReplicated == part = "log" => LM!OrderReplicated

\* Once every message was handled, every machine has emitted everything Paxos
\* ordered: no log manager holds a batch back.
NothingHeldBack == part = "log" => LM!NothingHeldBack

\* A region with nothing in its replication_order "will not synchronously
\* replicate to anywhere" (configuration.proto:186-188): its batches wait for
\* no ack.
NoAckAwaited == part = "paths" => LP!NoAckAwaited

\* The region's proposals end up in one order, each exactly once, and every
\* OnCommit reports a slot of it.
ImplementsProposalOrder ==
  /\ part = "paxos" => PX!PO!Init
  /\ [][part = "paxos" => [PX!PO!Next]_(PX!PO!vars)]_allVars

\* Every proposal of every machine is eventually learned everywhere.
AllLearned == <>[](part = "paxos" => PX!EverythingLearned)

\* Two regions hand two multi-home transactions to their sequencers in the same
\* order, and a region never passes over a transaction another has put first.
\* Each gets every transaction that involves it, at most once, and no other;
\* when nothing is left to handle it has got them all.
SameOrder == part = "orderer" => MH!SameOrder /\ MH!DeliveredOnce

\* "Deliberately delay the batch as specified in the config" (batcher.cpp:217):
\* every transaction that entered a batch is in a batch that was sent or is
\* still open, in the order of entering; a delay drops nothing.
NothingDropped == part = "sequencer" => SQ!NothingDropped

\* Batching follows the timestamps, so that regions agree on the order: a
\* transaction is batched after one with a later timestamp only if it arrived
\* when that one had been batched already.
\* The batcher is woken in time for it: while a transaction is buffered, a
\* signal is on its way, or a timer is set for the earliest timestamp or before.
TimestampOrder == part = "sequencer" => SQ!TimestampOrder /\ SQ!NoLostWakeup

\* Every transaction is eventually sent, to the other machines as well: no
\* timer of the sequencer or its batcher is forgotten.
AllSent == <>[](part = "sequencer" => SQ!EverythingSent)

\* A client never gets two answers, and the answer is to what it asked.
\* "Committed" means that every involved partition committed, and the answer
\* has all keys; "aborted" after forwarding means that some partition aborted.
MergedAnswer == part = "front end" => FE!AnsweredOnce /\ FE!MergedAnswer

\* The parts a forwarded transaction is later split into: every key is locked
\* by exactly one part, the one of its own home, the number of parts that reach
\* a partition is what its scheduler will wait for, and all regions that must
\* order the transaction are told of it, the new master of a remaster included.
LockOnlyParts == part = "front end" => FE!LockOnlyParts /\ FE!RegionsTold

\* When all is quiet no lookup is pending, no transaction partially finished,
\* and without an answer are only the clients whose request the code drops: a
\* message of an unknown type, a transaction with a key the sharder cannot place,
\* and statistics of an unknown module or of the multi-home orderer, which a
\* server sends there (server.cpp:166) and multi_home_orderer.cpp:58-60 ignores.
NothingLost == part = "front end" => FE!NothingLost
=============================================================================
