----------------------------- MODULE LogManager -----------------------------
(***************************************************************************)
(* The log managers of all machines (module/log_manager.cpp), fed by the   *)
(* batchers (Batcher::SendBatches) and by the commits of each region's     *)
(* Paxos (LocalPaxos::OnCommit).  A machine is <<region, replica,          *)
(* partition>>.  Messages between two modules arrive in the order they     *)
(* were sent, but those about one batch come from three modules and along  *)
(* different paths, and the handlers assume no order: net is a set.        *)
(***************************************************************************)
EXTENDS Integers, Sequences, FiniteSets, Functions

CONSTANTS NumRegions, NumPartitions,
          NumReplicas,        \* of each region
          ReplicationFactor,
          ReplicationOrder,   \* of each region, without the region itself
          SequencerRRR,       \* the option sequencer_rrr
          Load,               \* bound: batches each machine generates
          MaxSlot,            \* bound: batches of a region
          NoBatch, NoGenerator

Region == 0 .. NumRegions - 1
Partition == 0 .. NumPartitions - 1
Machine == UNION {{r} \X (0 .. NumReplicas[r] - 1) \X Partition : r \in Region}
Batch == Machine \X (0 .. MaxSlot - 1)

\* What is required of the configuration, and of the bounds.
ConstantsOK ==
  /\ NumRegions \in Nat \ {0} /\ NumPartitions \in Nat \ {0}
  /\ NumReplicas \in [Region -> Nat \ {0}]
  /\ ReplicationFactor \in Nat \ {0}
  /\ MaxSlot \in Nat /\ Load \in [Machine -> 0 .. MaxSlot]
  /\ NoBatch \notin Batch /\ NoGenerator \notin Machine

BL == INSTANCE BatchLogTable WITH BatchId <- Batch
LL == INSTANCE LocalLogTable WITH Generator <- Machine

VARIABLES local_log, single_home_logs,
          net,       \* messages to log managers
          sent,      \* batches sent by each generator
          order,     \* generators in the order of each region's Paxos
          emitted    \* batches given to the scheduler, per home

vars == <<local_log, single_home_logs, net, sent, order, emitted>>

Home(b) == b[1][1]

Leader(r) == <<r, 0, 0>>

OtherPartitions(m) == {<<m[1], m[2], p>> : p \in Partition \ {m[3]}}

OtherReplicas(m) == {<<m[1], rep, m[3]>> : rep \in (0 .. NumReplicas[m[1]] - 1) \ {m[2]}}

\* The regions whose ack a batch of region r waits for.
NeedAck(r) ==
  LET n == IF Len(ReplicationOrder[r]) < ReplicationFactor - 1
             THEN Len(ReplicationOrder[r]) ELSE ReplicationFactor - 1
  IN  {ReplicationOrder[r][i] : i \in 1 .. n}

\* What the constructor of Configuration makes of the option replication_order
\* (configuration.cpp:110-118): other regions, in any number and order.
ReplicationOK ==
  /\ ReplicationOrder \in [Region -> Seq(Region)]
  /\ \A r \in Region : r \notin NeedAck(r)

Init ==
  /\ local_log = [m \in Machine |-> LL!EmptyLocalLog]
  /\ single_home_logs = [m \in Machine |-> [h \in Region |-> BL!EmptyLog]]
  /\ net = {}
  /\ sent = [m \in Machine |-> 0]
  /\ order = [r \in Region |-> << >>]
  /\ emitted = [m \in Machine |-> [h \in Region |-> << >>]]

-----------------------------------------------------------------------------
(* Inputs *)

Data(from, to, b, whole) ==
  [kind |-> "data", from |-> from, to |-> to, batch |-> b, whole |-> whole]

\* The partition of the i-th of n regions or replicas that the one at index
\* `local' sends its n-th batch to.
TargetPartition(i, n, local, position) ==
  IF SequencerRRR THEN position % NumPartitions
                  ELSE ((i + n - local) % n) % NumPartitions

\* SendBatches: every partition of the own replica gets its part, one machine
\* of every other replica and region gets the whole batch.
SendBatch(g) ==
  LET b == <<g, sent[g]>>
      R == NumReplicas[g[1]]
      own == {Data(g, <<g[1], g[2], p>>, b, FALSE) : p \in Partition}
      replicas == {Data(g, <<g[1], rep, TargetPartition(rep, R, g[2], sent[g])>>, b, TRUE) :
                     rep \in (0 .. R - 1) \ {g[2]}}
      regions == {Data(g, <<r, 0, TargetPartition(r, NumRegions, g[1], sent[g])>>, b, TRUE) :
                    r \in Region \ {g[1]}}
  IN  /\ sent[g] < Load[g]
      /\ sent' = [sent EXCEPT ![g] = @ + 1]
      /\ net' = net \cup own \cup replicas \cup regions
      /\ UNCHANGED <<local_log, single_home_logs, order, emitted>>

\* The machines of the region that learn its order from Paxos itself.
Learners(r) ==
  {<<r, 0, p>> : p \in Partition} \cup {<<r, rep, 0>> : rep \in 0 .. NumReplicas[r] - 1}

LocalOrder(m, s, g) ==
  [kind |-> "local", from |-> m, to |-> m, slot |-> s, generator |-> g]

\* How many of the slots before slot s name generator g.
Earlier(seq, s, g) == Cardinality({t \in 0 .. s - 1 : seq[t + 1] = g})

\* Paxos commits one more proposal of generator g.
Commit(g) ==
  LET r == g[1]
  IN  /\ Earlier(order[r], Len(order[r]), g) < sent[g]
      /\ order' = [order EXCEPT ![r] = Append(@, g)]
      /\ net' = net \cup {LocalOrder(m, Len(order[r]), g) : m \in Learners(r)}
      /\ UNCHANGED <<local_log, single_home_logs, sent, emitted>>

-----------------------------------------------------------------------------
(* Handlers: each ends with AdvanceLog *)

FirstTimeRegion(msg) == msg.from[1] # msg.to[1]

FirstTimeReplica(msg) == FirstTimeRegion(msg) \/ msg.from[2] # msg.to[2]

Forward(msg, machines) == {[msg EXCEPT !.from = msg.to, !.to = d] : d \in machines}

ForwardIf(cond, msg, machines) == IF cond THEN Forward(msg, machines) ELSE {}

\* What the leader sends to the other regions for an entry of the local log.
RemoteOrders(m, entry) ==
  {[kind |-> "remote", from |-> m, slot |-> entry[1], batch |-> entry[2],
    need_ack |-> r \in NeedAck(m[1]),
    to |-> <<r, 0, ((r + NumRegions - m[1]) % NumRegions) % NumPartitions>>] :
      r \in Region \ {m[1]}}

\* AdvanceLog with the two logs as the handler of msg left them, after the
\* handler sent the messages in `sends'.
AdvanceLog(msg, local, logs, sends) ==
  LET m == msg.to
      r == m[1]
      slotted == [logs EXCEPT ![r] = BL!AddSlots(@, local.ready, ReplicationFactor - 1)]
      orders == IF m = Leader(r)
                  THEN UNION {RemoteOrders(m, local.ready[i]) : i \in DOMAIN local.ready}
                  ELSE {}
  IN  /\ local_log' = [local_log EXCEPT ![m] = [local EXCEPT !.ready = << >>]]
      /\ single_home_logs' = [single_home_logs EXCEPT ![m] = [h \in Region |-> BL!Drain(slotted[h])]]
      /\ emitted' = [emitted EXCEPT ![m] = [h \in Region |-> @[h] \o slotted[h].ready]]
      /\ net' = (net \ {msg}) \cup sends \cup orders
      /\ UNCHANGED <<sent, order>>

ProcessForwardBatchData(msg) ==
  LET m == msg.to
      b == msg.batch
      parts == {Data(m, d, b, FALSE) : d \in OtherPartitions(m)}
  IN  /\ msg.kind = "data"
      /\ AdvanceLog(msg,
           IF Home(b) = m[1] THEN LL!AddBatchId(local_log[m], b[1], b[2]) ELSE local_log[m],
           [single_home_logs[m] EXCEPT ![Home(b)] = BL!AddBatch(@, b)],
           ForwardIf(FirstTimeRegion(msg), msg, OtherReplicas(m))
             \cup IF FirstTimeReplica(msg) THEN parts ELSE {})

\* Mutant: the leader's replica distributes the order too.
ProcessLocalBatchOrderAlways(msg) ==
  LET m == msg.to
  IN  /\ msg.kind = "local"
      /\ AdvanceLog(msg, LL!AddSlot(local_log[m], msg.slot, msg.generator), single_home_logs[m],
           ForwardIf(msg.from[3] = m[3], msg, OtherPartitions(m)))

ProcessLocalBatchOrder(msg) ==
  LET m == msg.to
  IN  /\ msg.kind = "local"
      /\ AdvanceLog(msg, LL!AddSlot(local_log[m], msg.slot, msg.generator), single_home_logs[m],
           ForwardIf(Leader(m[1])[2] # m[2] /\ msg.from[3] = m[3], msg, OtherPartitions(m)))

\* Mutant: remote orders take the slots in the order they arrive.
ProcessRemoteBatchOrderAppends(msg) ==
  LET m == msg.to
      log == single_home_logs[m][Home(msg.batch)]
      free == CHOOSE s \in BL!Slot : /\ s >= log.next /\ log.slots[s] = NoBatch
                                    /\ \A t \in log.next .. s - 1 : log.slots[t] # NoBatch
      ack == [kind |-> "ack", origin |-> m[1], from |-> m, to |-> msg.from, batch |-> msg.batch]
  IN  /\ msg.kind = "remote"
      /\ AdvanceLog(msg, local_log[m],
           [single_home_logs[m] EXCEPT ![Home(msg.batch)] = BL!AddSlot(@, free, msg.batch, 0)],
           ForwardIf(FirstTimeRegion(msg), msg, OtherReplicas(m))
             \cup ForwardIf(FirstTimeReplica(msg), msg, OtherPartitions(m))
             \cup IF FirstTimeRegion(msg) /\ msg.need_ack THEN {ack} ELSE {})

ProcessRemoteBatchOrder(msg) ==
  LET m == msg.to
      ack == [kind |-> "ack", origin |-> m[1], from |-> m, to |-> msg.from, batch |-> msg.batch]
  IN  /\ msg.kind = "remote"
      /\ AdvanceLog(msg, local_log[m],
           [single_home_logs[m] EXCEPT ![Home(msg.batch)] = BL!AddSlot(@, msg.slot, msg.batch, 0)],
           ForwardIf(FirstTimeRegion(msg), msg, OtherReplicas(m))
             \cup ForwardIf(FirstTimeReplica(msg), msg, OtherPartitions(m))
             \cup IF FirstTimeRegion(msg) /\ msg.need_ack THEN {ack} ELSE {})

\* Mutant: an ack stays with the leader.
ProcessBatchReplicationAckKept(msg) ==
  LET m == msg.to
  IN  /\ msg.kind = "ack"
      /\ AdvanceLog(msg, local_log[m],
           [single_home_logs[m] EXCEPT ![m[1]] = BL!AckReplication(@, msg.batch)], {})

ProcessBatchReplicationAck(msg) ==
  LET m == msg.to
  IN  /\ msg.kind = "ack"
      /\ AdvanceLog(msg, local_log[m],
           [single_home_logs[m] EXCEPT ![m[1]] = BL!AckReplication(@, msg.batch)],
           ForwardIf(FirstTimeRegion(msg), msg, OtherReplicas(m))
             \cup ForwardIf(FirstTimeReplica(msg), msg, OtherPartitions(m)))

OnInternalRequestReceived(msg) ==
  \/ ProcessForwardBatchData(msg)
  \/ ProcessLocalBatchOrder(msg)
  \/ ProcessRemoteBatchOrder(msg)
  \/ ProcessBatchReplicationAck(msg)

Next ==
  \/ \E g \in Machine : SendBatch(g) \/ Commit(g)
  \/ \E msg \in net : OnInternalRequestReceived(msg)

Spec == Init /\ [][Next]_vars

-----------------------------------------------------------------------------
(* Properties *)

\* Types of the logs and of what was emitted.
TypeOK ==
  /\ local_log \in [Machine -> LL!LocalLog]
  /\ single_home_logs \in [Machine -> [Region -> BL!BatchLog]]
  /\ \A m \in Machine, h \in Region : emitted[m][h] \in Seq(Batch)

\* The batches of region h in the order its Paxos decided: the i-th slot that
\* names a generator takes the generator's i-th batch.
Ordered(h) ==
  [i \in 1 .. Len(order[h]) |-> <<order[h][i], Earlier(order[h], i - 1, order[h][i])>>]

SL == INSTANCE SharedLog WITH Log <- Region, Reader <- Machine, out <- emitted,
                              order <- [h \in Region |-> Ordered(h)]

\* The log managers implement, for each home region, one shared log: every
\* machine of every region emits a growing prefix of the same order, however
\* data, orders and acks travel.
ImplementsSharedLog == SL!Spec

\* AsyncLog::Insert throws when a position is taken (async_log.h:25-30): no
\* machine is ever sent a batch or a slot a second time.
InsertOnce ==
  \A msg \in net :
    /\ msg.kind = "data" /\ Home(msg.batch) = msg.to[1] =>
         msg.batch[2] \notin local_log[msg.to].queues[msg.batch[1]]
    /\ msg.kind = "data" =>
         msg.batch \notin single_home_logs[msg.to][Home(msg.batch)].batches
    /\ msg.kind = "local" => local_log[msg.to].slots[msg.slot] = NoGenerator
    /\ msg.kind = "remote" => msg.slot >= single_home_logs[msg.to][Home(msg.batch)].next
    /\ \A other \in net : other # msg /\ other.kind = msg.kind /\ other.to = msg.to =>
         CASE msg.kind = "data" -> other.batch # msg.batch
           [] msg.kind \in {"local", "remote"} -> other.slot # msg.slot \/ other.from[1] # msg.from[1]
           [] OTHER -> TRUE

\* The CHECK_EQ of log_manager.cpp:156: a batch that reaches a replica for the
\* first time carries the data of all partitions, any other of one.
WholeWhenFirst ==
  \A msg \in net : msg.kind = "data" =>
    (msg.whole <=> SubSeq(msg.from, 1, 2) # SubSeq(msg.to, 1, 2))

Knows(m, b) ==
  \/ b \in Range(emitted[m][Home(b)])
  \/ b \in Range(single_home_logs[m][Home(b)].slots)

\* A machine of the home region emits a batch only after every region it
\* replicates to synchronously knows the slot of the batch.  It may not have
\* the data: the ack is sent when the order arrives (log_manager.cpp:227).
OrderReplicated ==
  \A m \in Machine : \A b \in Range(emitted[m][m[1]]) :
    \A r \in NeedAck(m[1]) : \E n \in Machine : n[1] = r /\ Knows(n, b)

\* Nothing is held back: once every message was handled, every machine has
\* emitted everything Paxos ordered.  Handlers send only messages about batches
\* they have not seen, so with a bounded load this state is always reached.
NothingHeldBack ==
  net = {} => \A m \in Machine, h \in Region : Len(emitted[m][h]) = Len(order[h])

\* A region with nothing in its replication_order "will not synchronously
\* replicate to anywhere" (configuration.proto:186-188): its batches wait for
\* no ack.
NoAckAwaited ==
  net = {} => \A m \in Machine : NeedAck(m[1]) = {} =>
    Len(emitted[m][m[1]]) = Len(order[m[1]])
=============================================================================
