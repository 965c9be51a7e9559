------------------------------ MODULE BatchLog ------------------------------
(***************************************************************************)
(* One BatchLog fed in any order: the data of each batch once, each slot   *)
(* of the order once, and the acks of each batch, before or after its slot *)
(* and its data.  Order[s + 1] is the batch of slot s.                     *)
(***************************************************************************)
EXTENDS BatchLogTable, FiniteSets

CONSTANTS Order,             \* the order the slots will be filled in
          ReplicationFactor  \* acks each batch needs

ASSUME OrderAssumption ==
  /\ Order \in Seq(BatchId)
  /\ Len(Order) = MaxSlot
  /\ \A i, j \in 1 .. MaxSlot : Order[i] = Order[j] => i = j
  /\ ReplicationFactor \in Nat

VARIABLES log,
          arrived,  \* history: batches whose data came
          slotted,  \* history: slots that came
          acks,     \* history: acks of each batch
          out       \* batches NextBatch returned

vars == <<log, arrived, slotted, acks, out>>

Init ==
  /\ log = EmptyLog
  /\ arrived = {}
  /\ slotted = {}
  /\ acks = [b \in BatchId |-> 0]
  /\ out = << >>

DataArrives(b) ==
  /\ b \notin arrived
  /\ log' = AddBatch(log, b)
  /\ arrived' = arrived \cup {b}
  /\ UNCHANGED <<slotted, acks, out>>

SlotArrives(s) ==
  /\ s \notin slotted
  /\ log' = AddSlot(log, s, Order[s + 1], ReplicationFactor)
  /\ slotted' = slotted \cup {s}
  /\ UNCHANGED <<arrived, acks, out>>

AckArrives(b) ==
  /\ acks[b] < ReplicationFactor
  /\ log' = AckReplication(log, b)
  /\ acks' = [acks EXCEPT ![b] = @ + 1]
  /\ UNCHANGED <<arrived, slotted, out>>

Take ==
  /\ HasNextBatch(log)
  /\ out' = Append(out, Head(log.ready))
  /\ log' = NextBatch(log)
  /\ UNCHANGED <<arrived, slotted, acks>>

Next ==
  \/ \E b \in BatchId : DataArrives(b) \/ AckArrives(b)
  \/ \E s \in Slot : SlotArrives(s)
  \/ Take

Spec == Init /\ [][Next]_vars

-----------------------------------------------------------------------------
(* Properties *)

\* Types of the log and its history.
TypeOK ==
  /\ log \in BatchLog
  /\ arrived \subseteq BatchId
  /\ slotted \subseteq Slot
  /\ acks \in [BatchId -> 0 .. ReplicationFactor]
  /\ out \in Seq(BatchId)

Complete(s) ==
  /\ s \in slotted
  /\ Order[s + 1] \in arrived
  /\ acks[Order[s + 1]] = ReplicationFactor

\* What the log has let through, returned by NextBatch or ready to be, is the
\* longest prefix of the order all of whose slots, data and acks have come:
\* nothing is reordered, skipped, repeated or let through early, and nothing
\* is held back, whatever order the three inputs arrive in.
LetsThroughExactly ==
  /\ out \o log.ready = SubSeq(Order, 1, log.next)
  /\ \A s \in 0 .. log.next - 1 : Complete(s)
  /\ log.next < MaxSlot => ~Complete(log.next)

\* NextBatch finds the data of the batch it returns: it dereferences the
\* result of the lookup unconditionally (batch_log.cpp:41-46).
DataPresent == \A i \in 1 .. Len(log.ready) : log.ready[i] \in log.batches

\* The inductive invariant: what LetsThroughExactly and DataPresent rest on.
IInv ==
  /\ TypeOK
  /\ \A s \in Slot : log.slots[s] =
       IF s \in slotted /\ s >= log.next THEN Order[s + 1] ELSE NoBatch
  /\ \A s \in Slot : s < log.next => Complete(s)
  /\ \A b \in BatchId : log.replication[b] =
       (IF \E s \in slotted : Order[s + 1] = b THEN ReplicationFactor ELSE 0) - acks[b]
  /\ Len(out) + Len(log.ready) = log.next
  /\ \A i \in 1 .. Len(out) : out[i] = Order[i]
  /\ \A i \in 1 .. Len(log.ready) : log.ready[i] = Order[Len(out) + i]
  /\ \A b \in BatchId : b \in log.batches <=>
       b \in arrived /\ \A i \in 1 .. Len(out) : out[i] # b
  /\ ~IsReady(log, log.next)
=============================================================================
