--------------------------- MODULE BatchLogTable ---------------------------
(***************************************************************************)
(* Operations of the class BatchLog (common/batch_log.{h,cpp}) over the    *)
(* AsyncLog it is built on (common/async_log.h), on one record per log.    *)
(* A ready batch is kept without the slot number and the time that         *)
(* accompany it in the code: no caller uses them.                          *)
(***************************************************************************)
EXTENDS Integers, Sequences

CONSTANTS BatchId,
          NoBatch,   \* an empty log position
          MaxSlot    \* bound on the slot numbers

ASSUME BatchAssumption == NoBatch \notin BatchId /\ MaxSlot \in Nat

Slot == 0 .. MaxSlot - 1

\* replication counts the acks a batch still misses; it is negative while acks
\* have overtaken the slot.  An absent entry counts as 0: AddSlot creates the
\* entry that the next slot in turn is tested for.
BatchLog ==
  [slots : [Slot -> BatchId \cup {NoBatch}], next : 0 .. MaxSlot,
   batches : SUBSET BatchId, replication : [BatchId -> Int], ready : Seq(BatchId)]

EmptyLog ==
  [slots |-> [s \in Slot |-> NoBatch], next |-> 0,
   batches |-> {}, replication |-> [b \in BatchId |-> 0], ready |-> << >>]

\* Mutant: the acks of other regions are not waited for.
IsReadyUnacked(l, s) ==
  /\ s \in Slot
  /\ l.slots[s] \in l.batches

\* Slot s is known, and so is its batch, with every ack.
IsReady(l, s) ==
  /\ s \in Slot
  /\ l.slots[s] \in l.batches
  /\ l.replication[l.slots[s]] = 0

\* Where the loop of UpdateReadyBatches stops.
FirstGap(l) ==
  CHOOSE n \in l.next .. MaxSlot :
    ~IsReady(l, n) /\ \A i \in l.next .. n - 1 : IsReady(l, i)

UpdateReadyBatches(l) ==
  LET gap == FirstGap(l)
  IN  [l EXCEPT !.next  = gap,
                !.slots = [s \in Slot |-> IF s < gap THEN NoBatch ELSE l.slots[s]],
                !.ready = @ \o [i \in 1 .. gap - l.next |-> l.slots[l.next + i - 1]]]

\* Insert ignores positions that were already read.
Insert(l, s, b) == IF s < l.next THEN l.slots ELSE [l.slots EXCEPT ![s] = b]

AddBatch(l, b) == UpdateReadyBatches([l EXCEPT !.batches = @ \cup {b}])

AckReplication(l, b) == UpdateReadyBatches([l EXCEPT !.replication[b] = @ - 1])

\* Mutant: the slot's acks are assigned, so acks that came early are forgotten.
AddSlotAssign(l, s, b, f) ==
  UpdateReadyBatches([l EXCEPT !.slots = Insert(l, s, b), !.replication[b] = f])

AddSlot(l, s, b, f) ==
  UpdateReadyBatches([l EXCEPT !.slots = Insert(l, s, b), !.replication[b] = @ + f])

\* AddSlot for consecutive entries <<slot, batch>>: what one of them makes ready
\* does not depend on the later ones.
AddSlots(l, entries, f) ==
  IF entries = << >> THEN l ELSE
  UpdateReadyBatches(
    [l EXCEPT !.slots = [s \in Slot |->
                IF s >= l.next /\ \E i \in DOMAIN entries : entries[i][1] = s
                  THEN entries[CHOOSE i \in DOMAIN entries : entries[i][1] = s][2]
                  ELSE l.slots[s]],
              !.replication = [b \in BatchId |->
                IF \E i \in DOMAIN entries : entries[i][2] = b
                  THEN l.replication[b] + f ELSE l.replication[b]]])

HasNextBatch(l) == l.ready # << >>

NextBatch(l) == [l EXCEPT !.ready = Tail(@), !.batches = @ \ {Head(l.ready)}]

\* NextBatch until there is none.
Drain(l) ==
  [l EXCEPT !.ready = << >>, !.batches = @ \ {l.ready[i] : i \in DOMAIN l.ready}]
=============================================================================
