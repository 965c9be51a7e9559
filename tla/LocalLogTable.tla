---------------------------- MODULE LocalLogTable ----------------------------
(***************************************************************************)
(* Operations of the class LocalLog (module/log_manager.{h,cpp}): Paxos    *)
(* decides for each slot which generator's queue the next batch is taken   *)
(* from.  A batch is identified by its generator and its position in the   *)
(* generator's queue; the batcher numbers both with the same counter.      *)
(* Entries that were read stay in the record, where nothing looks at them. *)
(***************************************************************************)
EXTENDS Integers, Sequences, FiniteSets

CONSTANTS Generator,
          NoGenerator,
          MaxSlot       \* bound on the slot numbers

Position == 0 .. MaxSlot - 1

LocalLog ==
  [slots : [Position -> Generator \cup {NoGenerator}], next : 0 .. MaxSlot,
   queues : [Generator -> SUBSET Position], heads : [Generator -> 0 .. MaxSlot],
   ready : Seq(Position \X (Generator \X Position))]

EmptyLocalLog ==
  [slots |-> [s \in Position |-> NoGenerator], next |-> 0,
   queues |-> [g \in Generator |-> {}], heads |-> [g \in Generator |-> 0],
   ready |-> << >>]

\* How many of the next slots up to n name generator g.
Named(l, n, g) == Cardinality({t \in l.next .. n - 1 : l.slots[t] = g})

\* The batch of slot n, when the loop of UpdateReadyBatches gets there: every
\* slot before it has advanced the head of the queue it names.
Taken(l, n) == <<l.slots[n], l.heads[l.slots[n]] + Named(l, n, l.slots[n])>>

\* Slot n is known and so is the batch it takes from the queue it names.
CanTake(l, n) ==
  /\ n \in Position
  /\ l.slots[n] \in Generator
  /\ Taken(l, n)[2] \in l.queues[l.slots[n]]

\* Where the loop stops.
FirstGap(l) ==
  CHOOSE n \in l.next .. MaxSlot :
    ~CanTake(l, n) /\ \A i \in l.next .. n - 1 : CanTake(l, i)

UpdateReadyBatches(l) ==
  LET gap == FirstGap(l)
  IN  [l EXCEPT !.next  = gap,
                !.heads = [g \in Generator |-> l.heads[g] + Named(l, gap, g)],
                !.ready = @ \o [i \in 1 .. gap - l.next |->
                                  <<l.next + i - 1, Taken(l, l.next + i - 1)>>]]

AddBatchId(l, g, position) ==
  UpdateReadyBatches([l EXCEPT !.queues[g] = @ \cup {position}])

AddSlot(l, s, g) == UpdateReadyBatches([l EXCEPT !.slots[s] = g])
=============================================================================
