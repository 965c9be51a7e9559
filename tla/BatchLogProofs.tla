--------------------------- MODULE BatchLogProofs ---------------------------
(***************************************************************************)
(* Theorems about BatchLog: for any order of any length, any number of     *)
(* acks and any order of arrival, the log lets through exactly the longest *)
(* complete prefix, and NextBatch finds the data of what it returns.       *)
(***************************************************************************)
EXTENDS BatchLog, SequenceTheorems, WellFoundedInduction, TLAPS

\* The loop of UpdateReadyBatches stops (batch_log.cpp:52-64): at or after the
\* next slot there is a first one that is not ready.
LEMMA GapExists ==
  ASSUME NEW l, l.next \in 0 .. MaxSlot
  PROVE  /\ FirstGap(l) \in l.next .. MaxSlot
         /\ ~IsReady(l, FirstGap(l))
         /\ \A i \in l.next .. FirstGap(l) - 1 : IsReady(l, i)
<1> DEFINE S == {n \in l.next .. MaxSlot : ~IsReady(l, n)}
<1> USE BatchAssumption
<1>1. MaxSlot \in S
  BY DEF IsReady, Slot
<1>2. S \subseteq Nat
  OBVIOUS
<1>3. PICK n \in S : \A m \in S : <<m, n>> \notin OpToRel(<, Nat)
  <2> HIDE DEF S
  <2> QED BY <1>1, <1>2, NatLessThanWellFounded, WFMin
<1>4. \A m \in S : ~(m < n)
  BY <1>2, <1>3, Zenon DEF OpToRel
<1>5. \A i \in l.next .. n - 1 : IsReady(l, i)
  BY <1>4
<1> QED
  BY <1>5 DEF FirstGap

-----------------------------------------------------------------------------
(* The invariant of a log l that may have slots ready but not yet let         *)
(* through, as the operations leave it before UpdateReadyBatches.             *)

CompleteIn(s, arr, slt, ak) ==
  s \in slt /\ Order[s + 1] \in arr /\ ak[Order[s + 1]] = ReplicationFactor

HistoryOK(arr, slt, ak, o) ==
  /\ arr \subseteq BatchId
  /\ slt \subseteq Slot
  /\ ak \in [BatchId -> 0 .. ReplicationFactor]
  /\ o \in Seq(BatchId)

SlotsMatch(l, slt) ==
  \A s \in Slot : l.slots[s] = IF s \in slt /\ s >= l.next THEN Order[s + 1] ELSE NoBatch

AcksMatch(l, slt, ak) ==
  \A b \in BatchId : l.replication[b] =
    (IF \E s \in slt : Order[s + 1] = b THEN ReplicationFactor ELSE 0) - ak[b]

ReadyMatch(l, o) ==
  /\ Len(o) + Len(l.ready) = l.next
  /\ \A i \in 1 .. Len(o) : o[i] = Order[i]
  /\ \A i \in 1 .. Len(l.ready) : l.ready[i] = Order[Len(o) + i]

DataMatch(l, arr, o) ==
  \A b \in BatchId : b \in l.batches <=> b \in arr /\ \A i \in 1 .. Len(o) : o[i] # b

Matches(l, arr, slt, ak, o) ==
  /\ l \in BatchLog
  /\ SlotsMatch(l, slt)
  /\ \A s \in Slot : s < l.next => CompleteIn(s, arr, slt, ak)
  /\ AcksMatch(l, slt, ak)
  /\ ReadyMatch(l, o)
  /\ DataMatch(l, arr, o)

\* IInv in the terms above.
LEMMA IInvParts ==
  IInv <=> /\ HistoryOK(arrived, slotted, acks, out)
           /\ Matches(log, arrived, slotted, acks, out)
           /\ ~IsReady(log, log.next)
BY Zenon DEF IInv, TypeOK, Complete, HistoryOK, Matches, SlotsMatch, AcksMatch, ReadyMatch,
             DataMatch, CompleteIn

\* The same of the next state.
LEMMA IInvNext ==
  ASSUME HistoryOK(arrived', slotted', acks', out'),
         Matches(log', arrived', slotted', acks', out'),
         ~IsReady(log', log'.next)
  PROVE  IInv'
BY Zenon DEF IInv, TypeOK, Complete, HistoryOK, Matches, SlotsMatch, AcksMatch, ReadyMatch,
             DataMatch, CompleteIn, IsReady

\* What IsReady finds is what the slot, the data and all acks of the batch were
\* received for.
LEMMA ReadyIsComplete ==
  ASSUME NEW l, NEW arr, NEW slt, NEW ak, NEW o, NEW s,
         HistoryOK(arr, slt, ak, o), Matches(l, arr, slt, ak, o), IsReady(l, s)
  PROVE  /\ s \in Slot
         /\ l.slots[s] = Order[s + 1]
         /\ CompleteIn(s, arr, slt, ak)
<1> USE BatchAssumption, OrderAssumption
<1>1. s \in Slot /\ l.slots[s] \in l.batches /\ l.replication[l.slots[s]] = 0
  BY DEF IsReady
<1>2. l.batches \subseteq BatchId
  BY DEF Matches, BatchLog
<1>3. l.slots[s] # NoBatch
  BY <1>1, <1>2
<1>4. s \in slt /\ l.slots[s] = Order[s + 1]
  BY <1>1, <1>3 DEF Matches, SlotsMatch
<1>5. Order[s + 1] \in arr
  BY <1>1, <1>2, <1>4 DEF Matches, DataMatch
<1>6. ak[Order[s + 1]] = ReplicationFactor
  <2>1. Order[s + 1] \in BatchId
    BY <1>1, <1>2, <1>4
  <2>2. l.replication[Order[s + 1]] = ReplicationFactor - ak[Order[s + 1]]
    BY <1>4, <2>1 DEF Matches, AcksMatch
  <2>3. ak[Order[s + 1]] \in Nat
    BY <2>1 DEF HistoryOK
  <2> QED BY <1>1, <1>4, <2>2, <2>3
<1> QED
  BY <1>1, <1>4, <1>5, <1>6 DEF CompleteIn

\* UpdateReadyBatches lets through everything that is ready and keeps the rest
\* of the invariant.
LEMMA UpdateMatches ==
  ASSUME NEW l, NEW arr, NEW slt, NEW ak, NEW o,
         HistoryOK(arr, slt, ak, o), Matches(l, arr, slt, ak, o)
  PROVE  /\ Matches(UpdateReadyBatches(l), arr, slt, ak, o)
         /\ ~IsReady(UpdateReadyBatches(l), UpdateReadyBatches(l).next)
<1> DEFINE g == FirstGap(l)
           u == UpdateReadyBatches(l)
           more == [i \in 1 .. g - l.next |-> l.slots[l.next + i - 1]]
<1> USE BatchAssumption, OrderAssumption
<1>0. /\ l \in BatchLog
      /\ l.next \in 0 .. MaxSlot
      /\ l.ready \in Seq(BatchId)
      /\ l.slots \in [Slot -> BatchId \cup {NoBatch}]
      /\ l.batches \subseteq BatchId
  BY DEF Matches, BatchLog
<1>1. /\ g \in l.next .. MaxSlot
      /\ ~IsReady(l, g)
      /\ \A i \in l.next .. g - 1 : IsReady(l, i)
  BY <1>0, GapExists
<1>2. \A i \in l.next .. g - 1 : /\ i \in Slot
                               /\ l.slots[i] = Order[i + 1]
                               /\ CompleteIn(i, arr, slt, ak)
  <2>1. ASSUME NEW i, IsReady(l, i)
        PROVE  i \in Slot /\ l.slots[i] = Order[i + 1] /\ CompleteIn(i, arr, slt, ak)
    <3> HIDE BatchAssumption, OrderAssumption DEF g, u, more
    <3> QED BY <2>1, ReadyIsComplete
  <2> QED BY <1>1, <2>1
<1>b. g \in Nat /\ l.next \in Nat /\ g - l.next \in Nat /\ g <= MaxSlot
  <2> HIDE DEF g
  <2> QED BY <1>0, <1>1
<1> HIDE DEF g
<1>3. /\ u.next = g
      /\ u.slots = [s \in Slot |-> IF s < g THEN NoBatch ELSE l.slots[s]]
      /\ u.ready = l.ready \o more
      /\ u.batches = l.batches
      /\ u.replication = l.replication
  BY <1>0, Zenon DEF UpdateReadyBatches, g, BatchLog
<1>4. more \in Seq(BatchId) /\ Len(more) = g - l.next
  <2>1. ASSUME NEW i \in 1 .. g - l.next
        PROVE  l.slots[l.next + i - 1] \in BatchId
    <3>1. l.next + i - 1 \in l.next .. g - 1
      BY <1>b
    <3>2. IsReady(l, l.next + i - 1)
      BY <1>1, <3>1
    <3> QED BY <1>0, <3>2 DEF IsReady
  <2>2. more \in [1 .. g - l.next -> BatchId]
    BY <2>1
  <2> HIDE DEF more
  <2> QED BY <1>b, <2>2
<1>5. u \in BatchLog
  <2>1. u.ready \in Seq(BatchId)
    BY <1>0, <1>3, <1>4, ConcatProperties
  <2>2. u.slots \in [Slot -> BatchId \cup {NoBatch}]
    BY <1>0, <1>3
  <2>3. u.next \in 0 .. MaxSlot
    BY <1>0, <1>1, <1>3
  <2>4. u = [l EXCEPT !.next = u.next, !.slots = u.slots, !.ready = u.ready]
    BY <1>0, <1>3 DEF UpdateReadyBatches, g, BatchLog
  <2> HIDE DEF u
  <2> QED BY <1>0, <2>1, <2>2, <2>3, <2>4, Zenon DEF BatchLog
<1> HIDE DEF u
<1>6. SlotsMatch(u, slt)
  BY <1>0, <1>1, <1>3 DEF Matches, SlotsMatch, Slot
<1>7. \A s \in Slot : s < u.next => CompleteIn(s, arr, slt, ak)
  BY <1>0, <1>1, <1>2, <1>3 DEF Matches, Slot
<1>8. AcksMatch(u, slt, ak) /\ DataMatch(u, arr, o)
  BY <1>3 DEF Matches, AcksMatch, DataMatch
<1>9. ReadyMatch(u, o)
  <2>0. o \in Seq(BatchId) /\ ReadyMatch(l, o)
    BY DEF HistoryOK, Matches
  <2>1. Len(u.ready) = Len(l.ready) + (g - l.next)
    <3> HIDE BatchAssumption, OrderAssumption DEF more
    <3>0. l.ready \in Seq(BatchId) /\ more \in Seq(BatchId)
      BY <1>0, <1>4
    <3>1. Len(l.ready \o more) = Len(l.ready) + Len(more)
      BY <3>0
    <3> QED BY <1>3, <1>4, <3>1, Zenon
  <2>2. Len(o) \in Nat /\ Len(l.ready) \in Nat
    BY <1>0, <2>0, LenProperties
  <2>3. Len(o) + Len(u.ready) = u.next
    BY <1>0, <1>1, <1>3, <2>0, <2>1, <2>2 DEF ReadyMatch
  <2>4. ASSUME NEW i \in 1 .. Len(u.ready)
        PROVE  u.ready[i] = Order[Len(o) + i]
    <3>1. CASE i <= Len(l.ready)
      BY <1>0, <1>3, <1>4, <2>0, <2>2, <3>1, ConcatProperties DEF ReadyMatch
    <3>2. CASE i > Len(l.ready)
      <4> DEFINE j == i - Len(l.ready)
      <4>1. j \in 1 .. g - l.next
        BY <1>0, <1>1, <2>1, <2>2, <3>2
      <4>2. u.ready[i] = more[j]
        <5> HIDE DEF more
        <5> QED BY <1>0, <1>3, <1>4, <2>1, <2>2, <3>2, <4>1
      <4>3. l.next + j - 1 \in l.next .. g - 1
        <5> HIDE DEF j
        <5> QED BY <1>b, <4>1
      <4>4. more[j] = Order[l.next + j - 1 + 1]
        BY <1>2, <4>1, <4>3
      <4>5. l.next + j - 1 + 1 = Len(o) + i
        BY <1>0, <2>0, <2>2, <3>2 DEF ReadyMatch
      <4> QED BY <4>2, <4>4, <4>5
    <3> QED BY <2>2, <3>1, <3>2
  <2> QED BY <2>0, <2>3, <2>4 DEF ReadyMatch
<1>10. ~IsReady(u, u.next)
  BY <1>0, <1>1, <1>3 DEF IsReady, Slot
<1> QED
  BY <1>5, <1>6, <1>7, <1>8, <1>9, <1>10 DEF Matches, u

-----------------------------------------------------------------------------
(* The operations *)

\* The data of a batch, before the log looks again at what is ready
\* (BatchLog::AddBatch).
LEMMA DataKeeps ==
  ASSUME IInv, NEW b \in BatchId, DataArrives(b)
  PROVE  IInv'
<1> DEFINE m == [log EXCEPT !.batches = @ \cup {b}]
<1>0. /\ HistoryOK(arrived, slotted, acks, out)
      /\ Matches(log, arrived, slotted, acks, out)
  BY IInvParts
<1>1. log \in BatchLog
  BY <1>0 DEF Matches
<1>2. /\ m \in BatchLog
      /\ m.slots = log.slots /\ m.next = log.next
      /\ m.replication = log.replication /\ m.ready = log.ready
      /\ m.batches = log.batches \cup {b}
  BY <1>1, Zenon DEF BatchLog
<1>3. /\ log' = UpdateReadyBatches(m)
      /\ b \notin arrived /\ arrived' = arrived \cup {b}
      /\ slotted' = slotted /\ acks' = acks /\ out' = out
  BY DEF DataArrives, AddBatch
<1> HIDE DEF m
<1>4. HistoryOK(arrived', slotted', acks', out')
  BY <1>0, <1>3 DEF HistoryOK
<1>5. Matches(m, arrived', slotted', acks', out')
  <2>1. SlotsMatch(m, slotted') /\ AcksMatch(m, slotted', acks') /\ ReadyMatch(m, out')
    BY <1>0, <1>2, <1>3 DEF Matches, SlotsMatch, AcksMatch, ReadyMatch
  <2>2. \A s \in Slot : s < m.next => CompleteIn(s, arrived', slotted', acks')
    BY <1>0, <1>2, <1>3 DEF Matches, CompleteIn
  <2>3. \A i \in 1 .. Len(out) : out[i] # b
    <3> SUFFICES ASSUME NEW i \in 1 .. Len(out), out[i] = b PROVE FALSE
      OBVIOUS
    <3>1. Len(out) \in Nat /\ Len(log.ready) \in Nat /\ log.next \in 0 .. MaxSlot
      BY <1>0, <1>1, LenProperties DEF HistoryOK, BatchLog
    <3>2. i - 1 \in Slot /\ i - 1 < log.next /\ Order[i - 1 + 1] = b
      BY <1>0, <3>1, BatchAssumption DEF Matches, ReadyMatch, Slot
    <3>3. CompleteIn(i - 1, arrived, slotted, acks)
      BY <1>0, <3>2 DEF Matches
    <3> QED BY <1>3, <3>2, <3>3 DEF CompleteIn
  <2>4. DataMatch(m, arrived', out')
    BY <1>0, <1>2, <1>3, <2>3 DEF Matches, DataMatch
  <2> QED BY <1>2, <2>1, <2>2, <2>4 DEF Matches
<1>6. /\ Matches(log', arrived', slotted', acks', out')
      /\ ~IsReady(log', log'.next)
  BY <1>3, <1>4, <1>5, UpdateMatches
<1> QED
  BY <1>4, <1>6, IInvNext

\* An ack, before or after the slot and the data of its batch
\* (BatchLog::AckReplication).
LEMMA AckKeeps ==
  ASSUME IInv, NEW b \in BatchId, AckArrives(b)
  PROVE  IInv'
<1> DEFINE m == [log EXCEPT !.replication[b] = @ - 1]
<1>0. /\ HistoryOK(arrived, slotted, acks, out)
      /\ Matches(log, arrived, slotted, acks, out)
  BY IInvParts
<1>1. log \in BatchLog
  BY <1>0 DEF Matches
<1>2. /\ m \in BatchLog
      /\ m.slots = log.slots /\ m.next = log.next
      /\ m.batches = log.batches /\ m.ready = log.ready
      /\ m.replication = [log.replication EXCEPT ![b] = @ - 1]
  <2>1. [log.replication EXCEPT ![b] = @ - 1] \in [BatchId -> Int]
    BY <1>1 DEF BatchLog
  <2> QED BY <1>1, <2>1, Zenon DEF BatchLog
<1>3. /\ log' = UpdateReadyBatches(m)
      /\ acks[b] < ReplicationFactor
      /\ acks' = [acks EXCEPT ![b] = @ + 1]
      /\ slotted' = slotted /\ arrived' = arrived /\ out' = out
  BY DEF AckArrives, AckReplication
<1> HIDE DEF m
<1>a. acks \in [BatchId -> 0 .. ReplicationFactor] /\ log.replication \in [BatchId -> Int]
  BY <1>0, <1>1 DEF HistoryOK, BatchLog
<1>4. HistoryOK(arrived', slotted', acks', out')
  <2>1. acks' \in [BatchId -> 0 .. ReplicationFactor]
    BY <1>a, <1>3, OrderAssumption
  <2> QED BY <1>0, <1>3, <2>1 DEF HistoryOK
<1>5. Matches(m, arrived', slotted', acks', out')
  <2>1. SlotsMatch(m, slotted') /\ DataMatch(m, arrived', out') /\ ReadyMatch(m, out')
    BY <1>0, <1>2, <1>3 DEF Matches, SlotsMatch, DataMatch, ReadyMatch
  <2>2. ASSUME NEW s \in Slot, s < m.next
        PROVE  CompleteIn(s, arrived', slotted', acks')
    <3>1. CompleteIn(s, arrived, slotted, acks)
      BY <1>0, <1>2, <2>2 DEF Matches
    <3>2. Order[s + 1] # b
      BY <1>3, <1>a, <3>1, OrderAssumption DEF CompleteIn
    <3> QED BY <1>3, <1>a, <3>1, <3>2 DEF CompleteIn, HistoryOK
  <2>3. AcksMatch(m, slotted', acks')
    <3> SUFFICES ASSUME NEW c \in BatchId
                 PROVE  m.replication[c] =
                          (IF \E s \in slotted : Order[s + 1] = c
                           THEN ReplicationFactor ELSE 0) - acks'[c]
      BY <1>3 DEF AcksMatch
    <3> DEFINE f == IF \E s \in slotted : Order[s + 1] = c THEN ReplicationFactor ELSE 0
    <3>1. log.replication[c] = f - acks[c]
      BY <1>0 DEF Matches, AcksMatch
    <3>2. f \in Nat
      BY OrderAssumption
    <3> HIDE DEF f
    <3>3. m.replication[c] = f - acks'[c]
      <4>1. CASE c = b
        <5>1. m.replication[c] = log.replication[c] - 1 /\ acks'[c] = acks[c] + 1
          BY <1>2, <1>3, <1>a, <4>1
        <5>2. acks[c] \in Nat
          BY <1>a, OrderAssumption
        <5>3. \A x, y \in Nat : x - y - 1 = x - (y + 1)
          OBVIOUS
        <5> QED BY <3>1, <3>2, <5>1, <5>2, <5>3, Zenon
      <4>2. CASE c # b
        BY <1>2, <1>3, <1>a, <3>1, <4>2
      <4> QED BY <4>1, <4>2
    <3> QED BY <3>3 DEF f
  <2> QED BY <1>2, <2>1, <2>2, <2>3 DEF Matches
<1>6. /\ Matches(log', arrived', slotted', acks', out')
      /\ ~IsReady(log', log'.next)
  BY <1>3, <1>4, <1>5, UpdateMatches
<1> QED
  BY <1>4, <1>6, IInvNext

\* A slot, in any order (BatchLog::AddSlot).  It is not behind the reader,
\* since every slot the log has passed was received, so Insert keeps it.
LEMMA SlotKeeps ==
  ASSUME IInv, NEW t \in Slot, SlotArrives(t)
  PROVE  IInv'
<1> DEFINE b == Order[t + 1]
           m == [log EXCEPT !.slots = Insert(log, t, b),
                            !.replication[b] = @ + ReplicationFactor]
<1> USE BatchAssumption
<1>0. /\ HistoryOK(arrived, slotted, acks, out)
      /\ Matches(log, arrived, slotted, acks, out)
  BY IInvParts
<1>1. log \in BatchLog /\ slotted \subseteq Slot
  BY <1>0 DEF Matches, HistoryOK
<1>a. /\ acks \in [BatchId -> 0 .. ReplicationFactor]
      /\ log.replication \in [BatchId -> Int]
      /\ log.slots \in [Slot -> BatchId \cup {NoBatch}]
      /\ log.next \in Nat
  BY <1>0, <1>1 DEF HistoryOK, BatchLog
<1>b. b \in BatchId
  BY OrderAssumption DEF Slot
<1>3. /\ log' = UpdateReadyBatches(m)
      /\ t \notin slotted /\ slotted' = slotted \cup {t}
      /\ arrived' = arrived /\ acks' = acks /\ out' = out
  BY DEF SlotArrives, AddSlot
<1>c. t >= log.next
  <2>1. ~ (t < log.next)
    BY <1>0, <1>3 DEF Matches, CompleteIn
  <2> QED BY <1>a, <2>1 DEF Slot
<1>d. Insert(log, t, b) = [log.slots EXCEPT ![t] = b]
  BY <1>a, <1>c DEF Insert, Slot
<1>2. /\ m \in BatchLog
      /\ m.next = log.next /\ m.batches = log.batches /\ m.ready = log.ready
      /\ m.slots = [log.slots EXCEPT ![t] = b]
      /\ m.replication = [log.replication EXCEPT ![b] = @ + ReplicationFactor]
  <2> HIDE DEF b
  <2>1. [log.slots EXCEPT ![t] = b] \in [Slot -> BatchId \cup {NoBatch}]
    BY <1>a, <1>b
  <2>2. [log.replication EXCEPT ![b] = @ + ReplicationFactor] \in [BatchId -> Int]
    BY <1>a, <1>b, OrderAssumption
  <2> QED BY <1>1, <1>d, <2>1, <2>2, Zenon DEF BatchLog
<1> HIDE DEF m
<1>4. HistoryOK(arrived', slotted', acks', out')
  BY <1>0, <1>3 DEF HistoryOK
<1>5. Matches(m, arrived', slotted', acks', out')
  <2>1. DataMatch(m, arrived', out') /\ ReadyMatch(m, out')
    BY <1>0, <1>2, <1>3 DEF Matches, DataMatch, ReadyMatch
  <2>2. \A s \in Slot : s < m.next => CompleteIn(s, arrived', slotted', acks')
    BY <1>0, <1>2, <1>3 DEF Matches, CompleteIn
  <2>3. SlotsMatch(m, slotted')
    BY <1>0, <1>2, <1>3, <1>a, <1>c DEF Matches, SlotsMatch
  <2>4. AcksMatch(m, slotted', acks')
    <3> SUFFICES ASSUME NEW c \in BatchId
                 PROVE  m.replication[c] =
                          (IF \E s \in slotted \cup {t} : Order[s + 1] = c
                           THEN ReplicationFactor ELSE 0) - acks[c]
      BY <1>3 DEF AcksMatch
    <3>0. log.replication[c] = (IF \E s \in slotted : Order[s + 1] = c
                                THEN ReplicationFactor ELSE 0) - acks[c]
      BY <1>0 DEF Matches, AcksMatch
    <3>1. CASE c = b
      <4>1. ~ \E s \in slotted : Order[s + 1] = b
        <5> SUFFICES ASSUME NEW s \in slotted, Order[s + 1] = b PROVE FALSE
          OBVIOUS
        <5>1. s + 1 \in 1 .. MaxSlot /\ t + 1 \in 1 .. MaxSlot
          BY <1>1 DEF Slot
        <5>2. s + 1 = t + 1
          BY <5>1, OrderAssumption
        <5>3. s = t
          BY <1>1, <5>2 DEF Slot
        <5> QED BY <1>3, <5>3
      <4>2. \E s \in slotted \cup {t} : Order[s + 1] = b
        OBVIOUS
      <4>3. log.replication[b] = 0 - acks[b]
        BY <3>0, <3>1, <4>1
      <4>4. m.replication[b] = log.replication[b] + ReplicationFactor
        BY <1>2, <1>a, <1>b
      <4>5. m.replication[b] = ReplicationFactor - acks[b]
        <5> HIDE DEF b
        <5> QED BY <1>a, <1>b, <4>3, <4>4, OrderAssumption
      <4> QED BY <3>1, <4>2, <4>5
    <3>2. CASE c # b
      <4>1. (\E s \in slotted \cup {t} : Order[s + 1] = c) <=> \E s \in slotted : Order[s + 1] = c
        BY <3>2
      <4>2. m.replication[c] = log.replication[c]
        BY <1>2, <1>a, <3>2
      <4> QED BY <3>0, <4>1, <4>2
    <3> QED BY <3>1, <3>2
  <2> QED BY <1>2, <2>1, <2>2, <2>3, <2>4 DEF Matches
<1>6. /\ Matches(log', arrived', slotted', acks', out')
      /\ ~IsReady(log', log'.next)
  BY <1>3, <1>4, <1>5, UpdateMatches
<1> QED
  BY <1>4, <1>6, IInvNext

\* The reader takes the first ready batch and its data (BatchLog::NextBatch).
LEMMA TakeKeeps ==
  ASSUME IInv, Take
  PROVE  IInv'
<1> DEFINE h == Head(log.ready)
<1> USE BatchAssumption
<1>0. /\ HistoryOK(arrived, slotted, acks, out)
      /\ Matches(log, arrived, slotted, acks, out)
      /\ ~IsReady(log, log.next)
  BY IInvParts
<1>1. log \in BatchLog /\ out \in Seq(BatchId)
  BY <1>0 DEF Matches, HistoryOK
<1>2. log.ready \in Seq(BatchId) /\ log.ready # << >> /\ log.batches \subseteq BatchId
  BY <1>1 DEF BatchLog, Take, HasNextBatch
<1>3. /\ Tail(log.ready) \in Seq(BatchId)
      /\ Len(log.ready) \in Nat \ {0}
      /\ Len(Tail(log.ready)) = Len(log.ready) - 1
      /\ \A i \in 1 .. Len(log.ready) - 1 : Tail(log.ready)[i] = log.ready[i + 1]
      /\ h = log.ready[1] /\ h \in BatchId
  BY <1>2
<1>4. /\ log' \in BatchLog
      /\ log'.slots = log.slots /\ log'.next = log.next
      /\ log'.replication = log.replication
      /\ log'.ready = Tail(log.ready)
      /\ log'.batches = log.batches \ {h}
  <2>1. log' = [log EXCEPT !.ready = Tail(log.ready), !.batches = log.batches \ {h}]
    BY <1>1 DEF Take, NextBatch, BatchLog
  <2>2. log.batches \ {h} \subseteq BatchId
    BY <1>2
  <2> HIDE DEF h
  <2> QED BY <1>1, <1>3, <2>1, <2>2, Zenon DEF BatchLog
<1>5. /\ out' = Append(out, h)
      /\ arrived' = arrived /\ slotted' = slotted /\ acks' = acks
  BY DEF Take
<1> HIDE DEF h
<1>6. /\ out' \in Seq(BatchId)
      /\ Len(out) \in Nat
      /\ Len(out') = Len(out) + 1
      /\ \A i \in 1 .. Len(out) : out'[i] = out[i]
      /\ out'[Len(out) + 1] = h
  BY <1>1, <1>3, <1>5
<1>7. HistoryOK(arrived', slotted', acks', out')
  BY <1>0, <1>5, <1>6 DEF HistoryOK
<1>8. Matches(log', arrived', slotted', acks', out')
  <2>1. SlotsMatch(log', slotted') /\ AcksMatch(log', slotted', acks')
    BY <1>0, <1>4, <1>5 DEF Matches, SlotsMatch, AcksMatch
  <2>2. \A s \in Slot : s < log'.next => CompleteIn(s, arrived', slotted', acks')
    BY <1>0, <1>4, <1>5 DEF Matches
  <2>3. ReadyMatch(log', out')
    <3>0. ReadyMatch(log, out)
      BY <1>0 DEF Matches
    <3>1. Len(out') + Len(log'.ready) = log'.next
      <4>1. Len(out) + Len(log.ready) = log.next
        BY <3>0 DEF ReadyMatch
      <4>2. Len(log'.ready) = Len(log.ready) - 1 /\ log'.next = log.next
        BY <1>3, <1>4
      <4>3. Len(out') = Len(out) + 1 /\ Len(out) \in Nat /\ Len(log.ready) \in Nat
        BY <1>3, <1>6
      <4>4. \A x, y \in Nat : x + 1 + (y - 1) = x + y
        OBVIOUS
      <4> QED BY <4>1, <4>2, <4>3, <4>4, Zenon
    <3>2. ASSUME NEW i \in 1 .. Len(out') PROVE out'[i] = Order[i]
      <4>1. CASE i <= Len(out)
        BY <3>0, <1>6, <4>1 DEF ReadyMatch
      <4>2. CASE i = Len(out) + 1
        BY <3>0, <1>3, <1>6, <4>2 DEF ReadyMatch
      <4> QED BY <1>6, <4>1, <4>2
    <3>3. ASSUME NEW i \in 1 .. Len(log'.ready) PROVE log'.ready[i] = Order[Len(out') + i]
      <4>1. i \in 1 .. Len(log.ready) - 1 /\ i + 1 \in 1 .. Len(log.ready)
        BY <1>3, <1>4
      <4>2. log'.ready[i] = log.ready[i + 1]
        BY <1>3, <1>4, <4>1
      <4>3. log.ready[i + 1] = Order[Len(out) + (i + 1)]
        BY <3>0, <4>1 DEF ReadyMatch
      <4>4. Len(out) + (i + 1) = Len(out') + i
        BY <1>6
      <4> QED BY <4>2, <4>3, <4>4
    <3> QED BY <3>1, <3>2, <3>3 DEF ReadyMatch
  <2>4. DataMatch(log', arrived', out')
    <3> SUFFICES ASSUME NEW b \in BatchId
                 PROVE  b \in log'.batches <=>
                          b \in arrived /\ \A i \in 1 .. Len(out') : out'[i] # b
      BY <1>5 DEF DataMatch
    <3>1. b \in log.batches <=> b \in arrived /\ \A i \in 1 .. Len(out) : out[i] # b
      BY <1>0 DEF Matches, DataMatch
    <3>2. (\A i \in 1 .. Len(out') : out'[i] # b)
            <=> b # h /\ \A i \in 1 .. Len(out) : out[i] # b
      BY <1>6
    <3> QED BY <1>4, <3>1, <3>2
  <2> QED BY <1>4, <2>1, <2>2, <2>3, <2>4 DEF Matches
<1>9. ~IsReady(log', log'.next)
  BY <1>0, <1>4 DEF IsReady
<1> QED
  BY <1>7, <1>8, <1>9, IInvNext

-----------------------------------------------------------------------------
(* The theorems *)

\* The log starts empty (AsyncLog's and BatchLog's constructors).
LEMMA InitHolds == Init => IInv
<1> SUFFICES ASSUME Init PROVE IInv
  OBVIOUS
<1> USE BatchAssumption, OrderAssumption
<1>1. EmptyLog \in BatchLog
  BY DEF EmptyLog, BatchLog
<1>2. /\ log = EmptyLog /\ arrived = {} /\ slotted = {} /\ out = << >>
      /\ acks = [b \in BatchId |-> 0]
  BY DEF Init
<1>3. HistoryOK(arrived, slotted, acks, out)
  BY <1>2 DEF HistoryOK
<1>4. Matches(log, arrived, slotted, acks, out)
  <2>1. SlotsMatch(log, slotted) /\ AcksMatch(log, slotted, acks)
    BY <1>2 DEF SlotsMatch, AcksMatch, EmptyLog
  <2>2. ReadyMatch(log, out) /\ DataMatch(log, arrived, out)
    BY <1>2 DEF ReadyMatch, DataMatch, EmptyLog
  <2>3. \A s \in Slot : ~ (s < log.next)
    BY <1>2 DEF EmptyLog, Slot
  <2> QED BY <1>1, <1>2, <2>1, <2>2, <2>3 DEF Matches
<1>5. ~IsReady(log, log.next)
  BY <1>2 DEF IsReady, EmptyLog
<1> QED
  BY <1>3, <1>4, <1>5, IInvParts

\* The invariant of the log holds whatever order the batches, slots and acks
\* come in (BatchLog::AddBatch, AddSlot, AckReplication, NextBatch).
THEOREM Invariance == Spec => []IInv
<1>1. IInv /\ [Next]_vars => IInv'
  <2> SUFFICES ASSUME IInv, [Next]_vars PROVE IInv'
    OBVIOUS
  <2>1. CASE Next
    BY <2>1, DataKeeps, AckKeeps, SlotKeeps, TakeKeeps DEF Next
  <2>2. CASE UNCHANGED vars
    BY <2>2 DEF vars, IInv, TypeOK, Complete, IsReady
  <2> QED BY <2>1, <2>2
<1> QED
  BY <1>1, InitHolds, PTL DEF Spec

\* NextBatch finds the data of every batch that is ready (batch_log.cpp:41-46).
THEOREM DataIsPresent == Spec => []DataPresent
<1>1. IInv => DataPresent
  <2> SUFFICES ASSUME IInv, NEW i \in 1 .. Len(log.ready)
               PROVE  log.ready[i] \in log.batches
    BY DEF DataPresent
  <2> USE BatchAssumption
  <2>0. /\ HistoryOK(arrived, slotted, acks, out)
        /\ Matches(log, arrived, slotted, acks, out)
    BY IInvParts
  <2>1. /\ log.next \in 0 .. MaxSlot /\ log.ready \in Seq(BatchId)
        /\ Len(log.ready) \in Nat /\ Len(out) \in Nat
        /\ ReadyMatch(log, out)
    BY <2>0 DEF Matches, HistoryOK, BatchLog
  <2> DEFINE n == Len(out) + i
  <2>2. n \in 1 .. MaxSlot /\ n - 1 \in Slot /\ n - 1 < log.next /\ n - 1 + 1 = n
    BY <2>1 DEF ReadyMatch, Slot
  <2>3. log.ready[i] = Order[n] /\ Order[n] \in BatchId
    BY <2>1 DEF ReadyMatch
  <2>4. Order[n] \in arrived
    <3>1. CompleteIn(n - 1, arrived, slotted, acks)
      BY <2>0, <2>2 DEF Matches
    <3> QED BY <2>2, <3>1 DEF CompleteIn
  <2>5. ASSUME NEW j \in 1 .. Len(out) PROVE out[j] # Order[n]
    <3>0. Len(out) \in Nat /\ Len(log.ready) \in Nat /\ n \in 1 .. MaxSlot
      BY <2>1, <2>2, Zenon
    <3>1. j \in 1 .. MaxSlot /\ j # n
      BY <3>0
    <3>2. out[j] = Order[j]
      BY <2>1 DEF ReadyMatch
    <3> HIDE DEF n
    <3> QED BY <2>2, <3>1, <3>2, OrderAssumption
  <2> QED BY <2>0, <2>3, <2>4, <2>5 DEF Matches, DataMatch
<1> QED
  BY <1>1, Invariance, PTL

\* What the log has let through is the longest complete prefix of the order
\* (BatchLog::UpdateReadyBatches): nothing early, reordered, repeated or
\* skipped, and nothing held back.
THEOREM LongestCompletePrefix == Spec => []LetsThroughExactly
<1>1. IInv => LetsThroughExactly
  <2> SUFFICES ASSUME IInv PROVE LetsThroughExactly
    OBVIOUS
  <2> USE BatchAssumption
  <2>0. /\ HistoryOK(arrived, slotted, acks, out)
        /\ Matches(log, arrived, slotted, acks, out)
        /\ ~IsReady(log, log.next)
    BY IInvParts
  <2>1. /\ log.next \in 0 .. MaxSlot
        /\ log.ready \in Seq(BatchId) /\ out \in Seq(BatchId)
        /\ Len(log.ready) \in Nat /\ Len(out) \in Nat
        /\ ReadyMatch(log, out)
    BY <2>0 DEF Matches, HistoryOK, BatchLog
  <2>2. out \o log.ready = SubSeq(Order, 1, log.next)
    <3> DEFINE a == out \o log.ready
               c == SubSeq(Order, 1, log.next)
    <3>1. a \in Seq(BatchId) /\ Len(a) = log.next
      BY <2>1 DEF ReadyMatch
    <3>2. c \in Seq(BatchId) /\ Len(c) = log.next
      BY <2>1, OrderAssumption
    <3>3. ASSUME NEW i \in 1 .. log.next PROVE a[i] = c[i]
      <4>1. c[i] = Order[i]
        BY <2>1, OrderAssumption
      <4>2. CASE i <= Len(out)
        BY <2>1, <4>1, <4>2 DEF ReadyMatch
      <4>3. CASE i > Len(out)
        <5>1. i - Len(out) \in 1 .. Len(log.ready)
          BY <2>1, <4>3 DEF ReadyMatch
        <5>2. a[i] = log.ready[i - Len(out)]
          BY <2>1, <4>3, <5>1
        <5>3. log.ready[i - Len(out)] = Order[Len(out) + (i - Len(out))]
          BY <2>1, <5>1 DEF ReadyMatch
        <5>4. Len(out) + (i - Len(out)) = i
          BY <2>1
        <5> QED BY <4>1, <5>2, <5>3, <5>4, Zenon
      <4>4. i <= Len(out) \/ i > Len(out)
        BY <2>1
      <4> QED BY <4>2, <4>3, <4>4, Zenon
    <3> HIDE DEF a, c
    <3>4. a = c
      BY <3>1, <3>2, <3>3, SeqEqual
    <3> QED BY <3>4 DEF a, c
  <2>3. ASSUME NEW s \in 0 .. log.next - 1 PROVE Complete(s)
    <3>1. s \in Slot /\ s < log.next
      BY <2>1 DEF Slot
    <3> QED BY <2>0, <3>1 DEF Matches, CompleteIn, Complete
  <2>4. ASSUME log.next < MaxSlot, Complete(log.next) PROVE FALSE
    <3> DEFINE n == log.next
               b == Order[n + 1]
    <3>1. n \in Slot /\ n \in slotted /\ b \in arrived /\ acks[b] = ReplicationFactor
      BY <2>1, <2>4 DEF Complete, Slot
    <3>2. b \in BatchId
      BY <2>1, <2>4, OrderAssumption
    <3>3. log.slots[n] = b
      BY <2>0, <2>1, <3>1 DEF Matches, SlotsMatch
    <3>4. log.replication[b] = 0
      <4>1. log.replication[b] = ReplicationFactor - acks[b]
        BY <2>0, <3>1, <3>2 DEF Matches, AcksMatch
      <4> QED BY <3>1, <4>1, OrderAssumption
    <3>5. ASSUME NEW j \in 1 .. Len(out) PROVE out[j] # b
      <4>1. j \in 1 .. MaxSlot /\ n + 1 \in 1 .. MaxSlot /\ j # n + 1
        BY <2>1, <2>4 DEF ReadyMatch
      <4>2. out[j] = Order[j]
        BY <2>1 DEF ReadyMatch
      <4> QED BY <4>1, <4>2, OrderAssumption
    <3>6. b \in log.batches
      <4> HIDE DEF b
      <4> QED BY <2>0, <3>1, <3>2, <3>5 DEF Matches, DataMatch
    <3> QED BY <2>0, <3>1, <3>3, <3>4, <3>6 DEF IsReady
  <2> QED BY <2>2, <2>3, <2>4 DEF LetsThroughExactly
<1> QED
  BY <1>1, Invariance, PTL
=============================================================================
