-------------------------- MODULE LogManagerProofs --------------------------
(***************************************************************************)
(* Theorems about LogManager, for any number of regions, replicas and      *)
(* partitions, any replication factor and any load: every machine emits,   *)
(* for each home region, a growing prefix of the order the region's Paxos  *)
(* decided (ImplementsSharedLog).                                          *)
(***************************************************************************)
EXTENDS LogManager, FiniteSetTheorems, WellFoundedInduction, TLAPS

-----------------------------------------------------------------------------
(* The inductive invariant *)

\* Log l of a home region, at a machine that has emitted `out' of it, agrees
\* with the batches O in their order.
Tracks(l, O, out) ==
  /\ l \in BL!BatchLog
  /\ l.next <= Len(O)
  /\ \A s \in BL!Slot : l.slots[s] # NoBatch => s < Len(O) /\ l.slots[s] = O[s + 1]
  /\ Len(out) + Len(l.ready) = l.next
  /\ \A i \in 1 .. Len(out) : out[i] = O[i]
  /\ \A i \in 1 .. Len(l.ready) : l.ready[i] = O[Len(out) + i]

\* Slot s of a region whose Paxos decided q takes this batch.
BatchOf(q, s) == <<q[s + 1], Earlier(q, s, q[s + 1])>>

\* A local log agrees with the generators q in their order.
LocalTracks(l, q) ==
  /\ l \in LL!LocalLog
  /\ l.next <= Len(q)
  /\ \A s \in LL!Position : l.slots[s] # NoGenerator => s < Len(q) /\ l.slots[s] = q[s + 1]
  /\ \A g \in Machine : l.heads[g] = Earlier(q, l.next, g)
  /\ \A i \in 1 .. Len(l.ready) :
       l.ready[i][1] < Len(q) /\ l.ready[i][2] = BatchOf(q, l.ready[i][1])

Message ==
  [kind : {"data"}, from : Machine, to : Machine, batch : Batch, whole : BOOLEAN]
    \cup [kind : {"local"}, from : Machine, to : Machine, slot : Nat, generator : Machine]
    \cup [kind : {"remote"}, from : Machine, to : Machine, slot : Nat, batch : Batch,
          need_ack : BOOLEAN]
    \cup [kind : {"ack"}, origin : Region, from : Machine, to : Machine, batch : Batch]

\* What a message says of the order.
Says(msg, ord) ==
  /\ msg.kind = "local" =>
       msg.slot < Len(ord[msg.to[1]]) /\ msg.generator = ord[msg.to[1]][msg.slot + 1]
  /\ msg.kind = "remote" =>
       /\ msg.slot < Len(ord[Home(msg.batch)])
       /\ msg.batch = BatchOf(ord[Home(msg.batch)], msg.slot)

OrderOK ==
  /\ order \in [Region -> Seq(Machine)]
  /\ sent \in [Machine -> Nat]
  /\ \A g \in Machine : sent[g] <= Load[g]
  /\ \A h \in Region : \A s \in 0 .. Len(order[h]) - 1 :
       BatchOf(order[h], s) \in Batch /\ Home(BatchOf(order[h], s)) = h

NetOK == \A msg \in net : msg \in Message /\ Says(msg, order)

LocalOK ==
  /\ local_log = [m \in Machine |-> local_log[m]]
  /\ \A m \in Machine : LocalTracks(local_log[m], order[m[1]]) /\ local_log[m].ready = << >>

LogsOK ==
  /\ single_home_logs = [m \in Machine |-> [h \in Region |-> single_home_logs[m][h]]]
  /\ emitted = [m \in Machine |-> [h \in Region |-> emitted[m][h]]]
  /\ \A m \in Machine, h \in Region :
       /\ emitted[m][h] \in Seq(Batch)
       /\ single_home_logs[m][h].ready = << >>
       /\ Tracks(single_home_logs[m][h], Ordered(h), emitted[m][h])

IInv ==
  /\ ConstantsOK
  /\ OrderOK
  /\ NetOK
  /\ LocalOK
  /\ LogsOK

-----------------------------------------------------------------------------
(* Sequences *)

\* The elements of two sequences put together.
LEMMA SeqConcat ==
  ASSUME NEW S, NEW s \in Seq(S), NEW t \in Seq(S)
  PROVE  /\ s \o t \in Seq(S) /\ Len(s \o t) = Len(s) + Len(t)
         /\ \A i \in 1 .. Len(s) : (s \o t)[i] = s[i]
         /\ \A i \in 1 .. Len(t) : (s \o t)[Len(s) + i] = t[i]
OBVIOUS

\* A sequence is no longer than the same with more at its end, and as long only when
\* nothing was put there.
LEMMA SeqLonger ==
  ASSUME NEW S, NEW s \in Seq(S), NEW t \in Seq(S), NEW n, n = Len(s \o t)
  PROVE  /\ Len(s) \in Nat /\ Len(s) <= n /\ (Len(s) = n => s \o t = s)
         /\ t = << >> => s \o t = s
OBVIOUS

\* A function of two arguments given by its values.
Table(f, M, R) == f = [x \in M |-> [k \in R |-> f[x][k]]]

\* Function e is f with row m replaced by g.
RowPut(e, f, M, R, m, g) ==
  /\ Table(e, M, R)
  /\ \A k \in R : e[m][k] = g[k]
  /\ \A x \in M \ {m}, k \in R : e[x][k] = f[x][k]

LEMMA RowReplaced ==
  ASSUME NEW M, NEW R, NEW f, Table(f, M, R), NEW m \in M, NEW g, g = [k \in R |-> g[k]],
         NEW e, e = [f EXCEPT ![m] = g]
  PROVE  RowPut(e, f, M, R, m, g)
<1>1. DOMAIN f = M /\ \A x \in M : f[x] = [k \in R |-> f[x][k]]
  BY DEF Table
<1>2. e = [x \in M |-> IF x = m THEN g ELSE f[x]]
  BY <1>1, Zenon
<1>3. \A x \in M : e[x] = [k \in R |-> e[x][k]]
  BY <1>1, <1>2
<1>4. Table(e, M, R)
  BY <1>2, <1>3, Zenon DEF Table
<1> QED
  BY <1>2, <1>4 DEF RowPut

-----------------------------------------------------------------------------
(* The loops *)

\* A set of natural numbers up to n that does not hold n has a first number
\* that it does not hold.
LEMMA FirstMissing ==
  ASSUME NEW n \in Nat, NEW k \in 0 .. n, NEW R, n \notin R
  PROVE  \E g \in k .. n : g \notin R /\ \A i \in k .. g - 1 : i \in R
<1> DEFINE S == {i \in k .. n : i \notin R}
<1>1. n \in S /\ S \subseteq Nat
  OBVIOUS
<1>2. PICK g \in S : \A i \in S : <<i, g>> \notin OpToRel(<, Nat)
  <2> HIDE DEF S
  <2> QED BY <1>1, NatLessThanWellFounded, WFMin, Zenon
<1>3. \A i \in S : ~(i < g)
  BY <1>1, <1>2, Zenon DEF OpToRel
<1> QED
  BY <1>3

\* The loop of BatchLog::UpdateReadyBatches stops.
LEMMA LogGap ==
  ASSUME MaxSlot \in Nat, NEW l, l.next \in 0 .. MaxSlot
  PROVE  /\ BL!FirstGap(l) \in l.next .. MaxSlot
         /\ \A i \in l.next .. BL!FirstGap(l) - 1 : BL!IsReady(l, i)
<1> DEFINE R == {i \in BL!Slot : BL!IsReady(l, i)}
<1>1. \A n \in l.next .. MaxSlot : n \in R <=> BL!IsReady(l, n)
  BY DEF BL!IsReady
<1>2. MaxSlot \notin R
  BY DEF BL!Slot
<1>3. \E n \in l.next .. MaxSlot : n \notin R /\ \A i \in l.next .. n - 1 : i \in R
  <2> HIDE DEF R
  <2> QED BY <1>2, FirstMissing, Zenon
<1>4. \E n \in l.next .. MaxSlot : ~BL!IsReady(l, n) /\ \A i \in l.next .. n - 1 : BL!IsReady(l, i)
  BY <1>1, <1>3
<1> QED
  BY <1>4 DEF BL!FirstGap

\* The loop of LocalLog::UpdateReadyBatches stops.
LEMMA LocalGap ==
  ASSUME MaxSlot \in Nat, NEW l, l.next \in 0 .. MaxSlot
  PROVE  /\ LL!FirstGap(l) \in l.next .. MaxSlot
         /\ \A i \in l.next .. LL!FirstGap(l) - 1 : LL!CanTake(l, i)
<1> DEFINE R == {i \in LL!Position : LL!CanTake(l, i)}
<1>1. \A n \in l.next .. MaxSlot : n \in R <=> LL!CanTake(l, n)
  BY DEF LL!CanTake
<1>2. MaxSlot \notin R
  BY DEF LL!Position
<1>3. \E n \in l.next .. MaxSlot : n \notin R /\ \A i \in l.next .. n - 1 : i \in R
  <2> HIDE DEF R
  <2> QED BY <1>2, FirstMissing, Zenon
<1>4. \E n \in l.next .. MaxSlot : ~LL!CanTake(l, n) /\ \A i \in l.next .. n - 1 : LL!CanTake(l, i)
  BY <1>1, <1>3
<1> QED
  BY <1>4 DEF LL!FirstGap

-----------------------------------------------------------------------------
(* The logs of the home regions *)

\* UpdateReadyBatches lets through what the order says comes next.
LEMMA UpdateTracks ==
  ASSUME MaxSlot \in Nat, NoBatch \notin Batch, NEW l, NEW O \in Seq(Batch), NEW out \in Seq(Batch),
         Tracks(l, O, out)
  PROVE  Tracks(BL!UpdateReadyBatches(l), O, out)
<1> DEFINE gap == BL!FirstGap(l)
           u == BL!UpdateReadyBatches(l)
           more == [i \in 1 .. gap - l.next |-> l.slots[l.next + i - 1]]
<1>1. /\ l \in BL!BatchLog /\ l.next \in 0 .. MaxSlot /\ l.next <= Len(O)
      /\ l.ready \in Seq(Batch) /\ Len(out) + Len(l.ready) = l.next
  BY DEF Tracks, BL!BatchLog
<1>2. gap \in l.next .. MaxSlot /\ \A i \in l.next .. gap - 1 : BL!IsReady(l, i)
  BY <1>1, LogGap
<1> HIDE DEF gap
<1>a. l.next \in Nat /\ gap \in Nat /\ l.next <= gap /\ gap <= MaxSlot
  BY <1>1, <1>2
<1>3. \A i \in l.next .. gap - 1 : i \in BL!Slot /\ l.slots[i] \in Batch /\ i < Len(O) /\ l.slots[i] = O[i + 1]
  <2> SUFFICES ASSUME NEW i \in l.next .. gap - 1
               PROVE  i \in BL!Slot /\ l.slots[i] \in Batch /\ i < Len(O) /\ l.slots[i] = O[i + 1]
    OBVIOUS
  <2>1. i \in BL!Slot /\ l.slots[i] \in l.batches /\ l.batches \subseteq Batch
    BY <1>1, <1>2 DEF BL!IsReady, BL!BatchLog
  <2> QED BY <2>1 DEF Tracks
<1>4. gap <= Len(O) /\ gap \in 0 .. MaxSlot /\ gap - l.next \in Nat
  <2>1. CASE gap = l.next
    BY <1>1, <1>2, <2>1
  <2>2. CASE gap > l.next
    <3>1. gap - 1 < Len(O)
      BY <1>1, <1>2, <1>3, <2>2
    <3> QED BY <1>1, <1>2, <3>1, <2>2, SMTT(30)
  <2> QED BY <1>1, <1>2, <2>1, <2>2
<1>5. /\ more \in Seq(Batch) /\ Len(more) = gap - l.next
      /\ \A i \in 1 .. gap - l.next : more[i] = O[l.next + i]
  <2>1. \A i \in 1 .. gap - l.next : l.slots[l.next + i - 1] \in Batch /\ l.slots[l.next + i - 1] = O[l.next + i]
    <3> SUFFICES ASSUME NEW i \in 1 .. gap - l.next
                 PROVE  l.slots[l.next + i - 1] \in Batch /\ l.slots[l.next + i - 1] = O[l.next + i]
      OBVIOUS
    <3>1. l.next + i - 1 \in l.next .. gap - 1 /\ (l.next + i - 1) + 1 = l.next + i
      BY <1>a, SMTT(30)
    <3> QED BY <1>3, <3>1
  <2>2. more \in [1 .. gap - l.next -> Batch]
    BY <2>1
  <2>3. \A i \in 1 .. gap - l.next : more[i] = O[l.next + i]
    BY <2>1
  <2> HIDE DEF more
  <2> QED BY <1>4, <2>2, <2>3, SMTT(30)
<1>6. /\ u.next = gap /\ u.ready = l.ready \o more
      /\ u.slots = [s \in BL!Slot |-> IF s < gap THEN NoBatch ELSE l.slots[s]]
      /\ u = [l EXCEPT !.next = u.next, !.slots = u.slots, !.ready = u.ready]
  BY <1>1, Zenon DEF BL!UpdateReadyBatches, BL!BatchLog, gap
<1> HIDE DEF u, more
<1>b. /\ u.ready \in Seq(Batch) /\ Len(u.ready) = Len(l.ready) + Len(more)
      /\ \A i \in 1 .. Len(l.ready) : u.ready[i] = l.ready[i]
      /\ \A i \in 1 .. Len(more) : u.ready[Len(l.ready) + i] = more[i]
  <2>1. l.ready \in Seq(Batch) /\ more \in Seq(Batch) /\ u.ready = l.ready \o more
    BY <1>1, <1>5, <1>6, Zenon
  <2> QED BY <2>1, SeqConcat
<1>7. u \in BL!BatchLog
  <2>1. u.ready \in Seq(Batch)
    BY <1>b
  <2>2. l.slots \in [BL!Slot -> Batch \cup {NoBatch}]
    BY <1>1 DEF BL!BatchLog
  <2>3. u.slots \in [BL!Slot -> Batch \cup {NoBatch}]
    BY <1>6, <2>2, Zenon
  <2> QED BY <1>1, <1>4, <1>6, <2>1, <2>3, Zenon DEF BL!BatchLog
<1>8. \A s \in BL!Slot : u.slots[s] # NoBatch => s < Len(O) /\ u.slots[s] = O[s + 1]
  BY <1>6, Zenon DEF Tracks
<1>9. Len(u.ready) = Len(l.ready) + (gap - l.next)
  BY <1>5, <1>b
<1>c. Len(l.ready) \in Nat /\ Len(out) \in Nat /\ Len(u.ready) \in Nat /\ Len(out) + Len(l.ready) = l.next
  BY <1>1, <1>b, SMTT(30)
<1>10. \A i \in 1 .. Len(u.ready) : u.ready[i] = O[Len(out) + i]
  <2> SUFFICES ASSUME NEW i \in 1 .. Len(u.ready)
               PROVE  u.ready[i] = O[Len(out) + i]
    OBVIOUS
  <2>1. CASE i <= Len(l.ready)
    <3>1. i \in 1 .. Len(l.ready)
      BY <1>c, <2>1
    <3> QED BY <1>b, <3>1 DEF Tracks
  <2>2. CASE i > Len(l.ready)
    <3> DEFINE j == i - Len(l.ready)
    <3>1. j \in 1 .. gap - l.next /\ Len(l.ready) + j = i /\ l.next + j = Len(out) + i
      <4> DEFINE a == Len(l.ready)
                 b == Len(out)
                 c == Len(u.ready)
                 n == l.next
      <4>1. a \in Nat /\ b \in Nat /\ n \in Nat /\ gap \in Nat /\ b + a = n /\ c = a + (gap - n)
              /\ i \in 1 .. c /\ i > a
        BY <1>a, <1>c, <1>9, <2>2
      <4> HIDE DEF a, b, c, n
      <4>2. i - a \in 1 .. gap - n /\ a + (i - a) = i /\ n + (i - a) = b + i
        BY <4>1
      <4> QED BY <4>2 DEF a, b, n
    <3> HIDE DEF j
    <3> QED BY <1>5, <1>b, <3>1, SMTT(30)
  <2> QED BY <1>c, <2>1, <2>2
<1>11. \A i \in 1 .. Len(out) : out[i] = O[i]
  BY DEF Tracks
<1>12. Len(out) + Len(u.ready) = u.next /\ u.next <= Len(O)
  <2> DEFINE a == Len(l.ready)
             b == Len(out)
             c == Len(u.ready)
             n == l.next
  <2>1. a \in Nat /\ b \in Nat /\ n \in Nat /\ gap \in Nat /\ b + a = n /\ c = a + (gap - n)
    BY <1>a, <1>c, <1>9
  <2> HIDE DEF a, b, c, n
  <2>2. b + c = gap
    BY <2>1
  <2> QED BY <1>4, <1>6, <2>2, Zenon DEF b, c
<1>13. Tracks(u, O, out)
  BY <1>7, <1>8, <1>10, <1>11, <1>12 DEF Tracks
<1> QED
  BY <1>13 DEF u

\* A log whose slots still agree with the order, and that has let nothing more
\* through.
LEMMA ChangedTracks ==
  ASSUME NEW l, NEW O, NEW out, Tracks(l, O, out), NEW k \in BL!BatchLog,
         k.next = l.next, k.ready = l.ready,
         \A s \in BL!Slot : k.slots[s] # NoBatch => s < Len(O) /\ k.slots[s] = O[s + 1]
  PROVE  Tracks(k, O, out)
BY DEF Tracks

\* AddBatch.
LEMMA AddBatchTracks ==
  ASSUME MaxSlot \in Nat, NoBatch \notin Batch, NEW l, NEW O \in Seq(Batch), NEW out \in Seq(Batch),
         Tracks(l, O, out), NEW b \in Batch
  PROVE  Tracks(BL!AddBatch(l, b), O, out)
<1> DEFINE k == [l EXCEPT !.batches = @ \cup {b}]
<1>1. k \in BL!BatchLog /\ k.next = l.next /\ k.ready = l.ready /\ k.slots = l.slots
  BY Zenon DEF Tracks, BL!BatchLog
<1>2. BL!AddBatch(l, b) = BL!UpdateReadyBatches(k)
  BY DEF BL!AddBatch
<1> HIDE DEF k
<1>3. Tracks(k, O, out)
  BY <1>1 DEF Tracks
<1> QED
  BY <1>2, <1>3, UpdateTracks

\* AckReplication.
LEMMA AckTracks ==
  ASSUME MaxSlot \in Nat, NoBatch \notin Batch, NEW l, NEW O \in Seq(Batch), NEW out \in Seq(Batch),
         Tracks(l, O, out), NEW b \in Batch
  PROVE  Tracks(BL!AckReplication(l, b), O, out)
<1> DEFINE k == [l EXCEPT !.replication[b] = @ - 1]
           rep == [l.replication EXCEPT ![b] = @ - 1]
<1>1. k \in BL!BatchLog /\ k.next = l.next /\ k.ready = l.ready /\ k.slots = l.slots
  <2>1. l \in BL!BatchLog /\ l.replication \in [Batch -> Int]
    BY DEF Tracks, BL!BatchLog
  <2>2. rep \in [Batch -> Int]
    BY <2>1
  <2>3. k = [l EXCEPT !.replication = rep]
    BY <2>1 DEF BL!BatchLog
  <2> HIDE DEF rep, k
  <2> QED BY <2>1, <2>2, <2>3, Zenon DEF BL!BatchLog
<1>2. BL!AckReplication(l, b) = BL!UpdateReadyBatches(k)
  BY DEF BL!AckReplication
<1> HIDE DEF k
<1>3. Tracks(k, O, out)
  BY <1>1 DEF Tracks
<1> QED
  BY <1>2, <1>3, UpdateTracks

\* AddSlot, for a slot the order gives to the batch.
LEMMA AddSlotTracks ==
  ASSUME MaxSlot \in Nat, NoBatch \notin Batch, NEW l, NEW O \in Seq(Batch), NEW out \in Seq(Batch),
         Tracks(l, O, out), NEW s \in Nat, NEW b \in Batch, s < Len(O), b = O[s + 1], NEW f \in Int
  PROVE  Tracks(BL!AddSlot(l, s, b, f), O, out)
<1> DEFINE k == [l EXCEPT !.slots = BL!Insert(l, s, b), !.replication[b] = @ + f]
<1>1. l \in BL!BatchLog /\ l.slots \in [BL!Slot -> Batch \cup {NoBatch}]
  BY Zenon DEF Tracks, BL!BatchLog
<1>2. /\ BL!Insert(l, s, b) \in [BL!Slot -> Batch \cup {NoBatch}]
      /\ \A t \in BL!Slot : BL!Insert(l, s, b)[t] # NoBatch => t < Len(O) /\ BL!Insert(l, s, b)[t] = O[t + 1]
  <2>1. \A t \in BL!Slot : l.slots[t] # NoBatch => t < Len(O) /\ l.slots[t] = O[t + 1]
    BY DEF Tracks
  <2>2. CASE s < l.next
    BY <1>1, <2>1, <2>2 DEF BL!Insert
  <2>3. CASE ~(s < l.next)
    BY <1>1, <2>1, <2>3, Zenon DEF BL!Insert
  <2> QED BY <2>2, <2>3
<1>3. /\ k \in BL!BatchLog /\ k.next = l.next /\ k.ready = l.ready
      /\ k.slots = BL!Insert(l, s, b)
  <2> DEFINE slt == BL!Insert(l, s, b)
             rep == [l.replication EXCEPT ![b] = @ + f]
  <2>1. l.replication \in [Batch -> Int]
    BY <1>1 DEF BL!BatchLog
  <2>2. rep \in [Batch -> Int]
    BY <2>1, SMTT(30)
  <2> HIDE DEF slt
  <2>3. k = [l EXCEPT !.slots = slt, !.replication = rep]
    BY <1>1 DEF BL!BatchLog, slt
  <2>4. slt \in [BL!Slot -> Batch \cup {NoBatch}]
    BY <1>2 DEF slt
  <2> HIDE DEF rep, k
  <2>5. /\ k \in BL!BatchLog /\ k.next = l.next /\ k.ready = l.ready /\ k.slots = slt
    BY <1>1, <2>2, <2>3, <2>4, Zenon DEF BL!BatchLog
  <2> QED BY <2>5 DEF slt
<1>4. BL!AddSlot(l, s, b, f) = BL!UpdateReadyBatches(k)
  BY DEF BL!AddSlot
<1> HIDE DEF k
<1>5. Tracks(k, O, out)
  BY <1>2, <1>3, ChangedTracks
<1> QED
  BY <1>4, <1>5, UpdateTracks

\* AddSlot for every entry the local log has ready.
LEMMA AddSlotsTracks ==
  ASSUME MaxSlot \in Nat, NoBatch \notin Batch, NEW l, NEW O \in Seq(Batch), NEW out \in Seq(Batch),
         Tracks(l, O, out), NEW entries, NEW f \in Int,
         \A i \in DOMAIN entries : entries[i][1] < Len(O) /\ entries[i][2] = O[entries[i][1] + 1]
  PROVE  Tracks(BL!AddSlots(l, entries, f), O, out)
<1> DEFINE at(s) == CHOOSE i \in DOMAIN entries : entries[i][1] = s
           slt == [s \in BL!Slot |-> IF s >= l.next /\ \E i \in DOMAIN entries : entries[i][1] = s
                                       THEN entries[at(s)][2] ELSE l.slots[s]]
           rep == [b \in Batch |-> IF \E i \in DOMAIN entries : entries[i][2] = b
                                     THEN l.replication[b] + f ELSE l.replication[b]]
           k == [l EXCEPT !.slots = slt, !.replication = rep]
<1> SUFFICES ASSUME entries # << >> PROVE Tracks(BL!AddSlots(l, entries, f), O, out)
  BY DEF BL!AddSlots
<1>a. entries # << >>
  OBVIOUS
<1>1. /\ l \in BL!BatchLog /\ l.slots \in [BL!Slot -> Batch \cup {NoBatch}]
      /\ l.replication \in [Batch -> Int]
  BY DEF Tracks, BL!BatchLog
<1>2. \A s \in BL!Slot : slt[s] # NoBatch => s < Len(O) /\ slt[s] = O[s + 1]
  <2> SUFFICES ASSUME NEW s \in BL!Slot, slt[s] # NoBatch PROVE s < Len(O) /\ slt[s] = O[s + 1]
    OBVIOUS
  <2>1. CASE s >= l.next /\ \E i \in DOMAIN entries : entries[i][1] = s
    <3>1. at(s) \in DOMAIN entries /\ entries[at(s)][1] = s
      BY <2>1
    <3>2. slt[s] = entries[at(s)][2]
      BY <2>1
    <3> HIDE DEF at, slt
    <3> QED BY <3>1, <3>2
  <2>2. CASE ~(s >= l.next /\ \E i \in DOMAIN entries : entries[i][1] = s)
    <3>1. slt[s] = l.slots[s]
      BY <2>2
    <3> HIDE DEF slt
    <3> QED BY <3>1 DEF Tracks
  <2> QED BY <2>1, <2>2
<1>3. slt \in [BL!Slot -> Batch \cup {NoBatch}]
  <2>1. \A s \in BL!Slot : s < Len(O) => O[s + 1] \in Batch
    BY DEF BL!Slot
  <2>2. \A s \in BL!Slot : slt[s] \in Batch \cup {NoBatch}
    <3> HIDE DEF slt
    <3> QED BY <1>2, <2>1
  <2>3. slt = [s \in BL!Slot |-> slt[s]]
    OBVIOUS
  <2> HIDE DEF slt
  <2> QED BY <2>2, <2>3
<1>4. rep \in [Batch -> Int]
  BY <1>1
<1>5. BL!AddSlots(l, entries, f) = BL!UpdateReadyBatches(k)
  BY <1>a DEF BL!AddSlots
<1> HIDE DEF slt, rep
<1>6. k \in BL!BatchLog /\ k.next = l.next /\ k.ready = l.ready /\ k.slots = slt
  BY <1>1, <1>3, <1>4, Zenon DEF BL!BatchLog
<1> HIDE DEF k
<1>7. Tracks(k, O, out)
  BY <1>2, <1>6, ChangedTracks
<1> QED
  BY <1>5, <1>7, UpdateTracks

\* NextBatch until nothing is ready: all of it has been emitted.
LEMMA DrainTracks ==
  ASSUME NEW l, NEW O \in Seq(Batch), NEW out \in Seq(Batch), Tracks(l, O, out),
         NEW d, d = BL!Drain(l), NEW o, o = out \o l.ready
  PROVE  Tracks(d, O, o) /\ d.ready = << >> /\ o \in Seq(Batch)
<1>1. l \in BL!BatchLog /\ l.ready \in Seq(Batch) /\ l.next \in Nat /\ l.next <= Len(O)
  BY DEF Tracks, BL!BatchLog, BL!Slot
<1>2. d \in BL!BatchLog /\ d.ready = << >> /\ d.next = l.next /\ d.slots = l.slots
  <2> DEFINE gone == {l.ready[i] : i \in DOMAIN l.ready}
             none == << >>
  <2>1. none \in Seq(Batch)
    OBVIOUS
  <2> HIDE DEF gone, none
  <2>2. d = [l EXCEPT !.ready = none, !.batches = @ \ gone]
    BY DEF BL!Drain, gone, none
  <2>3. d \in BL!BatchLog /\ d.ready = none /\ d.next = l.next /\ d.slots = l.slots
    BY <1>1, <2>1, <2>2, Zenon DEF BL!BatchLog
  <2> QED BY <2>3 DEF none
<1>3. /\ o \in Seq(Batch) /\ Len(o) = Len(out) + Len(l.ready)
      /\ \A i \in 1 .. Len(out) : o[i] = out[i]
      /\ \A i \in 1 .. Len(l.ready) : o[Len(out) + i] = l.ready[i]
  BY <1>1, SeqConcat
<1>4. /\ Len(out) \in Nat /\ Len(l.ready) \in Nat /\ Len(out) + Len(l.ready) = l.next
      /\ \A i \in 1 .. Len(out) : out[i] = O[i]
      /\ \A i \in 1 .. Len(l.ready) : l.ready[i] = O[Len(out) + i]
  BY <1>1 DEF Tracks
<1>5. \A i \in 1 .. l.next : o[i] = O[i]
  <2> SUFFICES ASSUME NEW i \in 1 .. l.next PROVE o[i] = O[i]
    BY Zenon
  <2>1. CASE i <= Len(out)
    BY <1>3, <1>4, <2>1
  <2>2. CASE i > Len(out)
    <3> DEFINE j == i - Len(out)
    <3>1. j \in 1 .. Len(l.ready) /\ Len(out) + j = i
      BY <1>4, <2>2
    <3> HIDE DEF j
    <3>2. o[Len(out) + j] = l.ready[j] /\ l.ready[j] = O[Len(out) + j]
      BY <1>3, <1>4, <3>1
    <3> QED BY <3>1, <3>2, SMTT(30)
  <2> QED BY <1>4, <2>1, <2>2
<1>6. Tracks(d, O, o)
  <2>1. Len(d.ready) = 0
    BY <1>2
  <2>2. \A s \in BL!Slot : d.slots[s] # NoBatch => s < Len(O) /\ d.slots[s] = O[s + 1]
    BY <1>2 DEF Tracks
  <2>3. Len(o) = l.next
    BY <1>3, <1>4
  <2> QED BY <1>1, <1>2, <1>5, <2>1, <2>2, <2>3 DEF Tracks
<1> QED
  BY <1>2, <1>3, <1>6

-----------------------------------------------------------------------------
(* The local logs *)

\* Counting the slots that name a generator, in two parts.
LEMMA EarlierParts ==
  ASSUME NEW q, NEW g, NEW n \in Nat, NEW k \in Nat, n <= k
  PROVE  /\ Earlier(q, n, g) \in 0 .. n
         /\ Earlier(q, k, g) = Earlier(q, n, g) + Cardinality({t \in n .. k - 1 : q[t + 1] = g})
<1> DEFINE A == {t \in 0 .. n - 1 : q[t + 1] = g}
           B == {t \in n .. k - 1 : q[t + 1] = g}
           C == {t \in 0 .. k - 1 : q[t + 1] = g}
<1>1. IsFiniteSet(0 .. n - 1) /\ Cardinality(0 .. n - 1) = n /\ IsFiniteSet(n .. k - 1)
  <2>1. IsFiniteSet(0 .. n - 1) /\ IsFiniteSet(n .. k - 1)
    BY FS_Interval
  <2>2. Cardinality(0 .. n - 1) = n
    BY FS_Interval
  <2> QED BY <2>1, <2>2
<1>2. A \subseteq 0 .. n - 1 /\ B \subseteq n .. k - 1 /\ C = A \cup B /\ A \cap B = {}
  OBVIOUS
<1> HIDE DEF A, B, C
<1>3. IsFiniteSet(A) /\ Cardinality(A) <= n
  BY <1>1, <1>2, FS_Subset, Zenon
<1>4. IsFiniteSet(B)
  BY <1>1, <1>2, FS_Subset, Zenon
<1>5. Cardinality(A) \in Nat /\ Cardinality(B) \in Nat
  BY <1>3, <1>4, FS_CardinalityType
<1>6. Cardinality(A \cap B) = 0
  BY <1>2, FS_EmptySet, Zenon
<1>7. Cardinality(C) = Cardinality(A) + Cardinality(B) - Cardinality(A \cap B)
  BY <1>2, <1>3, <1>4, FS_Union
<1>8. Cardinality(C) = Cardinality(A) + Cardinality(B) /\ Cardinality(A) \in 0 .. n
  BY <1>3, <1>5, <1>6, <1>7
<1> QED
  BY <1>8 DEF Earlier, A, B, C

\* UpdateReadyBatches of a local log takes the batches the order says.
LEMMA LocalUpdateTracks ==
  ASSUME MaxSlot \in Nat, NoGenerator \notin Machine, NEW l, NEW q \in Seq(Machine), LocalTracks(l, q)
  PROVE  LocalTracks(LL!UpdateReadyBatches(l), q)
<1> DEFINE gap == LL!FirstGap(l)
           u == LL!UpdateReadyBatches(l)
           n == l.next
           entry(s) == <<s, LL!Taken(l, s)>>
           more == [i \in 1 .. gap - n |-> <<n + i - 1, LL!Taken(l, n + i - 1)>>]
           E == LL!Position \X (Machine \X LL!Position)
<1>1. /\ l \in LL!LocalLog /\ n \in 0 .. MaxSlot /\ n <= Len(q) /\ l.ready \in Seq(E)
      /\ \A g \in Machine : l.heads[g] = Earlier(q, n, g) /\ l.queues[g] \subseteq LL!Position
      /\ \A s \in LL!Position : l.slots[s] # NoGenerator => s < Len(q) /\ l.slots[s] = q[s + 1]
      /\ Len(q) \in Nat
  BY DEF LocalTracks, LL!LocalLog
<1>2. gap \in n .. MaxSlot /\ \A i \in n .. gap - 1 : LL!CanTake(l, i)
  BY <1>1, LocalGap
<1> HIDE DEF gap, n
<1>3. n \in Nat /\ gap \in Nat /\ n <= gap /\ gap <= MaxSlot
  BY <1>1, <1>2
<1>4. \A s \in n .. gap - 1 : /\ s \in LL!Position /\ s < Len(q) /\ l.slots[s] = q[s + 1]
                              /\ q[s + 1] \in Machine /\ LL!Taken(l, s)[2] \in LL!Position
  <2> SUFFICES ASSUME NEW s \in n .. gap - 1
               PROVE  /\ s \in LL!Position /\ s < Len(q) /\ l.slots[s] = q[s + 1]
                      /\ q[s + 1] \in Machine /\ LL!Taken(l, s)[2] \in LL!Position
    OBVIOUS
  <2>1. s \in LL!Position /\ l.slots[s] \in Machine /\ LL!Taken(l, s)[2] \in l.queues[l.slots[s]]
    BY <1>2 DEF LL!CanTake
  <2>2. s < Len(q) /\ l.slots[s] = q[s + 1]
    BY <1>1, <2>1
  <2> QED BY <1>1, <2>1, <2>2
<1>5. gap <= Len(q)
  <2>1. CASE gap = n
    BY <1>1, <2>1
  <2>2. CASE gap # n
    <3>1. gap - 1 \in n .. gap - 1
      BY <1>3, <2>2
    <3>2. gap - 1 < Len(q)
      BY <1>4, <3>1
    <3> QED BY <1>1, <1>3, <3>2
  <2> QED BY <2>1, <2>2
<1>6. \A s \in n .. gap : \A g \in Machine : l.heads[g] + LL!Named(l, s, g) = Earlier(q, s, g)
  <2> SUFFICES ASSUME NEW s \in n .. gap, NEW g \in Machine
               PROVE  l.heads[g] + LL!Named(l, s, g) = Earlier(q, s, g)
    OBVIOUS
  <2>1. {t \in l.next .. s - 1 : l.slots[t] = g} = {t \in n .. s - 1 : q[t + 1] = g}
    <3>1. \A t \in n .. s - 1 : l.slots[t] = q[t + 1]
      BY <1>3, <1>4
    <3> QED BY <3>1 DEF n
  <2>2. LL!Named(l, s, g) = Cardinality({t \in n .. s - 1 : q[t + 1] = g})
    BY <2>1, Zenon DEF LL!Named, LL!Cardinality, Cardinality
  <2>3. s \in Nat /\ n <= s
    BY <1>3
  <2> HIDE DEF n
  <2>4. Earlier(q, s, g) = Earlier(q, n, g) + Cardinality({t \in n .. s - 1 : q[t + 1] = g})
    BY <1>3, <2>3, EarlierParts
  <2> QED BY <1>1, <2>2, <2>4
<1>7. \A s \in n .. gap - 1 : LL!Taken(l, s) = BatchOf(q, s)
  <2> SUFFICES ASSUME NEW s \in n .. gap - 1 PROVE LL!Taken(l, s) = BatchOf(q, s)
    OBVIOUS
  <2>1. s \in n .. gap
    BY <1>3
  <2>2. LL!Taken(l, s) = <<q[s + 1], l.heads[q[s + 1]] + LL!Named(l, s, q[s + 1])>>
    BY <1>4 DEF LL!Taken
  <2>3. l.heads[q[s + 1]] + LL!Named(l, s, q[s + 1]) = Earlier(q, s, q[s + 1])
    BY <1>4, <1>6, <2>1
  <2> QED BY <2>2, <2>3 DEF BatchOf

<1>8. more \in Seq(E) /\ \A i \in 1 .. Len(more) : more[i][1] < Len(q) /\ more[i][2] = BatchOf(q, more[i][1])
  <2>1. \A s \in n .. gap - 1 : entry(s) \in E /\ entry(s)[1] < Len(q) /\ entry(s)[2] = BatchOf(q, entry(s)[1])
    <3> SUFFICES ASSUME NEW s \in n .. gap - 1
                 PROVE  entry(s) \in E /\ entry(s)[1] < Len(q) /\ entry(s)[2] = BatchOf(q, entry(s)[1])
      OBVIOUS
    <3>1. LL!Taken(l, s) \in Machine \X LL!Position
      BY <1>4 DEF LL!Taken
    <3> QED BY <1>4, <1>7, <3>1
  <2>2. \A i \in 1 .. gap - n : n + i - 1 \in n .. gap - 1
    BY <1>3
  <2>3. \A i \in 1 .. gap - n : more[i] = entry(n + i - 1)
    OBVIOUS
  <2>4. more = [i \in 1 .. gap - n |-> more[i]]
    OBVIOUS
  <2> HIDE DEF more, entry, E
  <2>5. \A i \in 1 .. gap - n : more[i] \in E /\ more[i][1] < Len(q) /\ more[i][2] = BatchOf(q, more[i][1])
    BY <2>1, <2>2, <2>3
  <2>6. more \in [1 .. gap - n -> E] /\ gap - n \in Nat
    BY <1>3, <2>4, <2>5
  <2>7. more \in Seq(E) /\ Len(more) = gap - n
    BY <2>6
  <2> QED BY <2>5, <2>7
<1>9. /\ u.next = gap /\ u.ready = l.ready \o more /\ u.slots = l.slots /\ u.queues = l.queues
      /\ u.heads = [g \in Machine |-> l.heads[g] + LL!Named(l, gap, g)]
      /\ u = [l EXCEPT !.next = u.next, !.heads = u.heads, !.ready = u.ready]
  BY <1>1, Zenon DEF LL!UpdateReadyBatches, LL!LocalLog, gap, n
<1> HIDE DEF u, more
<1>10. \A g \in Machine : u.heads[g] = Earlier(q, u.next, g) /\ u.heads[g] \in 0 .. MaxSlot
  <2> SUFFICES ASSUME NEW g \in Machine
               PROVE  u.heads[g] = Earlier(q, gap, g) /\ u.heads[g] \in 0 .. MaxSlot
    BY <1>9, Zenon
  <2>1. u.heads[g] = Earlier(q, gap, g)
    <3>1. gap \in n .. gap
      BY <1>3
    <3>2. u.heads[g] = l.heads[g] + LL!Named(l, gap, g)
      BY <1>9, Zenon
    <3> QED BY <1>6, <3>1, <3>2
  <2>2. Earlier(q, gap, g) \in 0 .. gap
    BY <1>3, EarlierParts, Zenon
  <2> QED BY <1>3, <2>1, <2>2
<1>11. /\ u.ready \in Seq(E)
       /\ \A i \in 1 .. Len(u.ready) : u.ready[i][1] < Len(q) /\ u.ready[i][2] = BatchOf(q, u.ready[i][1])
  <2> HIDE DEF E
  <2>1. /\ l.ready \o more \in Seq(E) /\ Len(l.ready \o more) = Len(l.ready) + Len(more)
        /\ \A i \in 1 .. Len(l.ready) : (l.ready \o more)[i] = l.ready[i]
        /\ \A i \in 1 .. Len(more) : (l.ready \o more)[Len(l.ready) + i] = more[i]
    BY <1>1, <1>8, SeqConcat
  <2>2. \A i \in 1 .. Len(l.ready) : l.ready[i][1] < Len(q) /\ l.ready[i][2] = BatchOf(q, l.ready[i][1])
    BY DEF LocalTracks
  <2>3. Len(l.ready) \in Nat /\ Len(more) \in Nat
    BY <1>1, <1>8
  <2>4. ASSUME NEW i \in 1 .. Len(l.ready \o more)
        PROVE  \/ \E j \in 1 .. Len(l.ready) : (l.ready \o more)[i] = l.ready[j]
               \/ \E j \in 1 .. Len(more) : (l.ready \o more)[i] = more[j]
    <3>1. CASE i <= Len(l.ready)
      <4>1. i \in 1 .. Len(l.ready)
        BY <2>3, <3>1
      <4> QED BY <2>1, <4>1
    <3>2. CASE i > Len(l.ready)
      <4>1. i - Len(l.ready) \in 1 .. Len(more) /\ Len(l.ready) + (i - Len(l.ready)) = i
        BY <2>1, <2>3, <3>2
      <4> QED BY <2>1, <4>1, SMTT(30)
    <3> QED BY <2>3, <3>1, <3>2
  <2>5. \A i \in 1 .. Len(more) : more[i][1] < Len(q) /\ more[i][2] = BatchOf(q, more[i][1])
    BY <1>8
  <2> DEFINE both == l.ready \o more
             good(e) == e[1] < Len(q) /\ e[2] = BatchOf(q, e[1])
  <2>6. /\ \A i \in 1 .. Len(l.ready) : good(l.ready[i])
        /\ \A i \in 1 .. Len(more) : good(more[i])
    BY <2>2, <2>5
  <2>7. \A i \in 1 .. Len(both) : \/ \E j \in 1 .. Len(l.ready) : both[i] = l.ready[j]
                                 \/ \E j \in 1 .. Len(more) : both[i] = more[j]
    BY <2>4, Zenon
  <2>8. u.ready = both /\ both \in Seq(E)
    BY <1>9, <2>1, Zenon
  <2> HIDE DEF both, good
  <2>9. \A i \in 1 .. Len(both) : good(both[i])
    BY <2>6, <2>7
  <2>10. \A i \in 1 .. Len(u.ready) : good(u.ready[i])
    BY <2>8, <2>9
  <2> QED BY <2>8, <2>10 DEF good
<1>12. u \in LL!LocalLog
  <2>1. u.heads \in [Machine -> 0 .. MaxSlot]
    BY <1>9, <1>10, Zenon
  <2>2. u.next \in 0 .. MaxSlot
    <3>1. u.next = gap
      BY <1>9, Zenon
    <3> QED BY <1>3, <3>1
  <2> QED BY <1>1, <1>9, <1>11, <2>1, <2>2, Zenon DEF LL!LocalLog
<1>13. LocalTracks(u, q)
  BY <1>1, <1>5, <1>9, <1>10, <1>11, <1>12, Zenon DEF LocalTracks
<1> QED
  BY <1>13 DEF u

\* AddBatchId.
LEMMA AddBatchIdTracks ==
  ASSUME MaxSlot \in Nat, NoGenerator \notin Machine, NEW l, NEW q \in Seq(Machine), LocalTracks(l, q),
         NEW g \in Machine, NEW p \in LL!Position
  PROVE  LocalTracks(LL!AddBatchId(l, g, p), q)
<1> DEFINE k == [l EXCEPT !.queues[g] = @ \cup {p}]
           queues == [l.queues EXCEPT ![g] = @ \cup {p}]
<1>1. l \in LL!LocalLog /\ l.queues \in [Machine -> SUBSET LL!Position]
  BY DEF LocalTracks, LL!LocalLog
<1>2. queues \in [Machine -> SUBSET LL!Position]
  BY <1>1
<1>3. k = [l EXCEPT !.queues = queues]
  BY <1>1 DEF LL!LocalLog
<1>4. LL!AddBatchId(l, g, p) = LL!UpdateReadyBatches(k)
  BY DEF LL!AddBatchId
<1> HIDE DEF k, queues
<1>5. /\ k \in LL!LocalLog /\ k.next = l.next /\ k.slots = l.slots /\ k.heads = l.heads
      /\ k.ready = l.ready
  BY <1>1, <1>2, <1>3, Zenon DEF LL!LocalLog
<1>6. LocalTracks(k, q)
  BY <1>5 DEF LocalTracks
<1> QED
  BY <1>4, <1>6, LocalUpdateTracks

\* AddSlot, for a slot the order gives to the generator.
LEMMA AddLocalSlotTracks ==
  ASSUME MaxSlot \in Nat, NoGenerator \notin Machine, NEW l, NEW q \in Seq(Machine), LocalTracks(l, q),
         NEW s \in Nat, NEW g \in Machine, s < Len(q), g = q[s + 1]
  PROVE  LocalTracks(LL!AddSlot(l, s, g), q)
<1> DEFINE k == [l EXCEPT !.slots[s] = g]
           slt == [l.slots EXCEPT ![s] = g]
<1>1. l \in LL!LocalLog /\ l.slots \in [LL!Position -> Machine \cup {NoGenerator}]
  BY Zenon DEF LocalTracks, LL!LocalLog
<1>2. /\ slt \in [LL!Position -> Machine \cup {NoGenerator}]
      /\ \A t \in LL!Position : slt[t] # NoGenerator => t < Len(q) /\ slt[t] = q[t + 1]
  BY <1>1, Zenon DEF LocalTracks
<1>3. k = [l EXCEPT !.slots = slt]
  BY <1>1 DEF LL!LocalLog
<1>4. LL!AddSlot(l, s, g) = LL!UpdateReadyBatches(k)
  BY DEF LL!AddSlot
<1> HIDE DEF k, slt
<1>5. /\ k \in LL!LocalLog /\ k.next = l.next /\ k.slots = slt /\ k.heads = l.heads
      /\ k.ready = l.ready
  BY <1>1, <1>2, <1>3, Zenon DEF LL!LocalLog
<1>6. LocalTracks(k, q)
  BY <1>2, <1>5 DEF LocalTracks
<1> QED
  BY <1>4, <1>6, LocalUpdateTracks

\* A local log whose entries were handed on.
LEMMA EmptiedTracks ==
  ASSUME NEW l, NEW q, LocalTracks(l, q)
  PROVE  LocalTracks([l EXCEPT !.ready = << >>], q) /\ [l EXCEPT !.ready = << >>].ready = << >>
<1> DEFINE none == << >>
           k == [l EXCEPT !.ready = none]
           E == LL!Position \X (Machine \X LL!Position)
<1>1. none \in Seq(E) /\ Len(none) = 0
  OBVIOUS
<1> HIDE DEF none
<1>2. /\ k \in LL!LocalLog /\ k.next = l.next /\ k.slots = l.slots /\ k.heads = l.heads
      /\ k.ready = none
  BY <1>1, Zenon DEF LocalTracks, LL!LocalLog
<1> HIDE DEF k
<1>3. LocalTracks(k, q)
  BY <1>1, <1>2 DEF LocalTracks
<1> QED
  BY <1>2, <1>3 DEF k, none

-----------------------------------------------------------------------------
(* The order grows *)

\* The batches of the slots that were decided stay the same.
LEMMA BatchOfAppend ==
  ASSUME NEW q \in Seq(Machine), NEW g \in Machine
  PROVE  /\ Append(q, g) \in Seq(Machine) /\ Len(Append(q, g)) = Len(q) + 1 /\ Len(q) \in Nat
         /\ \A i \in 1 .. Len(q) : Append(q, g)[i] = q[i]
         /\ \A n \in 0 .. Len(q) : \A x : Earlier(Append(q, g), n, x) = Earlier(q, n, x)
         /\ \A s \in 0 .. Len(q) - 1 : BatchOf(Append(q, g), s) = BatchOf(q, s)
         /\ BatchOf(Append(q, g), Len(q)) = <<g, Earlier(q, Len(q), g)>>
<1> DEFINE p == Append(q, g)
<1>1. /\ p \in Seq(Machine) /\ Len(p) = Len(q) + 1 /\ Len(q) \in Nat
      /\ \A i \in 1 .. Len(q) : p[i] = q[i]
      /\ p[Len(q) + 1] = g
  OBVIOUS
<1> HIDE DEF p
<1>2. ASSUME NEW n \in 0 .. Len(q), NEW x PROVE Earlier(p, n, x) = Earlier(q, n, x)
  <2>1. {t \in 0 .. n - 1 : p[t + 1] = x} = {t \in 0 .. n - 1 : q[t + 1] = x}
    BY <1>1, SMTT(30)
  <2> QED BY <2>1, Zenon DEF Earlier
<1>3. \A s \in 0 .. Len(q) - 1 : BatchOf(p, s) = BatchOf(q, s)
  <2> SUFFICES ASSUME NEW s \in 0 .. Len(q) - 1 PROVE BatchOf(p, s) = BatchOf(q, s)
    OBVIOUS
  <2>1. p[s + 1] = q[s + 1] /\ s \in 0 .. Len(q)
    BY <1>1
  <2> QED BY <1>2, <2>1 DEF BatchOf
<1>4. BatchOf(p, Len(q)) = <<g, Earlier(q, Len(q), g)>>
  <2>1. Len(q) \in 0 .. Len(q)
    BY <1>1
  <2> QED BY <1>1, <1>2, <2>1 DEF BatchOf
<1>5. \A n \in 0 .. Len(q) : \A x : Earlier(p, n, x) = Earlier(q, n, x)
  BY <1>2
<1> QED
  BY <1>1, <1>3, <1>4, <1>5 DEF p

\* A local log that agrees with the order agrees with a longer one.
LEMMA LocalTracksMore ==
  ASSUME NEW l, NEW q \in Seq(Machine), NEW g \in Machine, LocalTracks(l, q)
  PROVE  LocalTracks(l, Append(q, g))
<1> DEFINE p == Append(q, g)
           good(e, x) == e[1] < Len(x) /\ e[2] = BatchOf(x, e[1])
           E == LL!Position \X (Machine \X LL!Position)
<1>1. /\ p \in Seq(Machine) /\ Len(p) = Len(q) + 1 /\ Len(q) \in Nat
      /\ \A i \in 1 .. Len(q) : p[i] = q[i]
      /\ \A n \in 0 .. Len(q) : \A x : Earlier(p, n, x) = Earlier(q, n, x)
      /\ \A s \in 0 .. Len(q) - 1 : BatchOf(p, s) = BatchOf(q, s)
  BY BatchOfAppend
<1> HIDE DEF p
<1>2. /\ l \in LL!LocalLog /\ l.next \in Nat /\ l.next <= Len(q) /\ l.ready \in Seq(E)
  BY DEF LocalTracks, LL!LocalLog
<1>3. l.next \in 0 .. Len(q) /\ l.next <= Len(p)
  BY <1>1, <1>2
<1>4. \A s \in LL!Position : l.slots[s] # NoGenerator => s < Len(p) /\ l.slots[s] = p[s + 1]
  <2> SUFFICES ASSUME NEW s \in LL!Position, l.slots[s] # NoGenerator
               PROVE  s < Len(p) /\ l.slots[s] = p[s + 1]
    BY Zenon
  <2>1. s < Len(q) /\ l.slots[s] = q[s + 1]
    BY Zenon DEF LocalTracks
  <2>2. s < Len(p) /\ s + 1 \in 1 .. Len(q)
    BY <1>1, <2>1 DEF LL!Position
  <2> QED BY <1>1, <2>1, <2>2, Zenon
<1>5. \A x \in Machine : l.heads[x] = Earlier(p, l.next, x)
  BY <1>1, <1>3 DEF LocalTracks
<1>6. \A i \in 1 .. Len(l.ready) : good(l.ready[i], p)
  <2> SUFFICES ASSUME NEW i \in 1 .. Len(l.ready) PROVE good(l.ready[i], p)
    OBVIOUS
  <2>1. l.ready[i][1] \in LL!Position /\ good(l.ready[i], q)
    BY <1>2 DEF LocalTracks
  <2>2. l.ready[i][1] \in Nat
    BY <2>1 DEF LL!Position
  <2> QED BY <1>1, <2>1, <2>2, SMTT(30)
<1>7. LocalTracks(l, p)
  BY <1>2, <1>3, <1>4, <1>5, <1>6 DEF LocalTracks
<1> QED
  BY <1>7 DEF p

\* A log that agrees with the batches in their order agrees with one more.
LEMMA TracksMore ==
  ASSUME NEW l, NEW O \in Seq(Batch), NEW b \in Batch, NEW out \in Seq(Batch), Tracks(l, O, out)
  PROVE  Tracks(l, Append(O, b), out)
<1> DEFINE P == Append(O, b)
<1>1. /\ Len(P) = Len(O) + 1 /\ Len(O) \in Nat
      /\ \A i \in 1 .. Len(O) : P[i] = O[i]
  OBVIOUS
<1> HIDE DEF P
<1>2. /\ l \in BL!BatchLog /\ l.next \in Nat /\ l.next <= Len(O) /\ l.ready \in Seq(Batch)
      /\ Len(out) + Len(l.ready) = l.next /\ Len(out) \in Nat /\ Len(l.ready) \in Nat
  BY DEF Tracks, BL!BatchLog
<1>3. \A s \in BL!Slot : l.slots[s] # NoBatch => s < Len(P) /\ l.slots[s] = P[s + 1]
  <2> SUFFICES ASSUME NEW s \in BL!Slot, l.slots[s] # NoBatch PROVE s < Len(P) /\ l.slots[s] = P[s + 1]
    BY Zenon
  <2>1. s < Len(O) /\ l.slots[s] = O[s + 1]
    BY Zenon DEF Tracks
  <2>2. s < Len(P) /\ s + 1 \in 1 .. Len(O)
    BY <1>1, <2>1 DEF BL!Slot
  <2> QED BY <1>1, <2>1, <2>2, Zenon
<1>4. \A i \in 1 .. Len(out) : out[i] = P[i]
  BY <1>1, <1>2 DEF Tracks
<1>5. \A i \in 1 .. Len(l.ready) : l.ready[i] = P[Len(out) + i]
  BY <1>1, <1>2, SMTT(30) DEF Tracks
<1>6. l.next <= Len(P)
  BY <1>1, <1>2
<1>7. Tracks(l, P, out)
  BY <1>2, <1>3, <1>4, <1>5, <1>6 DEF Tracks
<1> QED
  BY <1>7 DEF P

-----------------------------------------------------------------------------
(* Machines, batches and messages *)

\* Where the machines of a region are.
LEMMA Machines ==
  ASSUME ConstantsOK
  PROVE  /\ \A m \in Machine : /\ m[1] \in Region
                               /\ \A d \in OtherPartitions(m) : d \in Machine /\ d[1] = m[1]
                               /\ \A d \in OtherReplicas(m) : d \in Machine /\ d[1] = m[1]
         /\ \A r \in Region : /\ \A p \in Partition : <<r, 0, p>> \in Machine
                              /\ \A d \in Learners(r) : d \in Machine /\ d[1] = r
         /\ \A b \in Batch : Home(b) \in Region /\ b[1] \in Machine /\ b[2] \in LL!Position
         /\ \A x \in Int : x % NumPartitions \in Partition
<1>1. \A m : m \in Machine <=> \E r \in Region : \E i \in 0 .. NumReplicas[r] - 1 : \E p \in Partition : m = <<r, i, p>>
  BY DEF Machine
<1>2. \A r \in Region : 0 \in 0 .. NumReplicas[r] - 1 /\ 0 \in Partition
  BY DEF ConstantsOK, Partition
<1>3. ASSUME NEW m \in Machine
      PROVE  /\ m[1] \in Region
             /\ \A d \in OtherPartitions(m) : d \in Machine /\ d[1] = m[1]
             /\ \A d \in OtherReplicas(m) : d \in Machine /\ d[1] = m[1]
  <2>1. PICK r \in Region : \E i \in 0 .. NumReplicas[r] - 1 : \E p \in Partition : m = <<r, i, p>>
    BY <1>1
  <2>a. PICK i \in 0 .. NumReplicas[r] - 1, p \in Partition : m = <<r, i, p>>
    BY <2>1
  <2>2. m[1] = r /\ m[2] = i /\ m[3] = p
    BY <2>a
  <2>3. \A d \in OtherPartitions(m) : \E x \in Partition : d = <<r, i, x>>
    BY <2>2 DEF OtherPartitions
  <2>4. \A d \in OtherReplicas(m) : \E x \in 0 .. NumReplicas[r] - 1 : d = <<r, x, p>>
    BY <2>2 DEF OtherReplicas
  <2> QED BY <1>1, <2>2, <2>3, <2>4
<1>4. ASSUME NEW r \in Region
      PROVE  /\ \A p \in Partition : <<r, 0, p>> \in Machine
             /\ \A d \in Learners(r) : d \in Machine /\ d[1] = r
  BY <1>1, <1>2 DEF Learners
<1>5. \A b \in Batch : Home(b) \in Region /\ b[1] \in Machine /\ b[2] \in LL!Position
  BY <1>3 DEF Batch, Home, LL!Position
<1>6. \A x \in Int : x % NumPartitions \in Partition
  BY DEF ConstantsOK, Partition
<1> QED
  BY <1>3, <1>4, <1>5, <1>6

\* The batches in their order.
LEMMA OrderedBatches ==
  ASSUME OrderOK, NEW h \in Region
  PROVE  /\ Ordered(h) \in Seq(Batch) /\ Len(Ordered(h)) = Len(order[h])
         /\ \A s \in 0 .. Len(order[h]) - 1 : Ordered(h)[s + 1] = BatchOf(order[h], s)
<1> DEFINE O == Ordered(h)
           n == Len(order[h])
<1>1. n \in Nat
  BY DEF OrderOK
<1>2. \A i \in 1 .. n : O[i] = <<order[h][i], Earlier(order[h], i - 1, order[h][i])>>
  BY DEF Ordered
<1>3. \A s \in 0 .. n - 1 : O[s + 1] = BatchOf(order[h], s)
  <2> SUFFICES ASSUME NEW s \in 0 .. n - 1 PROVE O[s + 1] = BatchOf(order[h], s)
    OBVIOUS
  <2>1. s + 1 \in 1 .. n /\ (s + 1) - 1 = s
    BY <1>1
  <2> HIDE DEF n, O
  <2> QED BY <1>2, <2>1 DEF BatchOf
<1>4. \A i \in 1 .. n : O[i] \in Batch
  <2> SUFFICES ASSUME NEW i \in 1 .. n PROVE O[i] \in Batch
    OBVIOUS
  <2>1. i - 1 \in 0 .. n - 1 /\ (i - 1) + 1 = i
    BY <1>1
  <2>2. BatchOf(order[h], i - 1) \in Batch
    BY <2>1 DEF OrderOK
  <2> HIDE DEF n, O
  <2> QED BY <1>3, <2>1, <2>2
<1>5. O = [i \in 1 .. n |-> O[i]]
  BY DEF Ordered
<1> HIDE DEF O, n
<1>6. O \in [1 .. n -> Batch]
  BY <1>4, <1>5
<1>7. O \in Seq(Batch) /\ Len(O) = n
  BY <1>1, <1>6
<1> QED
  BY <1>3, <1>7 DEF O, n

\* A message that is passed on within the region says the same.
LEMMA Forwarded ==
  ASSUME NEW msg \in Message, Says(msg, order), NEW T, \A d \in T : d \in Machine /\ d[1] = msg.to[1]
  PROVE  \A x \in Forward(msg, T) : x \in Message /\ Says(x, order)
<1> SUFFICES ASSUME NEW d \in T
             PROVE  /\ [msg EXCEPT !.from = msg.to, !.to = d] \in Message
                    /\ Says([msg EXCEPT !.from = msg.to, !.to = d], order)
  BY Zenon DEF Forward
<1>1. d \in Machine /\ d[1] = msg.to[1]
  OBVIOUS
<1> DEFINE x == [msg EXCEPT !.from = msg.to, !.to = d]
<1>2. x \in Message /\ x.kind = msg.kind /\ x.to = d
  BY <1>1, Zenon DEF Message
<1>3. /\ msg.kind = "local" => x.slot = msg.slot /\ x.generator = msg.generator
      /\ msg.kind = "remote" => x.slot = msg.slot /\ x.batch = msg.batch
  BY DEF Message
<1> HIDE DEF x
<1>4. Says(x, order)
  BY <1>1, <1>2, <1>3 DEF Says
<1> QED
  BY <1>2, <1>4 DEF x

-----------------------------------------------------------------------------
(* AdvanceLog *)

\* The orders the leader sends say what its local log has ready.
LEMMA RemoteOrdersSay ==
  ASSUME ConstantsOK, OrderOK, NEW m \in Machine, NEW local, LocalTracks(local, order[m[1]]),
         NEW i \in DOMAIN local.ready, NEW x \in RemoteOrders(m, local.ready[i])
  PROVE  x \in Message /\ Says(x, order)
<1> DEFINE e == local.ready[i]
<1>1. m[1] \in Region /\ Len(order[m[1]]) \in Nat
  BY Machines DEF OrderOK
<1>2. e \in LL!Position \X (Machine \X LL!Position) /\ i \in 1 .. Len(local.ready)
  BY DEF LocalTracks, LL!LocalLog
<1>3. /\ e[1] \in Nat /\ e[2] \in Batch /\ e[1] < Len(order[m[1]])
      /\ e[2] = BatchOf(order[m[1]], e[1])
  BY <1>2 DEF LocalTracks, LL!Position, Batch
<1>4. Home(e[2]) = m[1]
  <2>1. e[1] \in 0 .. Len(order[m[1]]) - 1
    BY <1>1, <1>3
  <2> QED BY <1>1, <1>3, <2>1, Zenon DEF OrderOK
<1> HIDE DEF e
<1>5. PICK r \in Region \ {m[1]} :
        x = [kind |-> "remote", from |-> m, slot |-> e[1], batch |-> e[2],
             need_ack |-> r \in NeedAck(m[1]),
             to |-> <<r, 0, ((r + NumRegions - m[1]) % NumRegions) % NumPartitions>>]
  BY DEF RemoteOrders, e
<1>6. <<r, 0, ((r + NumRegions - m[1]) % NumRegions) % NumPartitions>> \in Machine
  <2>1. (r + NumRegions - m[1]) % NumRegions \in Int
    BY <1>1, SMTT(30) DEF ConstantsOK, Region
  <2> QED BY <2>1, Machines
<1>7. /\ x.kind = "remote" /\ x.from = m /\ x.slot = e[1] /\ x.batch = e[2]
      /\ x \in Message
  BY <1>3, <1>5, <1>6 DEF Message
<1> QED
  BY <1>3, <1>4, <1>7 DEF Says

\* The slots a local log let through hold the batches in their order.
LEMMA ReadyInOrder ==
  ASSUME ConstantsOK, OrderOK, NEW r \in Region, NEW l, LocalTracks(l, order[r])
  PROVE  \A i \in DOMAIN l.ready :
           l.ready[i][1] < Len(Ordered(r)) /\ l.ready[i][2] = Ordered(r)[l.ready[i][1] + 1]
<1> SUFFICES ASSUME NEW i \in DOMAIN l.ready
             PROVE  l.ready[i][1] < Len(Ordered(r)) /\ l.ready[i][2] = Ordered(r)[l.ready[i][1] + 1]
  BY Zenon
<1>1. i \in 1 .. Len(l.ready) /\ l.ready[i][1] \in Nat
  BY DEF LocalTracks, LL!LocalLog, LL!Position
<1>2. l.ready[i][1] < Len(order[r]) /\ l.ready[i][2] = BatchOf(order[r], l.ready[i][1])
  BY <1>1, Zenon DEF LocalTracks
<1>3. Len(order[r]) \in Nat
  BY DEF OrderOK
<1> DEFINE t == l.ready[i][1]
<1>4. t \in 0 .. Len(order[r]) - 1
  BY <1>1, <1>2, <1>3
<1> HIDE DEF t
<1>5. Len(Ordered(r)) = Len(order[r]) /\ Ordered(r)[t + 1] = BatchOf(order[r], t)
  BY <1>4, OrderedBatches, Zenon
<1> QED BY <1>2, <1>5, Zenon DEF t

\* What a log that gave all it let through away gave away: a prefix of the order.
LEMMA GaveAway ==
  ASSUME MaxSlot \in Nat, NEW l, NEW O \in Seq(Batch), NEW a \in Seq(Batch), Tracks(l, O, a), l.ready = << >>
  PROVE  a = SubSeq(O, 1, l.next) /\ l.next \in 0 .. Len(O)
<1> DEFINE n == l.next
<1>1. /\ l \in BL!BatchLog /\ n <= Len(O) /\ Len(a) + Len(l.ready) = n
      /\ \A i \in 1 .. Len(a) : a[i] = O[i]
  BY Zenon DEF Tracks
<1>2. n \in Nat
  BY <1>1 DEF BL!BatchLog
<1>3. Len(l.ready) = 0
  OBVIOUS
<1>4. Len(a) = n
  BY <1>1, <1>2, <1>3
<1>5. a = SubSeq(O, 1, n)
  BY <1>1, <1>2, <1>4
<1>6. Len(O) \in Nat
  OBVIOUS
<1>7. n \in 0 .. Len(O)
  BY <1>1, <1>2, <1>6
<1> QED BY <1>5, <1>7, Zenon

\* What a handler leaves behind is consistent, and what it lets through is
\* delivered from one log.
LEMMA AdvanceStep ==
  ASSUME IInv, NEW msg \in net, NEW local, NEW logs, NEW sends, NEW h \in Region,
         AdvanceLog(msg, local, logs, sends),
         LocalTracks(local, order[msg.to[1]]), local.ready # << >> => h = msg.to[1],
         logs = [single_home_logs[msg.to] EXCEPT ![h] = logs[h]],
         Tracks(logs[h], Ordered(h), emitted[msg.to][h]),
         \A x \in sends : x \in Message /\ Says(x, order)
  PROVE  IInv' /\ [SL!Next]_(SL!vars)
<1> DEFINE m == msg.to
           r == m[1]
           slotted == [logs EXCEPT ![r] = BL!AddSlots(logs[r], local.ready, ReplicationFactor - 1)]
           out == emitted[m]
           more == [k \in Region |-> out[k] \o slotted[k].ready]
           shl == [k \in Region |-> BL!Drain(slotted[k])]
<1>1. ConstantsOK /\ OrderOK /\ NetOK /\ LocalOK /\ LogsOK
  BY DEF IInv
<1>2. msg \in Message /\ m \in Machine /\ r \in Region
  <2>1. msg \in Message /\ m \in Machine
    BY <1>1 DEF NetOK, Message
  <2> QED BY <1>1, <2>1, Machines, Zenon
<1>3. /\ local_log' = [local_log EXCEPT ![m] = [local EXCEPT !.ready = << >>]]
      /\ single_home_logs' = [single_home_logs EXCEPT ![m] = shl]
      /\ emitted' = [emitted EXCEPT ![m] = more]
      /\ UNCHANGED <<sent, order>>
  BY Zenon DEF AdvanceLog
<1>4. ConstantsOK' /\ OrderOK'
  BY <1>1, <1>3, Zenon DEF ConstantsOK, OrderOK
<1>5. NetOK'
  <2> SUFFICES ASSUME NEW x \in net' PROVE x \in Message /\ Says(x, order)
    BY <1>3, Zenon DEF NetOK
  <2>1. x \in net \/ x \in sends \/ \E i \in DOMAIN local.ready : x \in RemoteOrders(m, local.ready[i])
    BY Zenon DEF AdvanceLog
  <2> HIDE DEF m
  <2>2. CASE x \in net
    BY <1>1, <2>2 DEF NetOK
  <2>3. CASE x \in sends
    BY <2>3
  <2>4. CASE \E i \in DOMAIN local.ready : x \in RemoteOrders(m, local.ready[i])
    <3>1. LocalTracks(local, order[m[1]])
      BY Zenon DEF m
    <3> QED BY <1>1, <1>2, <2>4, <3>1, RemoteOrdersSay, Zenon
  <2> QED BY <2>1, <2>2, <2>3, <2>4
<1>6. LocalOK'
  <2> DEFINE k == [local EXCEPT !.ready = << >>]
  <2>1. LocalTracks(k, order[m[1]]) /\ k.ready = << >>
    BY EmptiedTracks
  <2> HIDE DEF k, m
  <2>2. local_log' = [local_log EXCEPT ![m] = k] /\ order' = order
    BY <1>3, Zenon DEF k
  <2> QED BY <1>1, <1>2, <2>1, <2>2 DEF LocalOK
<1>7. /\ DOMAIN logs = Region /\ DOMAIN out = Region
      /\ \A k \in Region : /\ Ordered(k) \in Seq(Batch) /\ Len(Ordered(k)) = Len(order[k])
                           /\ out[k] \in Seq(Batch)
                           /\ Tracks(logs[k], Ordered(k), out[k])
                           /\ k # h => logs[k].ready = << >>
  <2>1. /\ DOMAIN single_home_logs[m] = Region /\ DOMAIN out = Region
        /\ \A k \in Region : k # h => logs[k] = single_home_logs[m][k]
    BY <1>1, <1>2, ZenonT(40) DEF LogsOK
  <2>2. \A k \in Region : /\ out[k] \in Seq(Batch) /\ single_home_logs[m][k].ready = << >>
                          /\ Tracks(single_home_logs[m][k], Ordered(k), out[k])
    BY <1>1, <1>2, Zenon DEF LogsOK
  <2>3. \A k \in Region : Ordered(k) \in Seq(Batch) /\ Len(Ordered(k)) = Len(order[k])
    BY <1>1, OrderedBatches, Zenon
  <2>4. DOMAIN logs = Region
    BY <2>1, Zenon
  <2>5. Tracks(logs[h], Ordered(h), out[h])
    BY Zenon
  <2> HIDE DEF out, m
  <2> QED BY <2>1, <2>2, <2>3, <2>4, <2>5, Zenon
<1>8. \A k \in Region : Tracks(slotted[k], Ordered(k), out[k]) /\ (k # h => slotted[k].ready = << >>)
  <2>1. Tracks(slotted[r], Ordered(r), out[r])
    <3>1. \A i \in DOMAIN local.ready :
            local.ready[i][1] < Len(Ordered(r)) /\ local.ready[i][2] = Ordered(r)[local.ready[i][1] + 1]
      BY <1>1, <1>2, ReadyInOrder, ZenonT(40)
    <3>2. slotted[r] = BL!AddSlots(logs[r], local.ready, ReplicationFactor - 1)
      BY <1>2, <1>7
    <3>3. MaxSlot \in Nat /\ NoBatch \notin Batch /\ ReplicationFactor - 1 \in Int
      <4>1. MaxSlot \in Nat /\ NoBatch \notin Batch /\ ReplicationFactor \in Nat \ {0}
        BY <1>1, Zenon DEF ConstantsOK
      <4> QED BY <4>1
    <3> HIDE DEF slotted, r, out
    <3>4. Tracks(BL!AddSlots(logs[r], local.ready, ReplicationFactor - 1), Ordered(r), out[r])
      BY <1>2, <1>7, <3>1, <3>3, AddSlotsTracks, Zenon
    <3> QED BY <3>2, <3>4, Zenon
  <2>2. r # h => slotted[r].ready = << >>
    <3>1. r # h => local.ready = << >>
      OBVIOUS
    <3>2. r # h => slotted[r] = logs[r]
      BY <1>2, <1>7, <3>1 DEF BL!AddSlots
    <3> HIDE DEF slotted, r
    <3> QED BY <1>2, <1>7, <3>2, Zenon
  <2>3. \A k \in Region \ {r} : slotted[k] = logs[k]
    BY <1>7, Zenon
  <2> HIDE DEF slotted, r, out
  <2> QED BY <1>7, <2>1, <2>2, <2>3, Zenon
<1> HIDE DEF slotted
<1>9. \A k \in Region :
        Tracks(shl[k], Ordered(k), more[k]) /\ shl[k].ready = << >> /\ more[k] \in Seq(Batch)
  <2> SUFFICES ASSUME NEW k \in Region
               PROVE  Tracks(shl[k], Ordered(k), more[k]) /\ shl[k].ready = << >> /\ more[k] \in Seq(Batch)
    BY Zenon
  <2> DEFINE l == slotted[k]
             O == Ordered(k)
             o == out[k]
             d == shl[k]
             a == more[k]
  <2>1. O \in Seq(Batch) /\ o \in Seq(Batch) /\ Tracks(l, O, o)
    BY <1>7, <1>8, Zenon
  <2>2. d = BL!Drain(l) /\ a = o \o l.ready
    BY Zenon
  <2> HIDE DEF l, O, o, d, a
  <2>3. Tracks(d, O, a) /\ d.ready = << >> /\ a \in Seq(Batch)
    BY <2>1, <2>2, DrainTracks, Zenon
  <2> QED BY <2>3, Zenon DEF l, O, d, a
<1>10. \A k \in Region : Ordered(k)' = Ordered(k)
  BY <1>3 DEF Ordered
<1>11. more = [k \in Region |-> more[k]] /\ shl = [k \in Region |-> shl[k]]
  BY Zenon
<1>12. \A k \in Region \ {h} : more[k] = out[k]
  <2> SUFFICES ASSUME NEW k \in Region \ {h} PROVE out[k] \o slotted[k].ready = out[k]
    BY Zenon
  <2> DEFINE none == << >>
  <2>1. out[k] \in Seq(Batch) /\ slotted[k].ready = none /\ none \in Seq(Batch)
    <3>1. none \in Seq(Batch)
      OBVIOUS
    <3> QED BY <1>7, <1>8, <3>1, Zenon
  <2> HIDE DEF out
  <2> QED BY <2>1, SeqLonger, ZenonT(40)
<1> HIDE DEF more, shl, m, r, out
<1>13. LogsOK'
  <2>0. Table(single_home_logs, Machine, Region) /\ Table(emitted, Machine, Region)
    BY <1>1, Zenon DEF LogsOK, Table
  <2>1. /\ Table(single_home_logs', Machine, Region) /\ Table(emitted', Machine, Region)
        /\ \A k \in Region : single_home_logs'[m][k] = shl[k] /\ emitted'[m][k] = more[k]
        /\ \A x \in Machine \ {m}, k \in Region :
             single_home_logs'[x][k] = single_home_logs[x][k] /\ emitted'[x][k] = emitted[x][k]
    <3>1. RowPut(single_home_logs', single_home_logs, Machine, Region, m, shl)
      BY <1>2, <1>3, <1>11, <2>0, RowReplaced, Zenon
    <3>2. RowPut(emitted', emitted, Machine, Region, m, more)
      BY <1>2, <1>3, <1>11, <2>0, RowReplaced, Zenon
    <3> QED BY <3>1, <3>2, Zenon DEF RowPut
  <2>2. ASSUME NEW x \in Machine, NEW k \in Region
        PROVE  /\ emitted'[x][k] \in Seq(Batch)
               /\ single_home_logs'[x][k].ready = << >>
               /\ Tracks(single_home_logs'[x][k], Ordered(k), emitted'[x][k])
    <3>1. CASE x = m
      <4>1. emitted'[x][k] = more[k] /\ single_home_logs'[x][k] = shl[k]
        BY <2>1, <3>1, Zenon
      <4> QED BY <1>9, <4>1, Zenon
    <3>2. CASE x # m
      <4>1. emitted'[x][k] = emitted[x][k] /\ single_home_logs'[x][k] = single_home_logs[x][k]
        BY <2>1, <3>2, Zenon
      <4>2. /\ emitted[x][k] \in Seq(Batch) /\ single_home_logs[x][k].ready = << >>
            /\ Tracks(single_home_logs[x][k], Ordered(k), emitted[x][k])
        BY <1>1, Zenon DEF LogsOK
      <4> QED BY <4>1, <4>2, Zenon
    <3> QED BY <3>1, <3>2, Zenon
  <2> QED BY <1>10, <2>1, <2>2, Zenon DEF LogsOK, Table
<1>14. [SL!Next]_(SL!vars)
  <2> DEFINE n == shl[h].next
             O == Ordered(h)
  <2>1. O \in Seq(Batch) /\ more[h] \in Seq(Batch) /\ Tracks(shl[h], O, more[h]) /\ shl[h].ready = << >>
    BY <1>7, <1>9, Zenon
  <2>2. Len(out[h]) \in Nat /\ Len(out[h]) <= n /\ (Len(out[h]) = n => more[h] = out[h])
    <3>1. slotted[h] \in BL!BatchLog
      BY <1>8, Zenon DEF Tracks
    <3>2. slotted[h].ready \in Seq(Batch)
      BY <3>1 DEF BL!BatchLog
    <3>3. out[h] \in Seq(Batch) /\ more[h] = out[h] \o slotted[h].ready
      BY <1>7, Zenon DEF more
    <3>4. n = Len(more[h])
      <4>1. 0 \in Nat /\ Len(more[h]) \in Nat
        BY <2>1
      <4> QED BY <2>1 DEF Tracks
    <3> QED BY <3>2, <3>3, <3>4, SeqLonger, Zenon
  <2>3. [k \in Region |-> Ordered(k)]' = [k \in Region |-> Ordered(k)]
    BY <1>10, Zenon
  <2>4. emitted' = [emitted EXCEPT ![m] = [@ EXCEPT ![h] = more[h]]]
    <3>1. more = [out EXCEPT ![h] = more[h]]
      BY <1>7, <1>11, <1>12, Zenon
    <3> QED BY <1>3, <3>1, Zenon DEF out
  <2>5. CASE Len(out[h]) = n
    <3>1. emitted' = emitted
      <4>1. out = [k \in Region |-> out[k]]
        BY <1>1, <1>2 DEF LogsOK, out
      <4>2. more = out
        BY <1>11, <1>12, <2>2, <2>5, <4>1
      <4> QED BY <1>1, <1>2, <1>3, <4>2, Zenon DEF LogsOK, out
    <3> QED BY <2>3, <3>1, Zenon DEF SL!vars
  <2>6. CASE Len(out[h]) # n
    <3>1. more[h] = SubSeq(O, 1, n) /\ n > Len(out[h]) /\ n \in 1 .. Len(O)
      <4>1. MaxSlot \in Nat
        BY <1>1, Zenon DEF ConstantsOK
      <4>2. more[h] = SubSeq(O, 1, n) /\ n \in 0 .. Len(O)
        BY <2>1, <4>1, GaveAway, Zenon
      <4>3. Len(O) \in Nat
        BY <2>1
      <4> DEFINE c == Len(out[h])
      <4> HIDE DEF c, n, O
      <4>4. c \in Nat /\ c <= n /\ c # n
        BY <2>2, <2>6, Zenon DEF c
      <4>5. n > c /\ n \in 1 .. Len(O)
        BY <4>2, <4>3, <4>4
      <4> QED BY <4>2, <4>5, Zenon DEF c
    <3> HIDE DEF n, O
    <3>3. SL!Deliver(m, h, n)
      BY <2>3, <2>4, <3>1 DEF SL!Deliver, O, out
    <3> QED BY <1>2, <3>1, <3>3, Zenon DEF SL!Next, O
  <2> QED BY <2>5, <2>6
<1> QED
  BY <1>4, <1>5, <1>6, <1>13, <1>14, Zenon DEF IInv

-----------------------------------------------------------------------------
(* The handlers *)

\* What a handler starts from.
LEMMA HandlerState ==
  ASSUME IInv, NEW msg \in net
  PROVE  /\ msg \in Message /\ Says(msg, order) /\ msg.to \in Machine /\ msg.from \in Machine
         /\ msg.to[1] \in Region
         /\ MaxSlot \in Nat /\ NoBatch \notin Batch /\ NoGenerator \notin Machine
         /\ order[msg.to[1]] \in Seq(Machine)
         /\ LocalTracks(local_log[msg.to], order[msg.to[1]]) /\ local_log[msg.to].ready = << >>
         /\ DOMAIN single_home_logs[msg.to] = Region
         /\ \A h \in Region : /\ Ordered(h) \in Seq(Batch) /\ emitted[msg.to][h] \in Seq(Batch)
                              /\ Tracks(single_home_logs[msg.to][h], Ordered(h), emitted[msg.to][h])
<1>1. ConstantsOK /\ OrderOK /\ NetOK /\ LocalOK /\ LogsOK
  BY DEF IInv
<1>2. msg \in Message /\ Says(msg, order)
  BY <1>1 DEF NetOK
<1>3. msg.to \in Machine /\ msg.from \in Machine
  BY <1>2, Zenon DEF Message
<1>4. msg.to[1] \in Region
  BY <1>1, <1>3, Machines
<1>5. order[msg.to[1]] \in Seq(Machine)
  BY <1>1, <1>4 DEF OrderOK
<1>6. LocalTracks(local_log[msg.to], order[msg.to[1]]) /\ local_log[msg.to].ready = << >>
  BY <1>1, <1>3 DEF LocalOK
<1>7. DOMAIN single_home_logs[msg.to] = Region
  BY <1>1, <1>3 DEF LogsOK
<1>8. ASSUME NEW h \in Region
      PROVE  /\ Ordered(h) \in Seq(Batch) /\ emitted[msg.to][h] \in Seq(Batch)
             /\ Tracks(single_home_logs[msg.to][h], Ordered(h), emitted[msg.to][h])
  <2>1. Ordered(h) \in Seq(Batch)
    BY <1>1, OrderedBatches
  <2> QED BY <1>1, <1>3, <2>1 DEF LogsOK
<1>9. MaxSlot \in Nat /\ NoBatch \notin Batch /\ NoGenerator \notin Machine
  BY <1>1 DEF ConstantsOK
<1> QED
  BY <1>2, <1>3, <1>4, <1>5, <1>6, <1>7, <1>8, <1>9, Zenon

\* The messages a handler passes on.
LEMMA ForwardedWithin ==
  ASSUME IInv, NEW msg \in net, NEW c, NEW T, T \in {OtherPartitions(msg.to), OtherReplicas(msg.to)}
  PROVE  \A x \in ForwardIf(c, msg, T) : x \in Message /\ Says(x, order)
<1>1. msg \in Message /\ Says(msg, order) /\ msg.to \in Machine
  BY HandlerState, Zenon
<1>2. \A d \in T : d \in Machine /\ d[1] = msg.to[1]
  BY <1>1, Machines DEF IInv
<1> QED
  BY <1>1, <1>2, Forwarded DEF ForwardIf

\* A message with a batch says nothing of the order.
LEMMA DataMessage ==
  ASSUME NEW from \in Machine, NEW to \in Machine, NEW b \in Batch, NEW whole \in BOOLEAN, NEW ord
  PROVE  Data(from, to, b, whole) \in Message /\ Says(Data(from, to, b, whole), ord)
<1> DEFINE d == Data(from, to, b, whole)
<1>1. d.kind = "data"
  BY DEF Data
<1>2. d \in [kind : {"data"}, from : Machine, to : Machine, batch : Batch, whole : BOOLEAN]
  BY DEF Data
<1> HIDE DEF d
<1> QED
  BY <1>1, <1>2 DEF Message, Says, d

\* A batch arrives.
LEMMA DataStep ==
  ASSUME IInv, NEW msg \in net, ProcessForwardBatchData(msg)
  PROVE  IInv' /\ [SL!Next]_(SL!vars)
<1> DEFINE m == msg.to
           b == msg.batch
           h == Home(b)
           local == IF Home(b) = m[1] THEN LL!AddBatchId(local_log[m], b[1], b[2]) ELSE local_log[m]
           logs == [single_home_logs[m] EXCEPT ![Home(b)] = BL!AddBatch(@, b)]
           parts == {Data(m, d, b, FALSE) : d \in OtherPartitions(m)}
           sends == ForwardIf(FirstTimeRegion(msg), msg, OtherReplicas(m))
                      \cup IF FirstTimeReplica(msg) THEN parts ELSE {}
<1>1. msg.kind = "data" /\ AdvanceLog(msg, local, logs, sends)
  BY Zenon DEF ProcessForwardBatchData
<1>2. ConstantsOK /\ msg \in Message /\ m \in Machine /\ b \in Batch
  BY <1>1, HandlerState DEF IInv, Message
<1>3. h \in Region /\ b[1] \in Machine /\ b[2] \in LL!Position
  BY <1>2, Machines, Zenon
<1>4. LocalTracks(local, order[m[1]]) /\ (local.ready # << >> => h = m[1])
  <2>1. /\ MaxSlot \in Nat /\ NoGenerator \notin Machine /\ order[m[1]] \in Seq(Machine)
        /\ LocalTracks(local_log[m], order[m[1]]) /\ local_log[m].ready = << >>
    BY HandlerState, Zenon
  <2>2. LocalTracks(LL!AddBatchId(local_log[m], b[1], b[2]), order[m[1]])
    <3> HIDE DEF m, b
    <3> QED BY <1>3, <2>1, AddBatchIdTracks, Zenon
  <2> QED BY <2>1, <2>2, Zenon
<1>5. logs = [single_home_logs[m] EXCEPT ![h] = logs[h]] /\ Tracks(logs[h], Ordered(h), emitted[m][h])
  <2>1. /\ MaxSlot \in Nat /\ NoBatch \notin Batch /\ DOMAIN single_home_logs[m] = Region
        /\ Ordered(h) \in Seq(Batch) /\ emitted[m][h] \in Seq(Batch)
        /\ Tracks(single_home_logs[m][h], Ordered(h), emitted[m][h])
    BY <1>3, HandlerState, Zenon
  <2>2. logs[h] = BL!AddBatch(single_home_logs[m][h], b)
    BY <1>3, <2>1, Zenon
  <2>3. logs = [single_home_logs[m] EXCEPT ![h] = logs[h]]
    BY <2>2, Zenon
  <2> HIDE DEF m, b, h, logs
  <2> QED BY <1>2, <2>1, <2>2, <2>3, AddBatchTracks
<1>6. \A x \in sends : x \in Message /\ Says(x, order)
  <2>1. \A x \in ForwardIf(FirstTimeRegion(msg), msg, OtherReplicas(m)) : x \in Message /\ Says(x, order)
    BY ForwardedWithin
  <2>2. \A d \in OtherPartitions(m) : d \in Machine
    BY <1>2, Machines, Zenon
  <2>3. FALSE \in BOOLEAN
    OBVIOUS
  <2>4. \A d \in Machine : Data(m, d, b, FALSE) \in Message /\ Says(Data(m, d, b, FALSE), order)
    <3> HIDE DEF m, b
    <3> QED BY <1>2, <2>3, DataMessage, Zenon
  <2>5. \A x \in parts : x \in Message /\ Says(x, order)
    BY <2>2, <2>4, Zenon
  <2> QED BY <2>1, <2>5, Zenon
<1> HIDE DEF local, logs, sends, h
<1> QED
  BY <1>1, <1>3, <1>4, <1>5, <1>6, AdvanceStep, Zenon

\* Paxos decided a slot.
LEMMA LocalStep ==
  ASSUME IInv, NEW msg \in net, ProcessLocalBatchOrder(msg)
  PROVE  IInv' /\ [SL!Next]_(SL!vars)
<1> DEFINE m == msg.to
           h == m[1]
           local == LL!AddSlot(local_log[m], msg.slot, msg.generator)
           logs == single_home_logs[m]
           sends == ForwardIf(Leader(m[1])[2] # m[2] /\ msg.from[3] = m[3], msg, OtherPartitions(m))
<1>1. msg.kind = "local" /\ AdvanceLog(msg, local, logs, sends)
  BY Zenon DEF ProcessLocalBatchOrder
<1>2. /\ msg \in Message /\ h \in Region /\ msg.slot \in Nat /\ msg.generator \in Machine
      /\ msg.slot < Len(order[h]) /\ msg.generator = order[h][msg.slot + 1]
  BY <1>1, HandlerState, Zenon DEF Message, Says
<1>3. LocalTracks(local, order[h])
  <2>1. /\ MaxSlot \in Nat /\ NoGenerator \notin Machine /\ order[h] \in Seq(Machine)
        /\ LocalTracks(local_log[m], order[h])
    BY HandlerState, Zenon
  <2> HIDE DEF m, h
  <2> QED BY <1>2, <2>1, AddLocalSlotTracks, Zenon
<1>4. logs = [single_home_logs[m] EXCEPT ![h] = logs[h]] /\ Tracks(logs[h], Ordered(h), emitted[m][h])
  <2>1. logs = [single_home_logs[m] EXCEPT ![h] = logs[h]]
    BY HandlerState, Zenon DEF IInv, LogsOK
  <2> QED BY <1>2, <2>1, HandlerState, Zenon
<1>5. \A x \in sends : x \in Message /\ Says(x, order)
  BY ForwardedWithin, Zenon
<1> HIDE DEF local, logs, sends
<1> QED
  BY <1>1, <1>2, <1>3, <1>4, <1>5, AdvanceStep, Zenon

\* The order of another region arrives.
LEMMA RemoteStep ==
  ASSUME IInv, NEW msg \in net, ProcessRemoteBatchOrder(msg)
  PROVE  IInv' /\ [SL!Next]_(SL!vars)
<1> DEFINE m == msg.to
           b == msg.batch
           h == Home(b)
           local == local_log[m]
           logs == [single_home_logs[m] EXCEPT ![Home(b)] = BL!AddSlot(@, msg.slot, b, 0)]
           ack == [kind |-> "ack", origin |-> m[1], from |-> m, to |-> msg.from, batch |-> msg.batch]
           sends == ForwardIf(FirstTimeRegion(msg), msg, OtherReplicas(m))
                      \cup ForwardIf(FirstTimeReplica(msg), msg, OtherPartitions(m))
                      \cup IF FirstTimeRegion(msg) /\ msg.need_ack THEN {ack} ELSE {}
<1>1. msg.kind = "remote" /\ AdvanceLog(msg, local, logs, sends)
  BY Zenon DEF ProcessRemoteBatchOrder
<1>2. /\ ConstantsOK /\ OrderOK /\ msg \in Message /\ m \in Machine /\ msg.from \in Machine
      /\ m[1] \in Region
  BY HandlerState, Zenon DEF IInv
<1>3. /\ b \in Batch /\ msg.slot \in Nat
      /\ msg.slot < Len(order[h]) /\ b = BatchOf(order[h], msg.slot)
  BY <1>1, <1>2, HandlerState, Zenon DEF Message, Says
<1>4. h \in Region
  BY <1>2, <1>3, Machines
<1>5. msg.slot < Len(Ordered(h)) /\ b = Ordered(h)[msg.slot + 1]
  <2>1. msg.slot \in 0 .. Len(order[h]) - 1
    BY <1>2, <1>3, <1>4 DEF OrderOK
  <2> HIDE DEF h, b
  <2> QED BY <1>2, <1>3, <1>4, <2>1, OrderedBatches, Zenon
<1>6. logs = [single_home_logs[m] EXCEPT ![h] = logs[h]] /\ Tracks(logs[h], Ordered(h), emitted[m][h])
  <2>1. /\ MaxSlot \in Nat /\ NoBatch \notin Batch /\ DOMAIN single_home_logs[m] = Region
        /\ Ordered(h) \in Seq(Batch) /\ emitted[m][h] \in Seq(Batch)
        /\ Tracks(single_home_logs[m][h], Ordered(h), emitted[m][h])
    BY <1>4, HandlerState, Zenon
  <2>2. logs[h] = BL!AddSlot(single_home_logs[m][h], msg.slot, b, 0)
    BY <1>4, <2>1, Zenon
  <2>3. logs = [single_home_logs[m] EXCEPT ![h] = logs[h]]
    BY <2>2, Zenon
  <2>4. 0 \in Int
    OBVIOUS
  <2> HIDE DEF m, b, h, logs
  <2>5. Tracks(BL!AddSlot(single_home_logs[m][h], msg.slot, b, 0), Ordered(h), emitted[m][h])
    BY <1>3, <1>5, <2>1, <2>4, AddSlotTracks, Zenon
  <2> QED BY <2>2, <2>3, <2>5, Zenon
<1>7. \A x \in sends : x \in Message /\ Says(x, order)
  <2>1. \A x \in ForwardIf(FirstTimeRegion(msg), msg, OtherReplicas(m)) : x \in Message /\ Says(x, order)
    BY ForwardedWithin
  <2>2. \A x \in ForwardIf(FirstTimeReplica(msg), msg, OtherPartitions(m)) : x \in Message /\ Says(x, order)
    BY ForwardedWithin
  <2>3. ack \in Message /\ ack.kind = "ack"
    BY <1>2, <1>3, Zenon DEF Message
  <2>4. Says(ack, order)
    BY <2>3, Zenon DEF Says
  <2> QED BY <2>1, <2>2, <2>3, <2>4, Zenon
<1>8. LocalTracks(local, order[m[1]]) /\ local.ready = << >>
  BY HandlerState, Zenon
<1> HIDE DEF local, logs, sends, h
<1> QED
  BY <1>1, <1>4, <1>6, <1>7, <1>8, AdvanceStep, Zenon

\* An ack arrives.
LEMMA AckStep ==
  ASSUME IInv, NEW msg \in net, ProcessBatchReplicationAck(msg)
  PROVE  IInv' /\ [SL!Next]_(SL!vars)
<1> DEFINE m == msg.to
           b == msg.batch
           h == m[1]
           local == local_log[m]
           logs == [single_home_logs[m] EXCEPT ![m[1]] = BL!AckReplication(@, b)]
           sends == ForwardIf(FirstTimeRegion(msg), msg, OtherReplicas(m))
                      \cup ForwardIf(FirstTimeReplica(msg), msg, OtherPartitions(m))
<1>1. msg.kind = "ack" /\ AdvanceLog(msg, local, logs, sends)
  BY Zenon DEF ProcessBatchReplicationAck
<1>2. b \in Batch /\ h \in Region
  BY <1>1, HandlerState, Zenon DEF Message
<1>3. logs = [single_home_logs[m] EXCEPT ![h] = logs[h]] /\ Tracks(logs[h], Ordered(h), emitted[m][h])
  <2>1. /\ MaxSlot \in Nat /\ NoBatch \notin Batch /\ DOMAIN single_home_logs[m] = Region
        /\ Ordered(h) \in Seq(Batch) /\ emitted[m][h] \in Seq(Batch)
        /\ Tracks(single_home_logs[m][h], Ordered(h), emitted[m][h])
    BY <1>2, HandlerState, Zenon
  <2>2. logs[h] = BL!AckReplication(single_home_logs[m][h], b)
    BY <1>2, <2>1, Zenon
  <2>3. logs = [single_home_logs[m] EXCEPT ![h] = logs[h]]
    BY <2>2, Zenon
  <2> DEFINE l == single_home_logs[m][h]
             O == Ordered(h)
             out == emitted[m][h]
  <2>4. Tracks(l, O, out) /\ O \in Seq(Batch) /\ out \in Seq(Batch)
    BY <2>1, Zenon
  <2>5. logs[h] = BL!AckReplication(l, b)
    BY <2>2, Zenon
  <2> HIDE DEF m, b, h, logs, l, O, out
  <2>6. Tracks(BL!AckReplication(l, b), O, out)
    BY <1>2, <2>1, <2>4, AckTracks, Zenon
  <2>7. Tracks(logs[h], O, out)
    BY <2>5, <2>6, Zenon
  <2> QED BY <2>3, <2>7, Zenon DEF O, out
<1>4. \A x \in sends : x \in Message /\ Says(x, order)
  <2>1. \A x \in ForwardIf(FirstTimeRegion(msg), msg, OtherReplicas(m)) : x \in Message /\ Says(x, order)
    BY ForwardedWithin
  <2>2. \A x \in ForwardIf(FirstTimeReplica(msg), msg, OtherPartitions(m)) : x \in Message /\ Says(x, order)
    BY ForwardedWithin
  <2> QED BY <2>1, <2>2
<1>5. LocalTracks(local, order[m[1]]) /\ local.ready = << >>
  BY HandlerState, Zenon
<1> HIDE DEF local, logs, sends
<1> QED
  BY <1>1, <1>2, <1>3, <1>4, <1>5, AdvanceStep, Zenon

-----------------------------------------------------------------------------
(* The inputs *)

\* SendBatches tells nobody anything of the order.
LEMMA SendStep ==
  ASSUME IInv, NEW g \in Machine, SendBatch(g)
  PROVE  IInv' /\ UNCHANGED SL!vars
<1> DEFINE b == <<g, sent[g]>>
           R == NumReplicas[g[1]]
           own == {Data(g, <<g[1], g[2], p>>, b, FALSE) : p \in Partition}
           replicas == {Data(g, <<g[1], rep, TargetPartition(rep, R, g[2], sent[g])>>, b, TRUE) :
                          rep \in (0 .. R - 1) \ {g[2]}}
           regions == {Data(g, <<r, 0, TargetPartition(r, NumRegions, g[1], sent[g])>>, b, TRUE) :
                         r \in Region \ {g[1]}}
<1>0. ConstantsOK /\ OrderOK /\ NetOK /\ LocalOK /\ LogsOK
  BY DEF IInv
<1>1. /\ sent[g] < Load[g]
      /\ sent' = [sent EXCEPT ![g] = @ + 1]
      /\ net' = net \cup own \cup replicas \cup regions
      /\ UNCHANGED <<local_log, single_home_logs, order, emitted>>
  BY Zenon DEF SendBatch
<1>2. /\ sent[g] \in Nat /\ b \in Batch /\ Load[g] \in Nat
      /\ \A x \in Machine : sent[x] \in Nat /\ Load[x] \in Nat /\ sent[x] <= Load[x]
  <2>0. /\ MaxSlot \in Nat /\ Load \in [Machine -> 0 .. MaxSlot]
        /\ sent \in [Machine -> Nat] /\ \A x \in Machine : sent[x] <= Load[x]
    BY <1>0, Zenon DEF ConstantsOK, OrderOK
  <2>1. \A x \in Machine : sent[x] \in Nat /\ Load[x] \in Nat /\ sent[x] <= Load[x]
    BY <2>0
  <2>2. Load[g] <= MaxSlot /\ MaxSlot \in Nat
    BY <2>0
  <2>3. sent[g] \in 0 .. MaxSlot - 1
    <3>1. sent[g] < Load[g] /\ sent[g] \in Nat /\ Load[g] \in Nat
      BY <1>1, <2>1, Zenon
    <3> QED BY <2>2, <3>1
  <2> QED BY <2>1, <2>3 DEF Batch
<1>3. \A x \in own \cup replicas \cup regions : x \in Message /\ Says(x, order)
  <2>1. /\ g[1] \in Region /\ R \in Nat \ {0} /\ g[2] \in 0 .. R - 1
        /\ \A rep \in 0 .. R - 1 : \A p \in Partition : <<g[1], rep, p>> \in Machine
        /\ \A r \in Region : \A p \in Partition : <<r, 0, p>> \in Machine
    <3>1. g[1] \in Region /\ \A r \in Region : \A p \in Partition : <<r, 0, p>> \in Machine
      BY <1>0, Machines
    <3>2. R \in Nat \ {0}
      BY <1>0, <3>1 DEF ConstantsOK
    <3>3. PICK r \in Region : g \in {r} \X (0 .. NumReplicas[r] - 1) \X Partition
      BY DEF Machine
    <3>4. g[1] = r /\ g[2] \in 0 .. R - 1
      BY <3>3
    <3>5. \A rep \in 0 .. R - 1 : \A p \in Partition :
            <<g[1], rep, p>> \in {g[1]} \X (0 .. NumReplicas[g[1]] - 1) \X Partition
      OBVIOUS
    <3>6. \A rep \in 0 .. R - 1 : \A p \in Partition : <<g[1], rep, p>> \in Machine
      BY <3>1, <3>5 DEF Machine
    <3> QED BY <3>1, <3>2, <3>4, <3>6
  <2>2. \A i, n, l \in Int : n > 0 => TargetPartition(i, n, l, sent[g]) \in Partition
    <3> SUFFICES ASSUME NEW i \in Int, NEW n \in Int, NEW l \in Int, n > 0
                 PROVE  TargetPartition(i, n, l, sent[g]) \in Partition
      OBVIOUS
    <3>1. (i + n - l) % n \in Int /\ sent[g] \in Int
      BY <1>2
    <3>2. \A x \in Int : x % NumPartitions \in Partition
      BY <1>0, Machines
    <3> QED BY <3>1, <3>2 DEF TargetPartition
  <2>3. \A d \in Machine : \A w \in BOOLEAN : Data(g, d, b, w) \in Message /\ Says(Data(g, d, b, w), order)
    <3> HIDE DEF b
    <3> QED BY <1>2, DataMessage
  <2>4. ASSUME NEW x \in own PROVE x \in Message /\ Says(x, order)
    <3>1. PICK p \in Partition : x = Data(g, <<g[1], g[2], p>>, b, FALSE)
      BY Zenon
    <3>2. <<g[1], g[2], p>> \in Machine /\ FALSE \in BOOLEAN
      BY <2>1
    <3> HIDE DEF b
    <3> QED BY <2>3, <3>1, <3>2, Zenon
  <2>5. ASSUME NEW x \in replicas PROVE x \in Message /\ Says(x, order)
    <3>1. PICK rep \in (0 .. R - 1) \ {g[2]} :
            x = Data(g, <<g[1], rep, TargetPartition(rep, R, g[2], sent[g])>>, b, TRUE)
      BY Zenon
    <3>2. TargetPartition(rep, R, g[2], sent[g]) \in Partition
      BY <2>1, <2>2
    <3>3. <<g[1], rep, TargetPartition(rep, R, g[2], sent[g])>> \in Machine /\ TRUE \in BOOLEAN
      BY <2>1, <3>2
    <3> HIDE DEF b
    <3> QED BY <2>3, <3>1, <3>3, Zenon
  <2>6. ASSUME NEW x \in regions PROVE x \in Message /\ Says(x, order)
    <3>1. PICK r \in Region \ {g[1]} :
            x = Data(g, <<r, 0, TargetPartition(r, NumRegions, g[1], sent[g])>>, b, TRUE)
      BY Zenon
    <3>2. TargetPartition(r, NumRegions, g[1], sent[g]) \in Partition
      <4>1. NumRegions \in Int /\ NumRegions > 0 /\ r \in Int /\ g[1] \in Int
        BY <1>0, <2>1 DEF ConstantsOK, Region
      <4> QED BY <2>2, <4>1
    <3>3. <<r, 0, TargetPartition(r, NumRegions, g[1], sent[g])>> \in Machine /\ TRUE \in BOOLEAN
      BY <2>1, <3>2
    <3> HIDE DEF b
    <3> QED BY <2>3, <3>1, <3>3, Zenon
  <2> QED BY <2>4, <2>5, <2>6, Zenon
<1> HIDE DEF own, replicas, regions
<1>4. NetOK'
  BY <1>0, <1>1, <1>3 DEF NetOK
<1>5. OrderOK'
  <2>1. \A x \in Machine : sent'[x] \in Nat /\ sent'[x] <= Load[x]
    BY <1>0, <1>1, <1>2 DEF OrderOK
  <2>2. sent' \in [Machine -> Nat]
    BY <1>0, <1>1, <1>2 DEF OrderOK
  <2> QED BY <1>0, <1>1, <2>1, <2>2, Zenon DEF OrderOK
<1>6. LocalOK'
  BY <1>0, <1>1 DEF LocalOK
<1>7. LogsOK'
  BY <1>0, <1>1 DEF LogsOK, Ordered
<1>8. UNCHANGED SL!vars
  BY <1>1, Zenon DEF SL!vars, Ordered
<1>9. ConstantsOK'
  BY <1>0
<1> QED
  BY <1>4, <1>5, <1>6, <1>7, <1>8, <1>9 DEF IInv

\* A commit appends one batch to the order of one region.
LEMMA CommitStep ==
  ASSUME IInv, NEW g \in Machine, Commit(g)
  PROVE  IInv' /\ SL!Next
<1> DEFINE r == g[1]
           q == order[r]
           b == <<g, Earlier(q, Len(q), g)>>
<1>0. ConstantsOK /\ OrderOK /\ NetOK /\ LocalOK /\ LogsOK
  BY DEF IInv
<1>1. /\ Earlier(q, Len(q), g) < sent[g]
      /\ order' = [order EXCEPT ![r] = Append(q, g)]
      /\ net' = net \cup {LocalOrder(m, Len(q), g) : m \in Learners(r)}
      /\ UNCHANGED <<local_log, single_home_logs, sent, emitted>>
  BY Zenon DEF Commit
<1>2. r \in Region /\ q \in Seq(Machine) /\ order \in [Region -> Seq(Machine)]
  BY <1>0, Machines DEF OrderOK
<1>3. b \in Batch /\ Home(b) = r
  <2>1. Len(q) \in Nat
    BY <1>2
  <2>2. Earlier(q, Len(q), g) \in Nat
    <3> DEFINE n == Len(q)
    <3>1. n \in Nat /\ n <= n
      BY <2>1
    <3> HIDE DEF q, n
    <3>2. Earlier(q, n, g) \in 0 .. n
      BY <3>1, EarlierParts, Zenon
    <3> QED BY <3>1, <3>2 DEF n
  <2>3. sent[g] \in Nat /\ sent[g] <= Load[g] /\ Load[g] \in 0 .. MaxSlot /\ MaxSlot \in Nat
    BY <1>0 DEF OrderOK, ConstantsOK
  <2>4. Earlier(q, Len(q), g) \in 0 .. MaxSlot - 1
    BY <1>1, <2>2, <2>3, SMTT(30)
  <2> HIDE DEF q
  <2> QED BY <2>4 DEF Batch, Home
<1>4. /\ Append(q, g) \in Seq(Machine) /\ Len(Append(q, g)) = Len(q) + 1 /\ Len(q) \in Nat
      /\ \A i \in 1 .. Len(q) : Append(q, g)[i] = q[i]
      /\ \A s \in 0 .. Len(q) - 1 : BatchOf(Append(q, g), s) = BatchOf(q, s)
      /\ BatchOf(Append(q, g), Len(q)) = b
  <2> HIDE DEF q
  <2> QED BY <1>2, BatchOfAppend
<1>5. /\ order' \in [Region -> Seq(Machine)] /\ order'[r] = Append(q, g)
      /\ \A h \in Region : h # r => order'[h] = order[h]
  BY <1>1, <1>2, <1>4, Zenon
<1> HIDE DEF q, b
<1>6. OrderOK'
  <2>1. ASSUME NEW h \in Region, NEW s \in 0 .. Len(order'[h]) - 1
        PROVE  BatchOf(order'[h], s) \in Batch /\ Home(BatchOf(order'[h], s)) = h
    <3>1. CASE h # r
      BY <1>0, <1>5, <3>1, Zenon DEF OrderOK
    <3>2. CASE h = r /\ s = Len(q)
      BY <1>3, <1>4, <1>5, <3>2, Zenon
    <3>3. CASE h = r /\ s # Len(q)
      <4>1. s \in 0 .. Len(q) - 1
        BY <1>4, <1>5, <3>3
      <4>2. BatchOf(q, s) \in Batch /\ Home(BatchOf(q, s)) = r
        BY <1>0, <1>2, <4>1, Zenon DEF OrderOK, q
      <4> QED BY <1>4, <1>5, <3>3, <4>1, <4>2, Zenon
    <3> QED BY <3>1, <3>2, <3>3, Zenon
  <2> QED BY <1>0, <1>1, <1>5, <2>1, Zenon DEF OrderOK
<1>7. /\ \A h \in Region : h # r => Ordered(h)' = Ordered(h)
      /\ Ordered(r)' = Append(Ordered(r), b) /\ Ordered(r) \in Seq(Batch)
  <2>1. \A h \in Region : h # r => Ordered(h)' = Ordered(h)
    BY <1>5 DEF Ordered
  <2>2. /\ Ordered(r) \in Seq(Batch) /\ Len(Ordered(r)) = Len(q)
        /\ \A s \in 0 .. Len(q) - 1 : Ordered(r)[s + 1] = BatchOf(q, s)
    BY <1>0, <1>2, OrderedBatches DEF q
  <2>3. Ordered(r)' = [i \in 1 .. Len(q) + 1 |-> BatchOf(Append(q, g), i - 1)]
    <3>1. Ordered(r)' = [i \in 1 .. Len(order'[r]) |-> <<order'[r][i], Earlier(order'[r], i - 1, order'[r][i])>>]
      BY DEF Ordered
    <3>2. \A i \in 1 .. Len(q) + 1 :
            BatchOf(Append(q, g), i - 1) = <<Append(q, g)[i], Earlier(Append(q, g), i - 1, Append(q, g)[i])>>
      <4>1. \A i \in 1 .. Len(q) + 1 : i - 1 + 1 = i
        BY <1>4
      <4> QED BY <4>1 DEF BatchOf
    <3> QED BY <1>4, <1>5, <3>1, <3>2, Zenon
  <2>4. \A i \in 1 .. Len(q) + 1 : BatchOf(Append(q, g), i - 1) = IF i = Len(q) + 1 THEN b ELSE Ordered(r)[i]
    <3>1. \A i \in 1 .. Len(q) : BatchOf(Append(q, g), i - 1) = Ordered(r)[i]
      <4> SUFFICES ASSUME NEW i \in 1 .. Len(q)
                   PROVE  BatchOf(Append(q, g), i - 1) = Ordered(r)[i]
        OBVIOUS
      <4>1. i - 1 \in 0 .. Len(q) - 1 /\ i - 1 + 1 = i
        BY <1>4
      <4> QED BY <1>4, <2>2, <4>1
    <3>2. Len(q) + 1 - 1 = Len(q)
      BY <1>4
    <3> QED BY <1>4, <3>1, <3>2, SMTT(30)
  <2>5. Append(Ordered(r), b) = [i \in 1 .. Len(q) + 1 |-> IF i = Len(q) + 1 THEN b ELSE Ordered(r)[i]]
    <3> DEFINE O == Ordered(r)
    <3>1. O \in Seq(Batch) /\ Len(O) = Len(q)
      BY <2>2
    <3> HIDE DEF O
    <3> QED BY <1>3, <1>4, <3>1 DEF O
  <2>6. Ordered(r)' = Append(Ordered(r), b)
    BY <2>3, <2>4, <2>5
  <2> QED BY <2>1, <2>2, <2>6
<1>8. NetOK'
  <2>1. ASSUME NEW msg \in net PROVE msg \in Message /\ Says(msg, order')
    <3>1. msg \in Message /\ Says(msg, order) /\ msg.to[1] \in Region
      BY HandlerState, Zenon
    <3>2. msg.kind = "local" => /\ msg.slot < Len(order'[msg.to[1]])
                                /\ msg.generator = order'[msg.to[1]][msg.slot + 1]
      <4> SUFFICES ASSUME msg.kind = "local"
                   PROVE  /\ msg.slot < Len(order'[msg.to[1]])
                          /\ msg.generator = order'[msg.to[1]][msg.slot + 1]
        OBVIOUS
      <4>1. /\ msg.slot \in Nat /\ msg.slot < Len(order[msg.to[1]])
            /\ msg.generator = order[msg.to[1]][msg.slot + 1]
        BY <3>1, Zenon DEF Says, Message
      <4>2. CASE msg.to[1] # r
        BY <1>5, <3>1, <4>1, <4>2, Zenon
      <4>3. CASE msg.to[1] = r
        <5>1. msg.slot + 1 \in 1 .. Len(q) /\ msg.generator = q[msg.slot + 1]
          BY <1>4, <4>1, <4>3 DEF q
        <5>2. Append(q, g)[msg.slot + 1] = q[msg.slot + 1]
          BY <1>4, <5>1, Zenon
        <5>3. msg.slot < Len(q) + 1
          BY <1>4, <4>1, <5>1
        <5> QED BY <1>4, <1>5, <4>3, <5>1, <5>2, <5>3, Zenon
      <4> QED BY <4>2, <4>3
    <3>3. msg.kind = "remote" => /\ msg.slot < Len(order'[Home(msg.batch)])
                                 /\ msg.batch = BatchOf(order'[Home(msg.batch)], msg.slot)
      <4> SUFFICES ASSUME msg.kind = "remote"
                   PROVE  /\ msg.slot < Len(order'[Home(msg.batch)])
                          /\ msg.batch = BatchOf(order'[Home(msg.batch)], msg.slot)
        OBVIOUS
      <4>1. msg.batch \in Batch /\ msg.slot \in Nat
        BY <3>1 DEF Message
      <4>2. Home(msg.batch) \in Region
        BY <1>0, <4>1, Machines
      <4>3. msg.slot < Len(order[Home(msg.batch)]) /\ msg.batch = BatchOf(order[Home(msg.batch)], msg.slot)
        BY <3>1 DEF Says
      <4>4. CASE Home(msg.batch) # r
        BY <1>5, <4>2, <4>3, <4>4
      <4>5. CASE Home(msg.batch) = r
        <5>1. msg.slot \in 0 .. Len(q) - 1 /\ msg.batch = BatchOf(q, msg.slot)
          BY <1>4, <4>1, <4>3, <4>5 DEF q
        <5>2. msg.slot < Len(q) + 1 /\ BatchOf(Append(q, g), msg.slot) = BatchOf(q, msg.slot)
          BY <1>4, <5>1
        <5> QED BY <1>4, <1>5, <4>5, <5>1, <5>2, Zenon
      <4> QED BY <4>4, <4>5
    <3> QED BY <3>1, <3>2, <3>3, Zenon DEF Says
  <2>2. ASSUME NEW m \in Learners(r)
        PROVE  LocalOrder(m, Len(q), g) \in Message /\ Says(LocalOrder(m, Len(q), g), order')
    <3> DEFINE x == LocalOrder(m, Len(q), g)
    <3>1. m \in Machine /\ m[1] = r
      BY <1>0, <1>2, Machines
    <3>2. x.kind = "local" /\ x.to = m /\ x.slot = Len(q) /\ x.generator = g
      BY DEF LocalOrder
    <3>3. x \in [kind : {"local"}, from : Machine, to : Machine, slot : Nat, generator : Machine]
      BY <1>4, <3>1 DEF LocalOrder
    <3>4. Len(q) < Len(order'[r]) /\ order'[r][Len(q) + 1] = g
      BY <1>2, <1>4, <1>5
    <3> HIDE DEF x
    <3> QED BY <3>1, <3>2, <3>3, <3>4, Zenon DEF Message, Says, x
  <2> QED BY <1>1, <2>1, <2>2, Zenon DEF NetOK
<1>9. LocalOK'
  <2>1. ASSUME NEW m \in Machine PROVE LocalTracks(local_log[m], order'[m[1]])
    <3>1. LocalTracks(local_log[m], order[m[1]]) /\ m[1] \in Region
      BY <1>0, Machines DEF LocalOK
    <3>2. CASE m[1] # r
      BY <1>5, <3>1, <3>2
    <3>3. CASE m[1] = r
      <4>1. LocalTracks(local_log[m], q)
        BY <3>1, <3>3 DEF q
      <4>2. LocalTracks(local_log[m], Append(q, g))
        BY <1>2, <4>1, LocalTracksMore
      <4> QED BY <1>5, <3>3, <4>2, Zenon
    <3> QED BY <3>2, <3>3
  <2> QED BY <1>0, <1>1, <2>1 DEF LocalOK
<1>10. LogsOK'
  <2>1. ASSUME NEW m \in Machine, NEW h \in Region
        PROVE  Tracks(single_home_logs[m][h], Ordered(h)', emitted[m][h])
    <3>1. Tracks(single_home_logs[m][h], Ordered(h), emitted[m][h]) /\ emitted[m][h] \in Seq(Batch)
      BY <1>0 DEF LogsOK
    <3>2. CASE h # r
      BY <1>7, <3>1, <3>2
    <3>3. CASE h = r
      <4>1. Tracks(single_home_logs[m][h], Append(Ordered(r), b), emitted[m][h])
        BY <1>3, <1>7, <3>1, <3>3, TracksMore, Zenon
      <4> QED BY <1>7, <3>3, <4>1, Zenon
    <3> QED BY <3>2, <3>3
  <2> QED BY <1>0, <1>1, <2>1 DEF LogsOK
<1>11. SL!Agree(r, b)
  <2>1. [h \in Region |-> Ordered(h)]' = [[h \in Region |-> Ordered(h)] EXCEPT ![r] = Append(@, b)]
    BY <1>2, <1>7, Zenon
  <2> QED BY <1>1, <2>1, Zenon DEF SL!Agree
<1>12. SL!Next
  BY <1>2, <1>3, <1>11 DEF SL!Next
<1>13. ConstantsOK'
  BY <1>0
<1> QED
  BY <1>6, <1>8, <1>9, <1>10, <1>12, <1>13 DEF IInv

-----------------------------------------------------------------------------
(* The theorems *)

\* The empty logs agree with the empty orders.
LEMMA InitIInv ==
  ASSUME ConstantsOK, Init
  PROVE  IInv /\ SL!Init
<1>1. /\ \A h \in Region : order[h] = << >> /\ Len(order[h]) = 0
      /\ order \in [Region -> Seq(Machine)]
  BY DEF Init
<1>2. OrderOK
  BY <1>1 DEF OrderOK, Init, ConstantsOK
<1>3. NetOK
  BY DEF NetOK, Init
<1>4. \A h \in Region : Ordered(h) = << >> /\ Len(Ordered(h)) = 0
  BY <1>1 DEF Ordered
<1>5. LocalOK
  <2> DEFINE l == LL!EmptyLocalLog
  <2>1. l \in LL!LocalLog /\ l.ready = << >> /\ l.next = 0
    BY DEF LL!EmptyLocalLog, LL!LocalLog, LL!Position, ConstantsOK
  <2>2. /\ \A s \in LL!Position : l.slots[s] = NoGenerator
        /\ \A x \in Machine : l.heads[x] = 0
    BY DEF LL!EmptyLocalLog
  <2>3. \A x : Earlier(<< >>, 0, x) = 0
    <3>1. \A x : {t \in 0 .. 0 - 1 : << >>[t + 1] = x} = {}
      OBVIOUS
    <3> QED BY <3>1, FS_EmptySet DEF Earlier
  <2>4. LocalTracks(l, << >>)
    <3> HIDE DEF l
    <3> QED BY <2>1, <2>2, <2>3 DEF LocalTracks
  <2>5. \A m \in Machine : m[1] \in Region
    BY Machines
  <2> HIDE DEF l
  <2> QED BY <1>1, <2>1, <2>4, <2>5, Zenon DEF LocalOK, Init, l
<1>6. LogsOK
  <2> DEFINE l == BL!EmptyLog
  <2>1. l \in BL!BatchLog /\ l.ready = << >> /\ l.next = 0
    BY DEF BL!EmptyLog, BL!BatchLog, BL!Slot, ConstantsOK
  <2>2. \A s \in BL!Slot : l.slots[s] = NoBatch
    BY DEF BL!EmptyLog
  <2>3. Tracks(l, << >>, << >>)
    <3> HIDE DEF l
    <3> QED BY <2>1, <2>2 DEF Tracks
  <2>4. << >> \in Seq(Batch)
    OBVIOUS
  <2> HIDE DEF l
  <2> QED BY <1>4, <2>1, <2>3, <2>4, Zenon DEF LogsOK, Init, l
<1>7. SL!Init
  BY <1>4 DEF SL!Init, Init
<1> QED
  BY <1>2, <1>3, <1>5, <1>6, <1>7 DEF IInv

\* Every step keeps the invariant, and is a step of the shared logs or changes
\* nothing they see.
LEMMA StepIInv ==
  ASSUME IInv, [Next]_vars
  PROVE  IInv' /\ [SL!Next]_(SL!vars)
<1>1. CASE UNCHANGED vars
  <2>1. IInv'
    BY <1>1, ZenonT(40) DEF IInv, vars, ConstantsOK, OrderOK, NetOK, LocalOK, LogsOK, Ordered
  <2>2. UNCHANGED SL!vars
    BY <1>1 DEF vars, SL!vars, Ordered
  <2> QED BY <2>1, <2>2
<1>2. ASSUME NEW g \in Machine, SendBatch(g) PROVE IInv' /\ [SL!Next]_(SL!vars)
  BY <1>2, SendStep
<1>3. ASSUME NEW g \in Machine, Commit(g) PROVE IInv' /\ [SL!Next]_(SL!vars)
  BY <1>3, CommitStep
<1>4. ASSUME NEW msg \in net, OnInternalRequestReceived(msg) PROVE IInv' /\ [SL!Next]_(SL!vars)
  BY <1>4, DataStep, LocalStep, RemoteStep, AckStep DEF OnInternalRequestReceived
<1> QED
  BY <1>1, <1>2, <1>3, <1>4 DEF Next

\* The log of every machine agrees with the order the Paxos of its home region
\* decided, and every message in flight says the truth about it: however data,
\* orders and acks overtake each other, AddSlot and AddBatchId only ever fill in
\* what was decided.
THEOREM Invariance == ConstantsOK /\ Spec => []IInv
<1>1. ConstantsOK /\ Init => IInv
  BY InitIInv
<1>2. IInv /\ [Next]_vars => IInv'
  BY StepIInv
<1> QED
  BY <1>1, <1>2, PTL DEF Spec

\* The logs and what was emitted keep their types.
THEOREM TypeCorrect == ConstantsOK /\ Spec => []TypeOK
<1>1. IInv => TypeOK
  <2> SUFFICES ASSUME IInv PROVE TypeOK
    OBVIOUS
  <2>1. /\ local_log = [m \in Machine |-> local_log[m]]
        /\ \A m \in Machine : local_log[m] \in LL!LocalLog
    BY DEF IInv, LocalOK, LocalTracks
  <2>2. local_log \in [Machine -> LL!LocalLog]
    BY <2>1
  <2>3. /\ single_home_logs = [m \in Machine |-> [h \in Region |-> single_home_logs[m][h]]]
        /\ \A m \in Machine, h \in Region :
             single_home_logs[m][h] \in BL!BatchLog /\ emitted[m][h] \in Seq(Batch)
    BY Zenon DEF IInv, LogsOK, Tracks
  <2>4. single_home_logs \in [Machine -> [Region -> BL!BatchLog]]
    BY <2>3
  <2> QED BY <2>2, <2>3, <2>4 DEF TypeOK
<1> QED
  BY <1>1, Invariance, PTL

\* The log managers of all machines implement one shared log per home region:
\* AdvanceLog gives the scheduler of every machine, in every region, a growing
\* prefix of one and the same order of batches.
THEOREM OneOrderEverywhere == ConstantsOK /\ Spec => ImplementsSharedLog
<1>1. ConstantsOK /\ Init => SL!Init
  BY InitIInv
<1>2. IInv /\ [Next]_vars => [SL!Next]_(SL!vars)
  BY StepIInv
<1> QED
  BY <1>1, <1>2, Invariance, PTL DEF Spec, ImplementsSharedLog, SL!Spec
=============================================================================
