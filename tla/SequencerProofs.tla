--------------------------- MODULE SequencerProofs ---------------------------
(***************************************************************************)
(* Theorems about Sequencer, for any transactions, timestamps and options: *)
(* no wake-up is lost between the two threads, and batching follows the    *)
(* timestamps.                                                             *)
(***************************************************************************)
EXTENDS Sequencer, FiniteSetTheorems, WellFoundedInduction, TLAPS

-----------------------------------------------------------------------------
(* The inductive invariant *)

Signal == [type : {"signal"}]

ForwardedTxn == [type : {"forward_txn"}, txn : Txn]

\* Types of what the theorems are about.
StateOK ==
  /\ now \in Nat
  /\ waiting \subseteq Txn /\ future_txns \subseteq Txn /\ IsFiniteSet(future_txns)
  /\ owes_signal \in BOOLEAN
  /\ inbox \in Seq(Signal \cup ForwardedTxn)
  /\ wake_up \in {NoTimer} \cup Nat
  /\ batched \in Seq(Txn)
  /\ seen \in [Txn -> SUBSET Txn]

\* The two ways into the batcher exclude each other.
OneWayIn ==
  IF options.synchronized_batching
    THEN \A i \in DOMAIN inbox : inbox[i].type = "signal"
    ELSE future_txns = {}

\* A transaction is waiting, buffered or batched.
Apart ==
  options.synchronized_batching => waiting \cap (future_txns \cup ToSet(batched)) = {}

\* What was batched before a buffered transaction, although it comes later, was
\* batched when the transaction arrived.
OvertakenEarlier ==
  \A t \in future_txns : \A u \in ToSet(batched) : Earlier(t, u) => u \in seen[t]

IInv ==
  /\ ConstantsOK
  /\ StateOK
  /\ OneWayIn
  /\ Apart
  /\ OvertakenEarlier
  /\ TimestampOrder
  /\ NoLostWakeup

-----------------------------------------------------------------------------
(* The order of the buffer *)

\* No transaction comes before another that comes before it.
LEMMA EarlierAsymmetric ==
  ASSUME ConstantsOK, NEW t \in Txn, NEW u \in Txn, Earlier(t, u)
  PROVE  ~Earlier(u, t)
<1>1. t \in Nat /\ u \in Nat /\ Timestamp[t] \in Nat /\ Timestamp[u] \in Nat
  BY DEF ConstantsOK
<1> QED
  BY <1>1 DEF Earlier

\* A set of natural numbers has a least number.
LEMMA Least ==
  ASSUME NEW S \in SUBSET Nat, S # {}
  PROVE  \E n \in S : \A m \in S : n <= m
<1>1. PICK n \in S : \A m \in S : <<m, n>> \notin OpToRel(<, Nat)
  BY NatLessThanWellFounded, WFMin
<1>2. \A m \in S : ~(m < n) /\ m \in Nat /\ n \in Nat
  BY <1>1, Zenon DEF OpToRel
<1> QED
  BY <1>2

\* The buffer has a first transaction: future_txns_.begin() is defined when the
\* buffer is not empty.
LEMMA EarliestExists ==
  ASSUME ConstantsOK, NEW S \in SUBSET Txn, S # {}
  PROVE  \E t \in S : \A u \in S : ~Earlier(u, t)
<1> DEFINE times == {Timestamp[t] : t \in S}
<1>1. \A t \in S : t \in Nat /\ Timestamp[t] \in Nat
  BY DEF ConstantsOK
<1>2. PICK n \in times : \A m \in times : n <= m
  <2>1. times \in SUBSET Nat /\ times # {}
    BY <1>1
  <2> HIDE DEF times
  <2> QED BY <2>1, Least
<1> DEFINE first == {t \in S : Timestamp[t] = n}
<1>3. PICK t \in first : \A u \in first : t <= u
  <2>1. first \in SUBSET Nat /\ first # {}
    BY <1>1, <1>2
  <2> HIDE DEF first
  <2> QED BY <2>1, Least
<1>4. ASSUME NEW u \in S PROVE ~Earlier(u, t)
  <2>1. Timestamp[t] = n /\ n <= Timestamp[u] /\ (Timestamp[u] = n => t <= u)
    BY <1>2, <1>3
  <2>2. t \in Nat /\ u \in Nat /\ n \in Nat /\ Timestamp[u] \in Nat
    BY <1>1, <1>2, <1>3
  <2> QED BY <2>1, <2>2 DEF Earlier
<1> QED
  BY <1>3, <1>4

-----------------------------------------------------------------------------
(* The batcher takes out what is due *)

\* The elements of two sequences put together.
LEMMA Joined ==
  ASSUME NEW S, NEW s \in Seq(S), NEW q \in Seq(S)
  PROVE  /\ s \o q \in Seq(S)
         /\ Len(s \o q) = Len(s) + Len(q) /\ Len(s) \in Nat /\ Len(q) \in Nat
         /\ \A i \in 1 .. Len(s) : (s \o q)[i] = s[i]
         /\ \A i \in 1 .. Len(q) : (s \o q)[Len(s) + i] = q[i]
         /\ ToSet(s \o q) = ToSet(s) \cup ToSet(q)
<1>1. /\ s \o q \in Seq(S)
      /\ Len(s \o q) = Len(s) + Len(q) /\ Len(s) \in Nat /\ Len(q) \in Nat
      /\ \A i \in 1 .. Len(s) : (s \o q)[i] = s[i]
      /\ \A i \in 1 .. Len(q) : (s \o q)[Len(s) + i] = q[i]
  OBVIOUS
<1>2. DOMAIN s = 1 .. Len(s) /\ DOMAIN q = 1 .. Len(q) /\ DOMAIN (s \o q) = 1 .. Len(s \o q)
  BY <1>1
<1> DEFINE a == Len(s)
           b == Len(q)
           sq == s \o q
<1>3. /\ a \in Nat /\ b \in Nat /\ DOMAIN s = 1 .. a /\ DOMAIN q = 1 .. b /\ DOMAIN sq = 1 .. a + b
      /\ \A i \in 1 .. a : sq[i] = s[i]
      /\ \A i \in 1 .. b : sq[a + i] = q[i]
  BY <1>1, <1>2
<1>4. ToSet(sq) = ToSet(s) \cup ToSet(q)
  <2> HIDE DEF a, b, sq
  <2>1. \A i \in 1 .. a + b : i \in 1 .. a \/ (i - a \in 1 .. b /\ a + (i - a) = i)
    BY <1>3
  <2>2. \A i \in 1 .. a : i \in 1 .. a + b
    BY <1>3
  <2>3. \A i \in 1 .. b : a + i \in 1 .. a + b
    BY <1>3
  <2>4. \A x \in ToSet(sq) : x \in ToSet(s) \cup ToSet(q)
    <3> SUFFICES ASSUME NEW i \in 1 .. a + b PROVE sq[i] \in ToSet(s) \cup ToSet(q)
      BY <1>3 DEF ToSet
    <3>1. CASE i \in 1 .. a
      BY <1>3, <3>1 DEF ToSet
    <3>2. CASE i - a \in 1 .. b /\ a + (i - a) = i
      <4>1. sq[i] = q[i - a]
        BY <1>3, <3>2
      <4> QED BY <1>3, <3>2, <4>1, Zenon DEF ToSet
    <3> QED BY <2>1, <3>1, <3>2
  <2>5. \A x \in ToSet(s) : x \in ToSet(sq)
    BY <1>3, <2>2 DEF ToSet
  <2>6. \A x \in ToSet(q) : x \in ToSet(sq)
    BY <1>3, <2>3, Zenon DEF ToSet
  <2> QED BY <2>4, <2>5, <2>6
<1> QED
  BY <1>1, <1>4

\* Batching a sequence of transactions appends it.
LEMMA Batched ==
  ASSUME NEW q, BatchTxns(q)
  PROVE  batched' = batched \o q
BY DEF BatchTxns

\* ProcessReadyFutureTxns keeps the order of the timestamps, and sets the timer
\* for whatever it leaves in the buffer.
LEMMA Processed ==
  ASSUME IInv, ProcessReadyFutureTxns, UNCHANGED <<options, now, waiting, seen>>
  PROVE  /\ future_txns' \subseteq future_txns /\ IsFiniteSet(future_txns')
         /\ wake_up' \in {NoTimer} \cup Nat
         /\ future_txns' # {} =>
              wake_up' # NoTimer /\ \A t \in future_txns' : wake_up' <= Timestamp[t] + 1
         /\ batched' \in Seq(Txn)
         /\ Apart' /\ OvertakenEarlier' /\ TimestampOrder'
<1> DEFINE ready == {t \in future_txns : Timestamp[t] <= now}
           later == future_txns \ ready
           earliest == CHOOSE t \in later : \A u \in later : ~Earlier(u, t)
<1>0. /\ ConstantsOK /\ StateOK /\ Apart /\ OvertakenEarlier /\ TimestampOrder
      /\ now \in Nat /\ batched \in Seq(Txn) /\ NoTimer \notin Nat
  BY DEF IInv, StateOK, ConstantsOK
<1>1. PICK q \in [1 .. Cardinality(ready) -> ready] : InOrder(q) /\ BatchTxns(q)
  BY Zenon DEF ProcessReadyFutureTxns
<1>2. future_txns' = later /\ wake_up' = IF later = {} THEN NoTimer ELSE Timestamp[earliest] + 1
  BY DEF ProcessReadyFutureTxns
<1>3. future_txns \subseteq Txn /\ \A t \in future_txns : t \in Txn /\ Timestamp[t] \in Nat
  BY <1>0 DEF StateOK, ConstantsOK
<1>4. later # {} => /\ earliest \in later /\ Timestamp[earliest] \in Nat
                    /\ \A u \in later : Timestamp[earliest] <= Timestamp[u]
  <2> SUFFICES ASSUME later # {}
               PROVE  /\ earliest \in later /\ Timestamp[earliest] \in Nat
                      /\ \A u \in later : Timestamp[earliest] <= Timestamp[u]
    BY Zenon
  <2>1. later \in SUBSET Txn /\ later \subseteq future_txns
    BY <1>3
  <2> HIDE DEF later
  <2>2. \E t \in later : \A u \in later : ~Earlier(u, t)
    BY <1>0, <2>1, EarliestExists
  <2>3. earliest \in later /\ \A u \in later : ~Earlier(u, earliest)
    BY <2>2
  <2> HIDE DEF earliest
  <2>4. Timestamp[earliest] \in Nat /\ \A u \in later : Timestamp[u] \in Nat
    BY <1>3, <2>1, <2>3
  <2>5. \A u \in later : ~(Timestamp[u] < Timestamp[earliest])
    BY <2>3 DEF Earlier
  <2> QED BY <2>3, <2>4, <2>5
<1>5. /\ wake_up' \in {NoTimer} \cup Nat
      /\ later # {} => wake_up' # NoTimer /\ \A t \in later : wake_up' <= Timestamp[t] + 1
  <2>1. CASE later = {}
    BY <1>2, <2>1
  <2>2. CASE later # {}
    <3> HIDE DEF earliest
    <3>1. wake_up' = Timestamp[earliest] + 1 /\ Timestamp[earliest] \in Nat
      BY <1>2, <1>4, <2>2
    <3>2. wake_up' \in Nat
      BY <3>1
    <3>3. \A t \in later : Timestamp[t] \in Nat /\ Timestamp[earliest] <= Timestamp[t]
      BY <1>3, <1>4, <2>2
    <3>4. \A t \in later : wake_up' <= Timestamp[t] + 1
      BY <3>1, <3>3
    <3> QED BY <1>0, <3>2, <3>4
  <2> QED BY <2>1, <2>2
<1>6. /\ q \in Seq(Txn) /\ DOMAIN q = 1 .. Len(q)
      /\ \A i \in 1 .. Len(q) : q[i] \in Txn /\ q[i] \in future_txns /\ Timestamp[q[i]] <= now
      /\ \A i, j \in 1 .. Len(q) : i < j => Earlier(q[i], q[j])
  <2> DEFINE n == Cardinality(ready)
  <2>1. q \in Seq(Txn) /\ DOMAIN q = 1 .. Len(q)
    <3>1. ready \subseteq Txn /\ q \in [1 .. n -> ready]
      BY <1>1, <1>3
    <3>2. n \in Nat
      <4>1. IsFiniteSet(future_txns) /\ ready \subseteq future_txns
        BY <1>0 DEF StateOK
      <4> HIDE DEF ready
      <4> QED BY <4>1, FS_Subset, FS_CardinalityType
    <3> HIDE DEF ready, n
    <3>3. q \in Seq(ready)
      BY <3>1, <3>2
    <3> QED BY <3>1, <3>3
  <2>2. \A i \in DOMAIN q : q[i] \in ready
    BY <1>1
  <2>3. \A i, j \in DOMAIN q : i < j => Earlier(q[i], q[j])
    BY <1>1 DEF InOrder
  <2> QED BY <1>3, <2>1, <2>2, <2>3

<1>7. future_txns' \subseteq future_txns /\ IsFiniteSet(future_txns')
  <2>1. IsFiniteSet(future_txns) /\ later \subseteq future_txns
    BY <1>0 DEF StateOK
  <2> HIDE DEF later
  <2> QED BY <1>2, <2>1, FS_Subset
<1>8. /\ batched' \in Seq(Txn)
      /\ Len(batched') = Len(batched) + Len(q) /\ Len(batched) \in Nat /\ Len(q) \in Nat
      /\ \A i \in 1 .. Len(batched) : batched'[i] = batched[i]
      /\ \A i \in 1 .. Len(q) : batched'[Len(batched) + i] = q[i]
      /\ ToSet(batched') = ToSet(batched) \cup ToSet(q)
  <2>1. batched' = batched \o q
    BY <1>1, Batched, Zenon
  <2> QED BY <1>0, <1>6, <2>1, Joined
<1>9. Apart'
  <2>1. ToSet(q) \subseteq future_txns
    BY <1>6 DEF ToSet
  <2> QED BY <1>0, <1>7, <1>8, <2>1 DEF Apart
<1>10. OvertakenEarlier'
  <2> SUFFICES ASSUME NEW t \in later, NEW u \in ToSet(batched) \cup ToSet(q), Earlier(t, u)
               PROVE  u \in seen[t]
    BY <1>2, <1>8 DEF OvertakenEarlier
  <2>1. CASE u \in ToSet(batched)
    BY <1>0, <2>1 DEF OvertakenEarlier
  <2>2. CASE u \in ToSet(q)
    <3>1. u \in future_txns /\ Timestamp[u] <= now
      BY <1>6, <2>2 DEF ToSet
    <3>2. Timestamp[t] \in Nat /\ ~(Timestamp[t] <= now) /\ Timestamp[u] \in Nat
      BY <1>3, <3>1
    <3>3. ~(Timestamp[t] < Timestamp[u]) /\ Timestamp[t] # Timestamp[u]
      BY <1>0, <3>1, <3>2
    <3> QED BY <3>3 DEF Earlier
  <2> QED BY <2>1, <2>2
<1>11. TimestampOrder'
  <2> DEFINE a == Len(batched)
             n == Len(q)
  <2>1. a \in Nat /\ n \in Nat /\ DOMAIN batched' = 1 .. a + n /\ DOMAIN batched = 1 .. a
    BY <1>0, <1>8
  <2>2. /\ \A i \in 1 .. a : batched'[i] = batched[i]
        /\ \A i \in 1 .. n : batched'[a + i] = q[i]
    BY <1>8
  <2>3. /\ \A i \in 1 .. n : q[i] \in Txn /\ q[i] \in future_txns
        /\ \A i, j \in 1 .. n : i < j => Earlier(q[i], q[j])
    BY <1>6
  <2> HIDE DEF a, n
  <2> SUFFICES ASSUME options.synchronized_batching, NEW i \in 1 .. a + n, NEW j \in 1 .. a + n,
                      i < j, Earlier(batched'[j], batched'[i])
               PROVE  batched'[i] \in seen[batched'[j]]
    BY <2>1 DEF TimestampOrder
  <2>4. CASE j \in 1 .. a
    <3>1. i \in 1 .. a
      BY <2>1, <2>4
    <3>2. batched'[i] = batched[i] /\ batched'[j] = batched[j]
      BY <2>2, <2>4, <3>1
    <3> QED BY <1>0, <2>1, <2>4, <3>1, <3>2 DEF TimestampOrder
  <2>5. CASE i \in 1 .. a /\ j \notin 1 .. a
    <3>1. PICK y \in 1 .. n : j = a + y
      <4>1. j - a \in 1 .. n /\ j = a + (j - a)
        BY <2>1, <2>5
      <4> QED BY <4>1
    <3>2. batched'[j] \in future_txns /\ batched'[i] = batched[i]
      BY <2>2, <2>3, <2>5, <3>1
    <3>3. batched[i] \in ToSet(batched)
      BY <2>1, <2>5, Zenon DEF ToSet
    <3> QED BY <1>0, <3>2, <3>3 DEF OvertakenEarlier
  <2>6. CASE i \notin 1 .. a
    <3>1. /\ i - a \in 1 .. n /\ i = a + (i - a) /\ j - a \in 1 .. n /\ j = a + (j - a)
          /\ i - a < j - a
      BY <2>1, <2>6
    <3>2. batched'[i] = q[i - a] /\ batched'[j] = q[j - a]
      BY <2>2, <3>1
    <3>3. Earlier(q[i - a], q[j - a]) /\ q[i - a] \in Txn /\ q[j - a] \in Txn
      BY <2>3, <3>1
    <3>4. ~Earlier(q[j - a], q[i - a])
      BY <1>0, <3>3, EarlierAsymmetric
    <3> QED BY <3>2, <3>4
  <2> QED BY <2>4, <2>5, <2>6
<1> QED
  BY <1>2, <1>5, <1>7, <1>8, <1>9, <1>10, <1>11, Zenon

-----------------------------------------------------------------------------
(* The steps *)

\* Nothing has happened yet.
LEMMA InitIInv ==
  ASSUME ConstantsOK, Init
  PROVE  IInv
<1>1. StateOK
  <2>1. IsFiniteSet(future_txns)
    BY FS_EmptySet DEF Init
  <2>2. owes_signal \in BOOLEAN
    BY Zenon DEF Init
  <2>3. \A S : << >> \in Seq(S)
    OBVIOUS
  <2>4. inbox \in Seq(Signal \cup ForwardedTxn) /\ batched \in Seq(Txn)
    BY <2>3, Zenon DEF Init
  <2>5. seen \in [Txn -> SUBSET Txn]
    BY DEF Init
  <2> QED BY <2>1, <2>2, <2>4, <2>5 DEF Init, StateOK
<1>2. ToSet(batched) = {} /\ DOMAIN batched = {} /\ DOMAIN inbox = {}
  BY DEF Init, ToSet
<1>3. OneWayIn /\ Apart /\ OvertakenEarlier
  BY <1>2 DEF Init, OneWayIn, Apart, OvertakenEarlier
<1>4. TimestampOrder /\ NoLostWakeup
  BY <1>2 DEF Init, TimestampOrder, NoLostWakeup
<1> QED
  BY <1>1, <1>3, <1>4 DEF IInv

\* What a step that touches no transaction keeps.
LEMMA OrderKept ==
  ASSUME IInv, UNCHANGED <<options, waiting, future_txns, batched, seen>>
  PROVE  Apart' /\ OvertakenEarlier' /\ TimestampOrder'
BY DEF IInv, Apart, OvertakenEarlier, TimestampOrder

\* The sequencer buffers a transaction, and owes a signal if it is now the
\* earliest; otherwise the wake-up to come is early enough for it too.
LEMMA BufferStep ==
  ASSUME IInv, NEW t \in Txn, BufferFutureTxn(t)
  PROVE  IInv'
<1>0. ConstantsOK /\ StateOK /\ OneWayIn /\ Apart /\ OvertakenEarlier /\ TimestampOrder /\ NoLostWakeup
  BY DEF IInv
<1>1. /\ options.synchronized_batching /\ t \in waiting
      /\ waiting' = waiting \ {t} /\ future_txns' = future_txns \cup {t}
      /\ owes_signal' = EarliestChanged(t)
      /\ seen' = [seen EXCEPT ![t] = ToSet(batched)]
      /\ UNCHANGED <<options, now, inbox, wake_up, batched>>
  BY DEF BufferFutureTxn, batchVars
<1>2. ToSet(batched) \subseteq Txn /\ \A i \in DOMAIN batched : batched[i] \in ToSet(batched)
  BY <1>0 DEF StateOK, ToSet
<1>3. StateOK'
  <2>1. IsFiniteSet(future_txns')
    BY <1>0, <1>1, FS_AddElement DEF StateOK
  <2>2. owes_signal' \in BOOLEAN
    BY <1>1, Zenon DEF EarliestChanged
  <2>3. seen' \in [Txn -> SUBSET Txn]
    BY <1>0, <1>1, <1>2 DEF StateOK
  <2> QED BY <1>0, <1>1, <2>1, <2>2, <2>3 DEF StateOK
<1>4. OneWayIn'
  BY <1>0, <1>1 DEF OneWayIn
<1>5. Apart'
  BY <1>0, <1>1 DEF Apart
<1>6. OvertakenEarlier'
  <2> SUFFICES ASSUME NEW x \in future_txns', NEW u \in ToSet(batched), Earlier(x, u)
               PROVE  u \in seen'[x]
    BY <1>1 DEF OvertakenEarlier
  <2>1. CASE x = t
    BY <1>0, <1>1, <2>1 DEF StateOK
  <2>2. CASE x # t
    BY <1>0, <1>1, <2>2 DEF StateOK, OvertakenEarlier
  <2> QED BY <2>1, <2>2
<1>7. TimestampOrder'
  <2>1. \A i \in DOMAIN batched : batched[i] \in Txn /\ batched[i] # t
    BY <1>0, <1>1, <1>2 DEF Apart
  <2>2. \A i \in DOMAIN batched : seen'[batched[i]] = seen[batched[i]]
    BY <1>0, <1>1, <2>1 DEF StateOK
  <2> QED BY <1>0, <1>1, <2>2 DEF TimestampOrder
<1>8. NoLostWakeup'
  <2>1. CASE EarliestChanged(t)
    BY <1>1, <2>1 DEF NoLostWakeup
  <2>2. CASE ~EarliestChanged(t)
    <3>1. PICK u \in future_txns : ~(Timestamp[t] < Timestamp[u])
      BY <2>2 DEF EarliestChanged
    <3>2. ~owes_signal /\ future_txns # {}
      BY <3>1 DEF BufferFutureTxn
    <3>3. CASE \E i \in DOMAIN inbox : inbox[i].type = "signal"
      BY <1>1, <3>3 DEF NoLostWakeup
    <3>4. CASE wake_up # NoTimer /\ \A x \in future_txns : wake_up <= Timestamp[x] + 1
      <4>1. /\ wake_up \in Nat /\ Timestamp[t] \in Nat /\ Timestamp[u] \in Nat
            /\ wake_up <= Timestamp[u] + 1 /\ ~(Timestamp[t] < Timestamp[u])
        BY <1>0, <3>1, <3>4 DEF StateOK, ConstantsOK
      <4>2. wake_up <= Timestamp[t] + 1
        BY <4>1
      <4> QED BY <1>1, <3>4, <4>2 DEF NoLostWakeup
    <3> QED BY <1>0, <3>2, <3>3, <3>4 DEF NoLostWakeup
  <2> QED BY <2>1, <2>2
<1> QED
  BY <1>0, <1>3, <1>4, <1>5, <1>6, <1>7, <1>8 DEF IInv

\* A message appended to the inbox takes none away.
LEMMA InboxAppended ==
  ASSUME NEW q \in Seq(Signal \cup ForwardedTxn), NEW msg \in Signal \cup ForwardedTxn
  PROVE  /\ Append(q, msg) \in Seq(Signal \cup ForwardedTxn)
         /\ DOMAIN Append(q, msg) = DOMAIN q \cup {Len(q) + 1}
         /\ \A i \in DOMAIN q : Append(q, msg)[i] = q[i]
         /\ Append(q, msg)[Len(q) + 1] = msg
<1> DEFINE S == Signal \cup ForwardedTxn
<1>1. q \in Seq(S) /\ msg \in S
  OBVIOUS
<1> HIDE DEF S
<1>2. /\ Append(q, msg) \in Seq(S) /\ Len(q) \in Nat /\ Len(Append(q, msg)) = Len(q) + 1
      /\ \A i \in 1 .. Len(q) : Append(q, msg)[i] = q[i]
      /\ Append(q, msg)[Len(q) + 1] = msg
      /\ DOMAIN q = 1 .. Len(q) /\ DOMAIN Append(q, msg) = 1 .. Len(q) + 1
  BY <1>1
<1>3. 1 .. Len(q) + 1 = 1 .. Len(q) \cup {Len(q) + 1}
  BY <1>2
<1> QED
  BY <1>2, <1>3 DEF S

\* The first message is taken from the inbox; the others stay.
LEMMA InboxTaken ==
  ASSUME NEW q \in Seq(Signal \cup ForwardedTxn), q # << >>
  PROVE  /\ Tail(q) \in Seq(Signal \cup ForwardedTxn) /\ Head(q) = q[1] /\ 1 \in DOMAIN q
         /\ Head(q) \in Signal \cup ForwardedTxn
         /\ \A i \in DOMAIN Tail(q) : i + 1 \in DOMAIN q /\ Tail(q)[i] = q[i + 1]
         /\ \A i \in DOMAIN q : i # 1 => i - 1 \in DOMAIN Tail(q) /\ Tail(q)[i - 1] = q[i]
<1> DEFINE S == Signal \cup ForwardedTxn
<1>1. q \in Seq(S)
  OBVIOUS
<1> HIDE DEF S
<1>2. /\ Tail(q) \in Seq(S) /\ Head(q) = q[1] /\ Len(q) \in Nat /\ Len(q) > 0 /\ Len(Tail(q)) = Len(q) - 1
      /\ \A i \in 1 .. Len(q) - 1 : Tail(q)[i] = q[i + 1]
      /\ DOMAIN q = 1 .. Len(q) /\ DOMAIN Tail(q) = 1 .. Len(q) - 1
  BY <1>1
<1>3. \A i \in 1 .. Len(q) : i # 1 => i - 1 \in 1 .. Len(q) - 1 /\ (i - 1) + 1 = i
  BY <1>2
<1>4. \A i \in 1 .. Len(q) - 1 : i + 1 \in 1 .. Len(q)
  BY <1>2
<1>5. 1 \in DOMAIN q /\ q[1] \in S
  BY <1>1, <1>2
<1> QED
  BY <1>2, <1>3, <1>4, <1>5 DEF S

\* The steps of the clock, of the signal, and of sending the batches.
LEMMA OtherStep ==
  ASSUME IInv, Tick \/ SendSignal \/ SendBatches \/ \E position \in delayed : SendDelayed(position)
  PROVE  IInv'
<1>0. ConstantsOK /\ StateOK /\ OneWayIn /\ NoLostWakeup
  BY DEF IInv
<1>1. UNCHANGED <<options, waiting, future_txns, wake_up, batched, seen>>
  BY DEF Tick, SendSignal, SendBatches, SendDelayed, batchVars
<1>2. Apart' /\ OvertakenEarlier' /\ TimestampOrder'
  BY <1>1, OrderKept
<1>3. now' \in Nat
  BY <1>0 DEF StateOK, Tick, SendSignal, SendBatches, SendDelayed
<1>4. CASE UNCHANGED <<inbox, owes_signal>>
  <2>1. StateOK' /\ OneWayIn' /\ NoLostWakeup'
    BY <1>0, <1>1, <1>3, <1>4 DEF StateOK, OneWayIn, NoLostWakeup
  <2> QED BY <1>0, <1>2, <2>1 DEF IInv
<1>5. CASE SendSignal
  <2> DEFINE msg == [type |-> "signal"]
  <2>1. owes_signal' = FALSE /\ inbox' = Append(inbox, msg)
    BY <1>5 DEF SendSignal
  <2>2. msg \in Signal /\ msg.type = "signal" /\ inbox \in Seq(Signal \cup ForwardedTxn)
    BY <1>0 DEF Signal, StateOK
  <2> HIDE DEF msg
  <2>3. /\ inbox' \in Seq(Signal \cup ForwardedTxn)
        /\ DOMAIN inbox' = DOMAIN inbox \cup {Len(inbox) + 1}
        /\ \A i \in DOMAIN inbox : inbox'[i] = inbox[i]
        /\ inbox'[Len(inbox) + 1] = msg
    BY <2>1, <2>2, InboxAppended
  <2>4. owes_signal' \in BOOLEAN
    BY <2>1, Zenon
  <2>5. StateOK'
    BY <1>0, <1>1, <1>3, <2>3, <2>4 DEF StateOK
  <2>6. OneWayIn'
    BY <1>0, <1>1, <2>2, <2>3 DEF OneWayIn
  <2>7. NoLostWakeup'
    BY <2>2, <2>3 DEF NoLostWakeup
  <2> QED BY <1>0, <1>2, <2>5, <2>6, <2>7 DEF IInv
<1> QED
  BY <1>4, <1>5 DEF Tick, SendBatches, SendDelayed

\* Without synchronized batching a transaction goes through the inbox.
LEMMA ForwardStep ==
  ASSUME IInv, NEW t \in Txn, ForwardTxn(t)
  PROVE  IInv'
<1> DEFINE msg == [type |-> "forward_txn", txn |-> t]
<1>0. ConstantsOK /\ StateOK /\ OneWayIn /\ Apart
  BY DEF IInv
<1>1. /\ ~options.synchronized_batching
      /\ waiting' = waiting \ {t} /\ inbox' = Append(inbox, msg)
      /\ UNCHANGED <<options, now, future_txns, owes_signal, wake_up, batched, seen>>
  BY DEF ForwardTxn, batchVars
<1>2. msg \in ForwardedTxn /\ inbox \in Seq(Signal \cup ForwardedTxn) /\ future_txns = {}
  BY <1>0, <1>1 DEF ForwardedTxn, StateOK, OneWayIn
<1> HIDE DEF msg
<1>3. inbox' \in Seq(Signal \cup ForwardedTxn)
  BY <1>1, <1>2, InboxAppended
<1>4. StateOK'
  BY <1>0, <1>1, <1>3 DEF StateOK
<1>5. OneWayIn' /\ Apart' /\ OvertakenEarlier' /\ TimestampOrder' /\ NoLostWakeup'
  BY <1>0, <1>1, <1>2 DEF OneWayIn, Apart, OvertakenEarlier, TimestampOrder, NoLostWakeup
<1> QED
  BY <1>0, <1>4, <1>5 DEF IInv

\* The batcher takes a forwarded transaction.
LEMMA OnForwardStep ==
  ASSUME IInv, OnForwardTxn
  PROVE  IInv'
<1> DEFINE t == Head(inbox).txn
<1>0. ConstantsOK /\ StateOK /\ OneWayIn /\ Apart
  BY DEF IInv
<1>1. /\ inbox # << >> /\ Head(inbox).type = "forward_txn" /\ inbox' = Tail(inbox)
      /\ BatchTxns(<<t>>)
      /\ UNCHANGED <<options, now, waiting, future_txns, owes_signal, wake_up, seen>>
  BY DEF OnForwardTxn
<1>2. inbox \in Seq(Signal \cup ForwardedTxn) /\ batched \in Seq(Txn)
  BY <1>0 DEF StateOK
<1>3. /\ inbox' \in Seq(Signal \cup ForwardedTxn) /\ Head(inbox) \in Signal \cup ForwardedTxn
      /\ Head(inbox) = inbox[1] /\ 1 \in DOMAIN inbox
  BY <1>1, <1>2, InboxTaken
<1>4. t \in Txn /\ ~options.synchronized_batching /\ future_txns = {}
  BY <1>0, <1>1, <1>3 DEF Signal, ForwardedTxn, OneWayIn
<1>5. batched' = batched \o <<t>> /\ <<t>> \in Seq(Txn)
  <2> DEFINE q == <<t>>
  <2>1. BatchTxns(q) /\ q \in Seq(Txn)
    BY <1>1, <1>4
  <2> HIDE DEF q
  <2>2. batched' = batched \o q
    BY <2>1, Batched
  <2> QED BY <2>1, <2>2 DEF q
<1> HIDE DEF t
<1>6. batched' \in Seq(Txn)
  BY <1>2, <1>5, Joined
<1>7. StateOK'
  BY <1>0, <1>1, <1>3, <1>6 DEF StateOK
<1>8. OneWayIn' /\ Apart' /\ OvertakenEarlier' /\ TimestampOrder' /\ NoLostWakeup'
  BY <1>1, <1>4 DEF OneWayIn, Apart, OvertakenEarlier, TimestampOrder, NoLostWakeup
<1> QED
  BY <1>0, <1>7, <1>8 DEF IInv

\* The batcher runs ProcessReadyFutureTxns, for a signal or because its timer
\* fired.
LEMMA ProcessStep ==
  ASSUME IInv, OnSignal \/ OnWakeUp
  PROVE  IInv'
<1>0. ConstantsOK /\ StateOK /\ OneWayIn
  BY DEF IInv
<1>1. ProcessReadyFutureTxns /\ UNCHANGED <<options, now, waiting, owes_signal, seen>>
  BY DEF OnSignal, OnWakeUp
<1>2. /\ future_txns' \subseteq future_txns /\ IsFiniteSet(future_txns')
      /\ wake_up' \in {NoTimer} \cup Nat
      /\ future_txns' # {} =>
           wake_up' # NoTimer /\ \A t \in future_txns' : wake_up' <= Timestamp[t] + 1
      /\ batched' \in Seq(Txn)
      /\ Apart' /\ OvertakenEarlier' /\ TimestampOrder'
  BY <1>1, Processed
<1>3. /\ inbox' \in Seq(Signal \cup ForwardedTxn)
      /\ (\A i \in DOMAIN inbox : inbox[i].type = "signal") =>
           \A i \in DOMAIN inbox' : inbox'[i].type = "signal"
  <2>1. inbox \in Seq(Signal \cup ForwardedTxn)
    BY <1>0 DEF StateOK
  <2>2. CASE OnSignal
    <3>1. inbox # << >> /\ inbox' = Tail(inbox)
      BY <2>2 DEF OnSignal
    <3>2. /\ Tail(inbox) \in Seq(Signal \cup ForwardedTxn)
          /\ \A i \in DOMAIN Tail(inbox) : i + 1 \in DOMAIN inbox /\ Tail(inbox)[i] = inbox[i + 1]
      BY <2>1, <3>1, InboxTaken
    <3> QED BY <3>1, <3>2, Zenon
  <2>3. CASE OnWakeUp
    BY <2>1, <2>3 DEF OnWakeUp
  <2> QED BY <2>2, <2>3
<1>4. StateOK'
  BY <1>0, <1>1, <1>2, <1>3 DEF StateOK
<1>5. OneWayIn'
  BY <1>0, <1>1, <1>2, <1>3 DEF OneWayIn
<1>6. NoLostWakeup'
  BY <1>2 DEF NoLostWakeup
<1> QED
  BY <1>0, <1>2, <1>4, <1>5, <1>6 DEF IInv

-----------------------------------------------------------------------------
(* The theorems *)

\* In every state of the two threads, with transactions arriving at any time:
\* the invariant of the buffer, the inbox and the timer.
THEOREM Invariance == ConstantsOK /\ Spec => []IInv
<1>1. ConstantsOK /\ Init => IInv
  BY InitIInv
<1>2. IInv /\ [Next]_vars => IInv'
  <2> SUFFICES ASSUME IInv, [Next]_vars PROVE IInv'
    OBVIOUS
  <2>1. CASE UNCHANGED vars
    <3>1. UNCHANGED <<options, now, waiting, future_txns, owes_signal, inbox, wake_up, batched, seen>>
      BY <2>1 DEF vars, batchVars
    <3>2. Apart' /\ OvertakenEarlier' /\ TimestampOrder'
      BY <3>1, OrderKept
    <3>3. StateOK' /\ OneWayIn' /\ NoLostWakeup'
      BY <3>1 DEF IInv, StateOK, OneWayIn, NoLostWakeup
    <3> QED BY <3>2, <3>3 DEF IInv
  <2>2. ASSUME NEW t \in Txn, BufferFutureTxn(t) \/ ForwardTxn(t) PROVE IInv'
    BY <2>2, BufferStep, ForwardStep
  <2>3. CASE OnForwardTxn
    BY <2>3, OnForwardStep
  <2>4. CASE OnSignal \/ OnWakeUp
    BY <2>4, ProcessStep
  <2>5. CASE Tick \/ SendSignal \/ SendBatches \/ \E position \in delayed : SendDelayed(position)
    BY <2>5, OtherStep
  <2> QED BY <2>1, <2>2, <2>3, <2>4, <2>5 DEF Next
<1> QED
  BY <1>1, <1>2, PTL DEF Spec

\* Batching follows the timestamps: ProcessReadyFutureTxns never puts a
\* transaction behind a later one unless that one had been batched when the
\* transaction arrived.
THEOREM BatchedByTimestamp == ConstantsOK /\ Spec => []TimestampOrder
<1>1. IInv => TimestampOrder
  BY DEF IInv
<1> QED
  BY <1>1, Invariance, PTL

\* The sequencer sends a signal only when the earliest transaction changed, and
\* does so after it left the buffer's mutex; still no buffered transaction is
\* left without a signal on its way or a timer that is early enough.
THEOREM BufferedIsWoken == ConstantsOK /\ Spec => []NoLostWakeup
<1>1. IInv => NoLostWakeup
  BY DEF IInv
<1> QED
  BY <1>1, Invariance, PTL
=============================================================================
