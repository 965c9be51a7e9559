------------------------ MODULE DDRLockManagerProofs ------------------------
(***************************************************************************)
(* The lock manager without its resolver grants conflicting locks in the   *)
(* order of the requests, for every set of transactions, locks and         *)
(* regions.                                                                *)
(***************************************************************************)
EXTENDS DDRLockManager, FiniteSetTheorems, TLAPS

\* Pairing a fixed element with the members of a finite set keeps its size.
LEMMA PairCardinality ==
  ASSUME NEW x, NEW S, IsFiniteSet(S)
  PROVE  /\ IsFiniteSet({<<x, i>> : i \in S})
         /\ Cardinality({<<x, i>> : i \in S}) = Cardinality(S)
<1> DEFINE T == {<<x, i>> : i \in S}
           f == [i \in S |-> <<x, i>>]
<1>1. f \in Bijection(S, T)
  BY Zenon DEF Bijection, Injection, Surjection, IsInjective
<1>2. ExistsBijection(S, T)
  BY <1>1 DEF ExistsBijection
<1> QED
  BY <1>2, FS_Bijection

\* Giving each member of a finite set one second component keeps its size.
LEMMA GraphCardinality ==
  ASSUME NEW S, IsFiniteSet(S), NEW g
  PROVE  /\ IsFiniteSet({<<b, g[b]>> : b \in S})
         /\ Cardinality({<<b, g[b]>> : b \in S}) = Cardinality(S)
<1> DEFINE T == {<<b, g[b]>> : b \in S}
           f == [b \in S |-> <<b, g[b]>>]
<1>1. f \in Bijection(S, T)
  BY Zenon DEF Bijection, Injection, Surjection, IsInjective
<1>2. ExistsBijection(S, T)
  BY <1>1 DEF ExistsBijection
<1> QED
  BY <1>2, FS_Bijection

\* The sizes of disjoint finite sets add up.
LEMMA DisjointUnion ==
  ASSUME NEW S, IsFiniteSet(S), NEW T, IsFiniteSet(T), S \cap T = {}
  PROVE  /\ IsFiniteSet(S \cup T)
         /\ Cardinality(S \cup T) = Cardinality(S) + Cardinality(T)
<1>1. Cardinality(S \cap T) = 0
  BY FS_EmptySet
<1>2. Cardinality(S) \in Nat /\ Cardinality(T) \in Nat
  BY FS_CardinalityType
<1>3. /\ IsFiniteSet(S \cup T)
      /\ Cardinality(S \cup T) = Cardinality(S) + Cardinality(T) - Cardinality(S \cap T)
  BY FS_Union, Zenon
<1> QED
  BY <1>1, <1>2, <1>3

\* The indices of a list grown by one entry.
LEMMA IntervalExtend ==
  ASSUME NEW n \in Nat
  PROVE  1 .. n + 1 = (1 .. n) \cup {n + 1}
OBVIOUS

\* A list position belongs to the edges of u exactly when a live transaction
\* lists u there.
LEMMA EdgeMember ==
  ASSUME NEW L, NEW W, NEW u, NEW b, NEW i
  PROVE  <<b, i>> \in Edges(L, W, u) <=> b \in L /\ i \in Slots(W[b], u)
BY DEF Edges

\* The members of Edges are pairs.
LEMMA EdgePair ==
  ASSUME NEW L, NEW W, NEW u, NEW e \in Edges(L, W, u)
  PROVE  \E b \in L : \E i \in Slots(W[b], u) : e = <<b, i>>
BY DEF Edges

\* The keys of a transaction form a finite set.
LEMMA KeysFinite ==
  ASSUME NEW t \in Txn
  PROVE  /\ Keys(t) \subseteq KeyRegion
         /\ IsFiniteSet(Keys(t))
<1>1. Keys(t) \subseteq KeyRegion
  BY LockAssumption DEF Keys
<1> QED
  BY <1>1, LockAssumption, FS_Subset

-----------------------------------------------------------------------------
(* Initial states *)

\* The empty lock table satisfies the invariant.
LEMMA InitIInv == Init => IInv
<1> SUFFICES ASSUME Init PROVE IInv
  OBVIOUS
<1>1. TypeOK
  <2>1. waited_by \in [Txn -> Seq(Txn \cup {kSentinelTxnId})]
    BY DEF Init, InitWaitedBy
  <2>2. unarrived \in [Txn -> Nat]
    BY KeysFinite, FS_CardinalityType DEF Init
  <2> QED
    BY <2>1, <2>2 DEF Init, TypeOK, LockQueueTail, EmptyTail
<1>2. ArrivalInv
  <2>1. \A t \in Txn : {k \in Keys(t) : <<t, Home[k]>> \notin arrived} = Keys(t)
    BY DEF Init
  <2>2. \A k \in KeyRegion, t \in Txn : when[k][t] = 0
    BY DEF Init
  <2>3. \A t \in Txn : unarrived[t] = Cardinality({k \in Keys(t) : <<t, Home[k]>> \notin arrived})
    BY <2>1 DEF Init
  <2> QED
    BY <2>2, <2>3 DEF Init, ArrivalInv
<1>3. TailInv
  BY TxnAssumption DEF Init, TailInv, EmptyTail, kSentinelTxnId
<1>4. CountInv
  <2>1. \A t \in Txn : Edges(live, waited_by, t) = {}
    BY DEF Init, Edges
  <2> QED
    BY <2>1, FS_EmptySet, Zenon DEF Init, CountInv, WaitCountExact
<1>5. OrderInv
  BY DEF Init, OrderInv, Blocks
<1> QED
  BY <1>1, <1>2, <1>3, <1>4, <1>5 DEF IInv

-----------------------------------------------------------------------------
(* Consequences of the invariant *)

\* A transaction some live transaction promises to wake has a positive counter.
LEMMA WaitingNotReady ==
  ASSUME IInv, NEW t \in Txn, NEW v \in Txn, Waits(t, v)
  PROVE  num_waiting_for[t] > 0
<1>1. PICK i : i \in Slots(waited_by[v], t)
  BY DEF Waits
<1>2. <<v, i>> \in Edges(live, waited_by, t)
  BY <1>1, EdgeMember DEF Waits
<1>3. IsFiniteSet(Edges(live, waited_by, t))
  BY DEF IInv, CountInv
<1>4. Cardinality(Edges(live, waited_by, t)) # 0
  BY <1>2, <1>3, FS_EmptySet
<1>5. Cardinality(Edges(live, waited_by, t)) \in Nat
  BY <1>3, FS_CardinalityType
<1> QED
  BY <1>4, <1>5 DEF IInv, CountInv, WaitCountExact

\* A blocked transaction is in txn_info_ and not ready.
LEMMA BlockedNotReady ==
  ASSUME IInv, NEW k \in KeyRegion, NEW t \in Txn, NEW u \in Txn, Blocks(u, t, k)
  PROVE  t \in live /\ ~IsReady(t)
<1>1. PICK v \in Txn : Waits(t, v)
  BY DEF IInv, OrderInv
<1>2. t \in live
  BY DEF IInv, OrderInv
<1> QED
  BY <1>1, <1>2, WaitingNotReady DEF IsReady

\* A transaction with nothing unarrived has requested each of its keys.
LEMMA AllRequested ==
  ASSUME IInv, NEW t \in Txn, unarrived[t] = 0, NEW k \in Keys(t)
  PROVE  <<t, Home[k]>> \in arrived
<1> DEFINE S == {x \in Keys(t) : <<t, Home[x]>> \notin arrived}
<1>1. IsFiniteSet(S)
  BY KeysFinite, FS_Subset, Zenon
<1>2. Cardinality(S) = 0
  BY DEF IInv, ArrivalInv
<1>3. S = {}
  BY <1>1, <1>2, FS_EmptySet
<1> QED
  BY <1>3

\* The invariant implies that locks are granted in request order.
LEMMA IInvImpliesGrantOrder == IInv => GrantOrder
BY BlockedNotReady DEF GrantOrder, Blocks

\* The invariant implies that no two ready transactions conflict: both have
\* requested the lock, so the later one is blocked.
LEMMA IInvImpliesMutualExclusion == IInv => MutualExclusion
<1> SUFFICES ASSUME IInv, NEW t \in live, NEW u \in live, IsReady(t), IsReady(u), t # u,
                    NEW k \in KeyRegion, Conflict(t, u, k)
             PROVE  FALSE
  BY DEF MutualExclusion
<1>1. t \in Txn /\ u \in Txn
  BY DEF IInv, TypeOK
<1>2. when[k][t] > 0 /\ when[k][u] > 0
  BY <1>1, AllRequested, Zenon DEF IInv, ArrivalInv, IsReady, Conflict
<1>3. when[k][t] \in Nat /\ when[k][u] \in Nat /\ when[k][t] # when[k][u]
  <2>1. when[k][t] \in Nat /\ when[k][u] \in Nat
    BY <1>1 DEF IInv, TypeOK
  <2>2. when[k][t] = when[k][u] /\ when[k][t] > 0 => t = u
    BY <1>1, Zenon DEF IInv, ArrivalInv
  <2> QED
    BY <1>2, <2>1, <2>2
<1>4. CASE when[k][u] < when[k][t]
  <2>1. Blocks(u, t, k)
    BY <1>2, <1>3, <1>4 DEF Blocks, Before
  <2> QED
    BY <1>1, <2>1, BlockedNotReady
<1>5. CASE when[k][t] < when[k][u]
  <2>1. Blocks(t, u, k)
    BY <1>2, <1>3, <1>5 DEF Blocks, Before, Conflict
  <2> QED
    BY <1>1, <2>1, BlockedNotReady
<1> QED
  BY <1>3, <1>4, <1>5

-----------------------------------------------------------------------------
(* AcquireLocks *)

\* A new request is for locks the transaction has not asked for, and the first
\* request of a transaction finds it without any.
LEMMA AcquireFresh ==
  ASSUME IInv, NEW t \in Txn, NEW h \in Region,
         <<t, h>> \notin arrived, RelevantKeys(t, h) # {}
  PROVE  /\ RelevantKeys(t, h) \subseteq KeyRegion
         /\ \A k \in RelevantKeys(t, h) : when[k][t] = 0
         /\ t \notin live => \A k \in KeyRegion : when[k][t] = 0
<1>1. RelevantKeys(t, h) \subseteq KeyRegion
  BY KeysFinite DEF RelevantKeys
<1>2. when \in [KeyRegion -> [Txn -> Nat]]
  BY DEF IInv, TypeOK
<1>3. \A k \in RelevantKeys(t, h) : when[k][t] = 0
  <2> SUFFICES ASSUME NEW k \in RelevantKeys(t, h) PROVE when[k][t] = 0
    OBVIOUS
  <2>1. Home[k] = h
    BY DEF RelevantKeys
  <2>2. ~(when[k][t] > 0)
    BY <1>1, <2>1 DEF IInv, ArrivalInv
  <2>3. when[k][t] \in Nat
    BY <1>1, <1>2
  <2> QED
    BY <2>2, <2>3
<1>4. ASSUME t \notin live, NEW k \in KeyRegion
      PROVE  when[k][t] = 0
  <2>1. PICK x \in RelevantKeys(t, h) : TRUE
    OBVIOUS
  <2>2. x \in Keys(t) /\ Home[x] = h
    BY DEF RelevantKeys
  <2>3. unarrived[t] # 0
    BY <2>2, AllRequested
  <2>4. ~(when[k][t] > 0)
    BY <1>4, <2>3 DEF IInv, ArrivalInv
  <2>5. when[k][t] \in Nat
    BY <1>2
  <2> QED
    BY <2>4, <2>5
<1> QED
  BY <1>1, <1>3, <1>4

\* What AcquireLocks does to the history.
LEMMA AcquireWhen ==
  ASSUME IInv, NEW t \in Txn, NEW h \in Region, AcquireLocks(t, h),
         NEW k \in KeyRegion, NEW u \in Txn
  PROVE  when'[k][u] = IF u = t /\ k \in RelevantKeys(t, h) THEN clock + 1 ELSE when[k][u]
BY DEF AcquireLocks, IInv, TypeOK

\* AcquireLocks stamps the relevant keys and takes them off unarrived.
LEMMA AcquireArrivalInv ==
  ASSUME IInv, NEW t \in Txn, NEW h \in Region, AcquireLocks(t, h)
  PROVE  ArrivalInv'
<1> DEFINE K == RelevantKeys(t, h)
           Missing(u) == {k \in Keys(u) : <<u, Home[k]>> \notin arrived}
<1>1. /\ <<t, h>> \notin arrived
      /\ K # {}
      /\ live' = live \cup {t}
      /\ unarrived' = [unarrived EXCEPT ![t] = @ - Cardinality(K)]
      /\ arrived' = arrived \cup {<<t, h>>}
      /\ clock' = clock + 1
  BY DEF AcquireLocks
<1>2. when \in [KeyRegion -> [Txn -> Nat]] /\ clock \in Nat
  BY DEF IInv, TypeOK
<1>3. ASSUME NEW k \in KeyRegion, NEW u \in Txn
      PROVE  /\ when'[k][u] > 0 <=> k \in Keys(u) /\ <<u, Home[k]>> \in arrived'
             /\ when'[k][u] <= clock'
             /\ \A v \in Txn : when'[k][u] = when'[k][v] /\ when'[k][u] > 0 => u = v
  <2>1. /\ when[k][u] > 0 <=> k \in Keys(u) /\ <<u, Home[k]>> \in arrived
        /\ \A v \in Txn : when[k][v] <= clock
        /\ \A v \in Txn : when[k][u] = when[k][v] /\ when[k][u] > 0 => u = v
    BY Zenon DEF IInv, ArrivalInv
  <2>a. \A v \in Txn : when[k][v] \in Nat
    BY <1>2
  <2>2. \A v \in Txn : when'[k][v] = IF v = t /\ k \in K THEN clock + 1 ELSE when[k][v]
    BY AcquireWhen
  <2>3. k \in K <=> k \in Keys(t) /\ Home[k] = h
    BY DEF RelevantKeys
  <2>4. when'[k][u] > 0 <=> k \in Keys(u) /\ <<u, Home[k]>> \in arrived'
    BY <1>1, <1>2, <2>1, <2>a, <2>2, <2>3
  <2>5. when'[k][u] <= clock'
    BY <1>1, <1>2, <2>1, <2>a, <2>2
  <2>6. \A v \in Txn : when'[k][u] = when'[k][v] /\ when'[k][u] > 0 => u = v
    BY <1>2, <2>1, <2>a, <2>2
  <2> QED
    BY <2>4, <2>5, <2>6
<1>4. ASSUME NEW u \in Txn
      PROVE  unarrived'[u] = Cardinality({k \in Keys(u) : <<u, Home[k]>> \notin arrived'})
  <2>1. unarrived \in [Txn -> Nat] /\ unarrived[u] = Cardinality(Missing(u))
    BY Zenon DEF IInv, TypeOK, ArrivalInv
  <2>2. CASE u # t
    <3>1. Missing(u) = {k \in Keys(u) : <<u, Home[k]>> \notin arrived'}
      BY <1>1, <2>2
    <3> QED
      BY <1>1, <2>1, <2>2, <3>1, Zenon
  <2>3. CASE u = t
    <3>1. {k \in Keys(u) : <<u, Home[k]>> \notin arrived'} = Missing(u) \ K
      BY <1>1, <2>3 DEF RelevantKeys
    <3>2. Missing(u) \cap K = K
      BY <1>1, <2>3 DEF RelevantKeys
    <3>3. IsFiniteSet(Missing(u))
      BY KeysFinite, FS_Subset, Zenon
    <3>4. Cardinality(Missing(u) \ K) = Cardinality(Missing(u)) - Cardinality(K)
      BY <3>2, <3>3, FS_Difference, Zenon
    <3> QED
      BY <1>1, <2>1, <2>3, <3>1, <3>4, Zenon
  <2> QED
    BY <2>2, <2>3
<1>5. ASSUME NEW u \in Txn \ live', NEW k \in KeyRegion, when'[k][u] > 0
      PROVE  unarrived'[u] = 0
  <2>1. u \in Txn \ live /\ u # t
    BY <1>1, <1>5
  <2>2. when[k][u] > 0
    BY <1>5, <2>1, AcquireWhen
  <2>3. unarrived[u] = 0
    BY <2>1, <2>2 DEF IInv, ArrivalInv
  <2> QED
    BY <1>1, <2>1, <2>3 DEF IInv, TypeOK
<1> QED
  BY <1>3, <1>4, <1>5 DEF ArrivalInv

\* AcquireLocks makes the requester the tail of each queue it joins.
LEMMA AcquireTailInv ==
  ASSUME IInv, NEW t \in Txn, NEW h \in Region, AcquireLocks(t, h)
  PROVE  TailInv'
<1> DEFINE K == RelevantKeys(t, h)
           W(k) == lock_table[k].writer
<1>1. lock_table' = Enqueue(lock_table, t, K)
  BY DEF AcquireLocks
<1>2. TypeOK /\ clock \in Nat /\ K \subseteq Keys(t)
  BY DEF IInv, TypeOK, RelevantKeys
<1>3. \A x \in Txn : x # kSentinelTxnId
  BY TxnAssumption DEF kSentinelTxnId
<1> SUFFICES ASSUME NEW k \in KeyRegion
             PROVE  LET w == lock_table'[k].writer
                    IN  /\ w \in Txn => k \in Writes[w] /\ when'[k][w] > 0
                        /\ \A u \in Txn : k \in Writes[u] /\ when'[k][u] > 0 =>
                             w \in Txn /\ when'[k][u] <= when'[k][w]
                        /\ \A r \in Txn : r \in lock_table'[k].readers <=>
                             k \in Reads[r] /\ when'[k][r] > 0
                               /\ (w \in Txn => when'[k][r] > when'[k][w])
  BY DEF TailInv
<1>4. /\ W(k) \in Txn => k \in Writes[W(k)] /\ when[k][W(k)] > 0
      /\ \A u \in Txn : k \in Writes[u] /\ when[k][u] > 0 =>
           W(k) \in Txn /\ when[k][u] <= when[k][W(k)]
      /\ \A r \in Txn : r \in lock_table[k].readers <=>
           k \in Reads[r] /\ when[k][r] > 0 /\ (W(k) \in Txn => when[k][r] > when[k][W(k)])
  BY DEF IInv, TailInv
<1>5. \A v \in Txn : when'[k][v] = IF v = t /\ k \in K THEN clock + 1 ELSE when[k][v]
  BY AcquireWhen
<1>6. \A v \in Txn : when[k][v] \in Nat
  BY <1>2 DEF TypeOK
<1>7. \A v \in Txn : when[k][v] <= clock
  BY Zenon DEF IInv, ArrivalInv
<1>8. lock_table[k].readers \subseteq Txn
  BY <1>2 DEF TypeOK, LockQueueTail
<1>9. CASE k \notin K
  <2>1. lock_table'[k] = lock_table[k]
    BY <1>1, <1>9 DEF Enqueue
  <2>2. \A v \in Txn : when'[k][v] = when[k][v]
    BY <1>5, <1>9
  <2> QED
    BY <1>4, <2>1, <2>2
<1>10. CASE k \in K /\ k \in Writes[t]
  <2>1. lock_table'[k].writer = t /\ lock_table'[k].readers = {}
    BY <1>1, <1>10 DEF Enqueue, AcquireWriteLock
  <2>2. when'[k][t] = clock + 1
    BY <1>5, <1>10
  <2>3. \A v \in Txn : when'[k][v] <= clock + 1
    BY <1>2, <1>5, <1>6, <1>7
  <2>4. \A r \in Txn : ~(when'[k][r] > when'[k][t])
    BY <1>2, <1>5, <1>6, <1>7, <2>2
  <2> QED
    BY <1>2, <1>10, <2>1, <2>2, <2>3, <2>4
<1>11. CASE k \in K /\ k \notin Writes[t]
  <2>1. /\ lock_table'[k].writer = W(k)
        /\ lock_table'[k].readers = lock_table[k].readers \cup {t}
    BY <1>1, <1>2, <1>11 DEF Enqueue, AcquireReadLock, TypeOK, LockQueueTail
  <2>2. k \in Reads[t]
    BY <1>2, <1>11 DEF Keys
  <2>3. \A v \in Txn : k \in Writes[v] => when'[k][v] = when[k][v]
    BY <1>5, <1>11
  <2>4. W(k) \in Txn => when'[k][W(k)] = when[k][W(k)] /\ when[k][W(k)] <= clock
    BY <1>4, <1>7, <2>3
  <2>5. when'[k][t] = clock + 1
    BY <1>5, <1>11
  <2>6. \A r \in Txn : r # t => when'[k][r] = when[k][r]
    BY <1>5
  <2>7. W(k) \in Txn => when'[k][t] > when'[k][W(k)]
    BY <1>2, <1>6, <2>4, <2>5
  <2>8. \A r \in Txn : r \in lock_table'[k].readers <=>
           k \in Reads[r] /\ when'[k][r] > 0 /\ (W(k) \in Txn => when'[k][r] > when'[k][W(k)])
    <3> SUFFICES ASSUME NEW r \in Txn
                 PROVE  r \in lock_table'[k].readers <=>
                          k \in Reads[r] /\ when'[k][r] > 0
                            /\ (W(k) \in Txn => when'[k][r] > when'[k][W(k)])
      OBVIOUS
    <3>1. CASE r = t
      BY <1>2, <2>1, <2>2, <2>5, <2>7, <3>1
    <3>2. CASE r # t
      BY <1>4, <2>1, <2>4, <2>6, <3>2
    <3> QED
      BY <3>1, <3>2
  <2> QED
    BY <1>4, <2>1, <2>3, <2>4, <2>8
<1> QED
  BY <1>9, <1>10, <1>11

\* AcquireLocks adds one entry, at the end, to the list of each live blocker.
LEMMA AcquireSlots ==
  ASSUME IInv, NEW t \in Txn, NEW h \in Region, AcquireLocks(t, h),
         NEW b \in Txn, NEW u \in Txn
  PROVE  LET new == b \in LiveBlockers(t, RelevantKeys(t, h)) /\ u = t
         IN  /\ new => Slots(waited_by'[b], u) = Slots(waited_by[b], u) \cup {Len(waited_by[b]) + 1}
             /\ ~new => Slots(waited_by'[b], u) = Slots(waited_by[b], u)
<1> DEFINE B == LiveBlockers(t, RelevantKeys(t, h))
           L == waited_by[b]
<1>1. waited_by' = AppendWaiter(waited_by, B, t)
  BY DEF AcquireLocks
<1>2. L \in Seq(Txn \cup {kSentinelTxnId}) /\ Len(L) \in Nat /\ DOMAIN L = 1 .. Len(L)
  BY DEF IInv, TypeOK
<1>3. CASE b \notin B
  BY <1>1, <1>3 DEF AppendWaiter
<1>4. CASE b \in B
  <2>1. waited_by'[b] = Append(L, t)
    BY <1>1, <1>4 DEF AppendWaiter
  <2>2. DOMAIN waited_by'[b] = 1 .. Len(L) + 1
    BY <1>2, <2>1
  <2>3. \A i \in 1 .. Len(L) : waited_by'[b][i] = L[i]
    BY <1>2, <2>1
  <2>4. waited_by'[b][Len(L) + 1] = t
    BY <1>2, <2>1
  <2>5. 1 .. Len(L) + 1 = (1 .. Len(L)) \cup {Len(L) + 1}
    BY <1>2, IntervalExtend
  <2> QED
    BY <1>2, <1>4, <2>2, <2>3, <2>4, <2>5 DEF Slots
<1> QED
  BY <1>3, <1>4

\* AcquireLocks raises the counter by the entries it adds: it stays exact.
LEMMA AcquireCountInv ==
  ASSUME IInv, NEW t \in Txn, NEW h \in Region, AcquireLocks(t, h)
  PROVE  CountInv'
<1> DEFINE K == RelevantKeys(t, h)
           B == LiveBlockers(t, K)
           g == [b \in Txn |-> Len(waited_by[b]) + 1]
           New == {<<b, g[b]>> : b \in B}
           Old(u) == Edges(live, waited_by, u)
<1>1. TypeOK
  BY DEF IInv
<1>2. B \subseteq live /\ t \notin B /\ B \subseteq Txn /\ IsFiniteSet(B)
  <2>1. B \subseteq live /\ t \notin B /\ B \subseteq Txn
    BY <1>1 DEF LiveBlockers, TypeOK
  <2> QED
    BY <2>1, TxnAssumption, FS_Subset
<1>3. /\ live' = live \cup {t}
      /\ waited_by' = AppendWaiter(waited_by, B, t)
      /\ num_waiting_for' = [num_waiting_for EXCEPT ![t] = @ + Cardinality(B)]
  BY DEF AcquireLocks
<1>4. \A b \in Txn : /\ waited_by[b] \in Seq(Txn \cup {kSentinelTxnId})
                     /\ Len(waited_by[b]) \in Nat
                     /\ DOMAIN waited_by[b] = 1 .. Len(waited_by[b])
  BY <1>1 DEF TypeOK
<1>5. ASSUME NEW b \in Txn, NEW u \in Txn
      PROVE  /\ b \in B /\ u = t => Slots(waited_by'[b], u) = Slots(waited_by[b], u) \cup {g[b]}
             /\ ~(b \in B /\ u = t) => Slots(waited_by'[b], u) = Slots(waited_by[b], u)
  <2>1. g[b] = Len(waited_by[b]) + 1
    OBVIOUS
  <2> HIDE DEF g
  <2> QED
    BY <2>1, AcquireSlots
<1>6. t \notin live => \A u \in Txn : Slots(waited_by[t], u) = {}
  <2> SUFFICES ASSUME t \notin live, NEW u \in Txn PROVE Slots(waited_by[t], u) = {}
    OBVIOUS
  <2>1. waited_by[t] = <<kSentinelTxnId>>
    BY DEF IInv, CountInv, InitWaitedBy
  <2>2. u # kSentinelTxnId
    BY TxnAssumption DEF kSentinelTxnId
  <2> QED
    BY <2>1, <2>2 DEF Slots
<1>7. ASSUME NEW u \in Txn, u # t
      PROVE  Edges(live', waited_by', u) = Old(u)
  <2>1. \A b \in live' : Slots(waited_by'[b], u) = Slots(waited_by[b], u)
    BY <1>1, <1>3, <1>5, <1>7 DEF TypeOK
  <2>2. t \notin live => Slots(waited_by'[t], u) = {}
    BY <1>6, <1>5, <1>7
  <2>3. ASSUME NEW e \in Edges(live', waited_by', u) PROVE e \in Old(u)
    <3>0. PICK b \in live' : \E i \in Slots(waited_by'[b], u) : e = <<b, i>>
      BY EdgePair
    <3>1. PICK i \in Slots(waited_by'[b], u) : e = <<b, i>>
      BY <3>0
    <3>2. b \in live /\ i \in Slots(waited_by[b], u)
      BY <1>3, <2>1, <2>2, <3>1
    <3> QED
      BY <3>1, <3>2, EdgeMember
  <2>4. ASSUME NEW e \in Old(u) PROVE e \in Edges(live', waited_by', u)
    <3>0. PICK b \in live : \E i \in Slots(waited_by[b], u) : e = <<b, i>>
      BY EdgePair
    <3>1. PICK i \in Slots(waited_by[b], u) : e = <<b, i>>
      BY <3>0
    <3>2. b \in live' /\ i \in Slots(waited_by'[b], u)
      BY <1>3, <2>1, <3>1
    <3> QED
      BY <3>1, <3>2, EdgeMember
  <2> QED
    BY <2>3, <2>4
<1>8. Edges(live', waited_by', t) = Old(t) \cup New
  <2>1. ASSUME NEW e \in Edges(live', waited_by', t) PROVE e \in Old(t) \cup New
    <3>0. PICK b \in live' : \E i \in Slots(waited_by'[b], t) : e = <<b, i>>
      BY EdgePair
    <3>1. PICK i \in Slots(waited_by'[b], t) : e = <<b, i>>
      BY <3>0
    <3>2. b \in Txn
      BY <1>1, <1>3 DEF TypeOK
    <3>3. CASE b \in B /\ i = g[b]
      BY <3>1, <3>3
    <3>4. CASE ~(b \in B /\ i = g[b])
      <4>1. i \in Slots(waited_by[b], t)
        BY <1>5, <3>1, <3>2, <3>4
      <4>2. b \in live
        BY <1>3, <1>6, <4>1
      <4> QED
        BY <3>1, <4>1, <4>2, EdgeMember
    <3> QED
      BY <3>3, <3>4
  <2>2. ASSUME NEW e \in Old(t) PROVE e \in Edges(live', waited_by', t)
    <3>0. PICK b \in live : \E i \in Slots(waited_by[b], t) : e = <<b, i>>
      BY EdgePair
    <3>1. PICK i \in Slots(waited_by[b], t) : e = <<b, i>>
      BY <3>0
    <3>2. b \in Txn /\ b \in live'
      BY <1>1, <1>3 DEF TypeOK
    <3>3. i \in Slots(waited_by'[b], t)
      BY <1>5, <3>1, <3>2
    <3> QED
      BY <3>1, <3>2, <3>3, EdgeMember
  <2>3. ASSUME NEW b \in B PROVE <<b, g[b]>> \in Edges(live', waited_by', t)
    <3>1. b \in live' /\ b \in Txn
      BY <1>2, <1>3
    <3>2. g[b] \in Slots(waited_by'[b], t)
      BY <1>5, <3>1, <2>3
    <3> QED
      BY <3>1, <3>2, EdgeMember
  <2> QED
    BY <2>1, <2>2, <2>3, Zenon
<1>9. Old(t) \cap New = {}
  <2> SUFFICES ASSUME NEW e \in Old(t), e \in New PROVE FALSE
    OBVIOUS
  <2>1. PICK b \in B : e = <<b, g[b]>>
    OBVIOUS
  <2>2. g[b] \in DOMAIN waited_by[b]
    BY <2>1, EdgeMember DEF Slots
  <2> QED
    BY <1>2, <1>4, <2>2
<1>10. IsFiniteSet(New) /\ Cardinality(New) = Cardinality(B)
  BY <1>2, GraphCardinality, Zenon
<1>11. \A u \in Txn : IsFiniteSet(Old(u)) /\ num_waiting_for[u] = Cardinality(Old(u))
  BY DEF IInv, CountInv, WaitCountExact
<1>12. /\ IsFiniteSet(Old(t) \cup New)
       /\ Cardinality(Old(t) \cup New) = Cardinality(Old(t)) + Cardinality(New)
  BY <1>9, <1>10, <1>11, DisjointUnion, Zenon
<1>13. \A u \in Txn : /\ IsFiniteSet(Edges(live', waited_by', u))
                      /\ num_waiting_for'[u] = Cardinality(Edges(live', waited_by', u))
  BY <1>1, <1>3, <1>7, <1>8, <1>10, <1>11, <1>12, Zenon DEF TypeOK
<1>14. \A u \in Txn \ live' : num_waiting_for'[u] = 0 /\ waited_by'[u] = InitWaitedBy
  BY <1>1, <1>2, <1>3 DEF IInv, CountInv, TypeOK, AppendWaiter
<1> QED
  BY <1>13, <1>14 DEF CountInv, WaitCountExact

\* Counters that count finite sets are natural numbers.
LEMMA CountersNatural ==
  ASSUME ArrivalInv', CountInv',
         num_waiting_for' \in [Txn -> Int], unarrived' \in [Txn -> Int]
  PROVE  num_waiting_for' \in [Txn -> Nat] /\ unarrived' \in [Txn -> Nat]
<1>1. ASSUME NEW t \in Txn PROVE num_waiting_for'[t] \in Nat
  <2>1. IsFiniteSet(Edges(live', waited_by', t))
    BY DEF CountInv
  <2>2. num_waiting_for'[t] = Cardinality(Edges(live', waited_by', t))
    BY DEF CountInv, WaitCountExact
  <2> QED
    BY <2>1, <2>2, FS_CardinalityType
<1>2. ASSUME NEW t \in Txn PROVE unarrived'[t] \in Nat
  <2> DEFINE S == {k \in Keys(t) : <<t, Home[k]>> \notin arrived'}
  <2>1. IsFiniteSet(S)
    BY KeysFinite, FS_Subset, Zenon
  <2>2. unarrived'[t] = Cardinality(S)
    BY DEF ArrivalInv
  <2> QED
    BY <2>1, <2>2, FS_CardinalityType
<1> QED
  BY <1>1, <1>2

\* AcquireLocks keeps the types.
LEMMA AcquireTypeOK ==
  ASSUME IInv, NEW t \in Txn, NEW h \in Region, AcquireLocks(t, h)
  PROVE  TypeOK'
<1> DEFINE K == RelevantKeys(t, h)
           B == LiveBlockers(t, K)
<1> USE DEF IInv, TypeOK
<1>1. IsFiniteSet(K) /\ IsFiniteSet(B) /\ B \subseteq Txn
  <2>1. K \subseteq Keys(t)
    BY DEF RelevantKeys
  <2>2. B \subseteq Txn
    BY DEF LiveBlockers
  <2> QED
    BY <2>1, <2>2, KeysFinite, TxnAssumption, FS_Subset
<1>2. Cardinality(K) \in Nat /\ Cardinality(B) \in Nat
  BY <1>1, FS_CardinalityType
<1>3. lock_table' \in [KeyRegion -> LockQueueTail]
  BY ZenonT(40) DEF AcquireLocks, Enqueue, AcquireReadLock, AcquireWriteLock, LockQueueTail
<1>4. waited_by' \in [Txn -> Seq(Txn \cup {kSentinelTxnId})]
  <2>1. \A b \in Txn : Append(waited_by[b], t) \in Seq(Txn \cup {kSentinelTxnId})
    OBVIOUS
  <2> QED
    BY <2>1 DEF AcquireLocks, AppendWaiter
<1>5. num_waiting_for' \in [Txn -> Nat] /\ unarrived' \in [Txn -> Nat]
  <2>1. num_waiting_for' \in [Txn -> Int] /\ unarrived' \in [Txn -> Int]
    BY <1>2 DEF AcquireLocks
  <2>2. ArrivalInv' /\ CountInv'
    BY AcquireArrivalInv, AcquireCountInv, Zenon
  <2> QED
    BY <2>1, <2>2, CountersNatural
<1>6. when' \in [KeyRegion -> [Txn -> Nat]] /\ clock' \in Nat
  BY DEF AcquireLocks
<1>7. live' \subseteq Txn /\ arrived' \subseteq Txn \X Region
  BY DEF AcquireLocks
<1> QED
  BY <1>3, <1>4, <1>5, <1>6, <1>7, Zenon

\* The tail decides whom a new request waits for: if u blocks t's new request
\* for k, one of the transactions AcquireLocks finds at the tail is u or is
\* itself blocked behind u.
LEMMA TailBlocks ==
  ASSUME IInv, NEW t \in Txn, NEW h \in Region, NEW k \in RelevantKeys(t, h),
         NEW u \in live, u # t, when[k][u] > 0, Conflict(t, u, k), when[k][t] = 0
  PROVE  \E v \in LiveBlockers(t, RelevantKeys(t, h)) :
           \/ v = u
           \/ Blocks(u, v, k)
           \/ \E w \in Txn : Blocks(u, w, k) /\ Blocks(w, v, k)
<1> DEFINE w == lock_table[k].writer
           R == lock_table[k].readers
           B == LiveBlockers(t, RelevantKeys(t, h))
<1>1. k \in KeyRegion /\ u \in Txn /\ k \in Keys(t)
  BY KeysFinite DEF IInv, TypeOK, RelevantKeys
<1>2. R \subseteq Txn /\ (w \in Txn \/ w = kSentinelTxnId)
  BY <1>1 DEF IInv, TypeOK, LockQueueTail
<1>3. \A x \in Txn : x # kSentinelTxnId
  BY TxnAssumption DEF kSentinelTxnId
<1>4. /\ w \in Txn => k \in Writes[w] /\ when[k][w] > 0
      /\ \A x \in Txn : k \in Writes[x] /\ when[k][x] > 0 =>
           w \in Txn /\ when[k][x] <= when[k][w]
      /\ \A r \in Txn : r \in R <=>
           k \in Reads[r] /\ when[k][r] > 0 /\ (w \in Txn => when[k][r] > when[k][w])
  BY <1>1 DEF IInv, TailInv
<1>5. \A x \in Txn : when[k][x] \in Nat
  BY <1>1 DEF IInv, TypeOK
<1>6. \A x, y \in Txn : when[k][x] = when[k][y] /\ when[k][x] > 0 => x = y
  BY <1>1, Zenon DEF IInv, ArrivalInv
<1>7. \A x, y \in Txn : Blocks(x, y, k) => y \in live
  BY <1>1 DEF IInv, OrderInv
<1>8. \A x \in Txn : k \in Reads[x] => k \notin Writes[x]
  BY LockAssumption
<1>9. \A x, y \in Txn : Blocks(x, y, k) <=>
        /\ x \in live /\ 0 < when[k][x] /\ when[k][x] < when[k][y]
        /\ k \in Keys(x) /\ k \in Keys(y) /\ (k \in Writes[x] \/ k \in Writes[y])
  BY DEF Blocks, Before, Conflict
<1>10. \A x \in Txn : k \in Keys(x) <=> k \in Reads[x] \/ k \in Writes[x]
  BY DEF Keys
<1>11. w \in Txn => w # t
  BY <1>4
<1>12. \A r \in R : r # t /\ r \in Txn
  BY <1>2, <1>4
\* Whom the tail reports.
<1>13. k \in Writes[t] /\ R # {} => \A r \in R : r \in live => r \in B
  BY <1>1, <1>12 DEF LiveBlockers, BlockingTxns, WriteDependencies
<1>14. (k \notin Writes[t] \/ R = {}) /\ w \in Txn /\ w \in live => w \in B
  BY <1>1, <1>3, <1>11 DEF LiveBlockers, BlockingTxns, WriteDependencies, Writer
<1>15. u # w /\ k \in Writes[u] => Blocks(u, w, k) /\ w \in Txn
  <2> SUFFICES ASSUME u # w, k \in Writes[u] PROVE Blocks(u, w, k) /\ w \in Txn
    OBVIOUS
  <2>1. w \in Txn /\ when[k][u] <= when[k][w]
    BY <1>1, <1>4
  <2>2. when[k][u] < when[k][w]
    BY <1>1, <1>5, <1>6, <2>1
  <2> QED
    BY <1>1, <1>4, <1>9, <1>10, <2>1, <2>2
<1>16. u \notin R /\ k \in Reads[u] => Blocks(u, w, k) /\ w \in Txn
  <2> SUFFICES ASSUME u \notin R, k \in Reads[u] PROVE Blocks(u, w, k) /\ w \in Txn
    OBVIOUS
  <2>1. w \in Txn /\ ~(when[k][u] > when[k][w])
    BY <1>1, <1>4
  <2>2. u # w
    BY <1>1, <1>4, <1>8, <2>1
  <2>3. when[k][u] < when[k][w]
    BY <1>1, <1>5, <1>6, <2>1, <2>2
  <2> QED
    BY <1>1, <1>4, <1>9, <1>10, <2>1, <2>3
<1>17. w \in Txn => \A r \in R : w \in live => Blocks(w, r, k)
  BY <1>2, <1>4, <1>9, <1>10
<1>18. k \in Reads[u] \/ k \in Writes[u]
  BY <1>1, <1>10 DEF Conflict
<1>19. CASE k \in Writes[t] /\ R # {}
  <2>1. CASE u \in R
    BY <1>13, <1>19, <2>1
  <2>2. CASE u \notin R
    <3>1. PICK r \in R : TRUE
      BY <1>19
    <3>2. CASE u = w
      <4>1. Blocks(u, r, k)
        BY <1>1, <1>17, <3>2
      <4> QED
        BY <1>1, <1>7, <1>12, <1>13, <1>19, <4>1
    <3>3. CASE u # w
      <4>1. Blocks(u, w, k) /\ w \in Txn
        BY <1>15, <1>16, <1>18, <2>2, <3>3
      <4>2. w \in live
        BY <1>1, <1>7, <4>1
      <4>3. Blocks(w, r, k)
        BY <1>17, <4>1, <4>2
      <4>4. r \in B
        BY <1>7, <1>12, <1>13, <1>19, <4>1, <4>3
      <4> QED
        BY <4>1, <4>3, <4>4
    <3> QED
      BY <3>2, <3>3
  <2> QED
    BY <2>1, <2>2
<1>20. CASE k \notin Writes[t] \/ R = {}
  <2>1. CASE u = w
    BY <1>1, <1>14, <1>20, <2>1
  <2>2. CASE u # w
    <3>1. Blocks(u, w, k) /\ w \in Txn
      <4>1. CASE k \in Writes[u]
        BY <1>15, <2>2, <4>1
      <4>2. CASE k \in Reads[u]
        <5>1. u \notin R
          BY <1>1, <1>8, <1>20, <4>2 DEF Conflict
        <5> QED
          BY <1>16, <4>2, <5>1
      <4> QED
        BY <1>18, <4>1, <4>2
    <3>2. w \in live
      BY <1>1, <1>7, <3>1
    <3> QED
      BY <1>14, <1>20, <3>1, <3>2
  <2> QED
    BY <2>1, <2>2
<1> QED
  BY <1>19, <1>20, Zenon

\* A new request waits behind every earlier conflicting one, and leaves the
\* waits of the others as they are.
LEMMA AcquireOrderInv ==
  ASSUME IInv, NEW t \in Txn, NEW h \in Region, AcquireLocks(t, h)
  PROVE  OrderInv'
<1> DEFINE K == RelevantKeys(t, h)
           B == LiveBlockers(t, K)
<1>1. live' = live \cup {t} /\ <<t, h>> \notin arrived /\ K # {}
  BY DEF AcquireLocks
<1>2. B \subseteq live /\ live \subseteq Txn
  BY DEF LiveBlockers, IInv, TypeOK
<1>3. /\ \A k \in K : when[k][t] = 0
      /\ t \notin live => \A k \in KeyRegion : when[k][t] = 0
  BY <1>1, AcquireFresh
<1>4. \A k \in KeyRegion, x \in Txn :
        when'[k][x] = IF x = t /\ k \in K THEN clock + 1 ELSE when[k][x]
  BY AcquireWhen
<1>5. \A k \in KeyRegion, x \in Txn : when[k][x] \in Nat
  BY DEF IInv, TypeOK
<1>6. \A k \in KeyRegion, x \in Txn : when[k][x] <= clock
  BY Zenon DEF IInv, ArrivalInv
<1>7. clock \in Nat
  BY DEF IInv, TypeOK
<1>8. ASSUME NEW x \in Txn, NEW v \in Txn, Waits(x, v) \/ (x = t /\ v \in B)
      PROVE  Waits(x, v)'
  <2>1. v \in live'
    BY <1>1, <1>2, <1>8 DEF Waits
  <2>2. CASE x = t /\ v \in B
    <3>1. Len(waited_by[v]) + 1 \in Slots(waited_by'[v], x)
      BY <2>2, AcquireSlots
    <3> QED
      BY <2>1, <3>1 DEF Waits
  <2>3. CASE ~(x = t /\ v \in B)
    <3>1. Slots(waited_by'[v], x) = Slots(waited_by[v], x)
      BY <2>3, AcquireSlots
    <3> QED
      BY <1>8, <2>1, <2>3, <3>1 DEF Waits
  <2> QED
    BY <2>2, <2>3
<1>9. ASSUME NEW k \in KeyRegion, NEW x \in Txn, NEW y \in Txn, Blocks(x, y, k)
      PROVE  Blocks(x, y, k)'
  <2>1. x \in live' /\ Conflict(y, x, k) /\ 0 < when[k][x] /\ when[k][x] < when[k][y]
    BY <1>1, <1>9 DEF Blocks, Before
  <2>2. when'[k][x] = when[k][x] /\ when'[k][y] = when[k][y]
    <3>1. when[k][x] # 0 /\ when[k][y] # 0
      BY <1>5, <2>1
    <3> QED
      BY <1>3, <1>4, <3>1
  <2> QED
    BY <2>1, <2>2 DEF Blocks, Before
<1> SUFFICES ASSUME NEW k \in KeyRegion, NEW x \in Txn, NEW u \in Txn, Blocks(u, x, k)'
             PROVE  /\ x \in live'
                    /\ \E v \in Txn :
                         /\ Waits(x, v)'
                         /\ \/ v = u
                            \/ Blocks(u, v, k)'
                            \/ \E w \in Txn : Blocks(u, w, k)' /\ Blocks(w, v, k)'
  BY DEF OrderInv
<1>10. /\ u \in live' /\ Conflict(x, u, k)
       /\ 0 < when'[k][u] /\ when'[k][u] < when'[k][x]
  BY DEF Blocks, Before
<1>11. when'[k][x] <= clock + 1
  BY <1>4, <1>5, <1>6, <1>7
<1>12. when'[k][u] = when[k][u]
  <2>1. CASE u = t /\ k \in K
    BY <1>4, <1>5, <1>7, <1>10, <1>11, <2>1
  <2> QED
    BY <1>4, <2>1
<1>13. u \in live
  BY <1>1, <1>3, <1>10, <1>12
<1>14. CASE x = t /\ k \in K
  <2>1. u # t
    BY <1>5, <1>10, <1>12, <1>14
  <2>2. when[k][t] = 0
    BY <1>3, <1>14
  <2>3. when[k][u] > 0
    BY <1>10, <1>12
  <2>4. PICK v \in B : \/ v = u
                       \/ Blocks(u, v, k)
                       \/ \E w \in Txn : Blocks(u, w, k) /\ Blocks(w, v, k)
    BY <1>10, <1>13, <1>14, <2>1, <2>2, <2>3, TailBlocks
  <2>5. v \in Txn /\ Waits(x, v)'
    BY <1>2, <1>8, <1>14
  <2> QED
    BY <1>1, <1>9, <1>14, <2>4, <2>5
<1>15. CASE ~(x = t /\ k \in K)
  <2>1. when'[k][x] = when[k][x]
    BY <1>4, <1>15
  <2>2. Blocks(u, x, k)
    BY <1>10, <1>12, <1>13, <2>1 DEF Blocks, Before
  <2>3. x \in live
    BY <2>2 DEF IInv, OrderInv
  <2>4. PICK v \in Txn : /\ Waits(x, v)
                         /\ \/ v = u
                            \/ Blocks(u, v, k)
                            \/ \E w \in Txn : Blocks(u, w, k) /\ Blocks(w, v, k)
    BY <2>2 DEF IInv, OrderInv
  <2> QED
    BY <1>1, <1>8, <1>9, <2>3, <2>4
<1> QED
  BY <1>14, <1>15

-----------------------------------------------------------------------------
(* ReleaseLocks *)

\* A transaction occurs finitely often in a waited-by list.
LEMMA SlotsFinite ==
  ASSUME TypeOK, NEW b \in Txn, NEW u
  PROVE  /\ IsFiniteSet(Slots(waited_by[b], u))
         /\ Occurrences(waited_by[b], u) \in Nat
<1>1. DOMAIN waited_by[b] = 1 .. Len(waited_by[b]) /\ Len(waited_by[b]) \in Nat
  BY DEF TypeOK
<1>2. IsFiniteSet(1 .. Len(waited_by[b]))
  BY <1>1, FS_Interval
<1>3. Slots(waited_by[b], u) \subseteq 1 .. Len(waited_by[b])
  BY <1>1 DEF Slots
<1>4. IsFiniteSet(Slots(waited_by[b], u))
  BY <1>2, <1>3, FS_Subset
<1> QED
  BY <1>4, FS_CardinalityType DEF Occurrences

\* A released transaction has made all its requests.
LEMMA ReleaseArrivalInv ==
  ASSUME IInv, NEW x \in Txn, ReleaseLocks(x)
  PROVE  ArrivalInv'
<1>1. /\ UNCHANGED <<unarrived, arrived, clock, when>>
      /\ live' = live \ {x} /\ unarrived[x] = 0
  BY DEF ReleaseLocks, IsReady
<1>2. \A t \in Txn \ live', k \in KeyRegion : when[k][t] > 0 => unarrived[t] = 0
  BY <1>1 DEF IInv, ArrivalInv
<1> QED
  BY <1>1, <1>2 DEF IInv, ArrivalInv

\* ReleaseLocks leaves the tails alone: ids that left stay in the lock table.
LEMMA ReleaseTailInv ==
  ASSUME IInv, NEW x \in Txn, ReleaseLocks(x)
  PROVE  TailInv'
BY DEF ReleaseLocks, IInv, TailInv

\* ReleaseLocks lowers each counter by the entries that disappear.
LEMMA ReleaseCountInv ==
  ASSUME IInv, NEW x \in Txn, ReleaseLocks(x)
  PROVE  CountInv'
<1> DEFINE Old(u) == Edges(live, waited_by, u)
           Gone(u) == {<<x, i>> : i \in Slots(waited_by[x], u)}
<1>1. /\ x \in live /\ num_waiting_for[x] = 0
      /\ live' = live \ {x}
      /\ waited_by' = [waited_by EXCEPT ![x] = InitWaitedBy]
  BY DEF ReleaseLocks, IsReady
<1>2. \A u \in Txn : num_waiting_for'[u] =
        IF u \in live THEN num_waiting_for[u] - Occurrences(waited_by[x], u)
        ELSE num_waiting_for[u]
  BY DEF ReleaseLocks
<1>3. TypeOK /\ live \subseteq Txn
  BY DEF IInv, TypeOK
<1>4. \A b \in Txn : waited_by'[b] = IF b = x THEN InitWaitedBy ELSE waited_by[b]
  BY <1>1, <1>3 DEF TypeOK
<1>5. \A u \in Txn : IsFiniteSet(Old(u)) /\ num_waiting_for[u] = Cardinality(Old(u))
  BY DEF IInv, CountInv, WaitCountExact
<1>6. ASSUME NEW u \in Txn
      PROVE  Edges(live', waited_by', u) = Old(u) \ Gone(u)
  <2>1. ASSUME NEW e \in Edges(live', waited_by', u) PROVE e \in Old(u) \ Gone(u)
    <3>0. PICK b \in live' : \E i \in Slots(waited_by'[b], u) : e = <<b, i>>
      BY EdgePair
    <3>1. PICK i \in Slots(waited_by'[b], u) : e = <<b, i>>
      BY <3>0
    <3>2. b \in live /\ b # x /\ i \in Slots(waited_by[b], u)
      BY <1>1, <1>3, <1>4, <3>1
    <3>3. e \in Old(u)
      BY <3>1, <3>2, EdgeMember
    <3> QED
      BY <3>1, <3>2, <3>3
  <2>2. ASSUME NEW e \in Old(u) \ Gone(u) PROVE e \in Edges(live', waited_by', u)
    <3>0. PICK b \in live : \E i \in Slots(waited_by[b], u) : e = <<b, i>>
      BY EdgePair
    <3>1. PICK i \in Slots(waited_by[b], u) : e = <<b, i>>
      BY <3>0
    <3>2. b # x
      BY <3>1, <2>2
    <3>3. b \in live' /\ i \in Slots(waited_by'[b], u)
      BY <1>1, <1>3, <1>4, <3>1, <3>2
    <3> QED
      BY <3>1, <3>3, EdgeMember
  <2> QED
    BY <2>1, <2>2
<1>7. ASSUME NEW u \in Txn
      PROVE  IsFiniteSet(Gone(u)) /\ Cardinality(Gone(u)) = Occurrences(waited_by[x], u)
  BY <1>3, SlotsFinite, PairCardinality, Zenon DEF Occurrences
<1>8. ASSUME NEW u \in Txn PROVE Gone(u) \subseteq Old(u)
  BY <1>1, EdgeMember
<1>9. ASSUME NEW u \in Txn
      PROVE  /\ IsFiniteSet(Edges(live', waited_by', u))
             /\ Cardinality(Edges(live', waited_by', u)) =
                  num_waiting_for[u] - Occurrences(waited_by[x], u)
  <2>1. Old(u) \cap Gone(u) = Gone(u)
    BY <1>8
  <2>2. /\ IsFiniteSet(Old(u) \ Gone(u))
        /\ Cardinality(Old(u) \ Gone(u)) = Cardinality(Old(u)) - Cardinality(Old(u) \cap Gone(u))
    BY <1>5, FS_Difference, Zenon
  <2> QED
    BY <1>5, <1>6, <1>7, <2>1, <2>2, Zenon
<1>10. ASSUME NEW u \in Txn, num_waiting_for[u] = 0
       PROVE  Occurrences(waited_by[x], u) = 0
  <2>1. Old(u) = {}
    BY <1>5, <1>10, FS_EmptySet
  <2>2. Gone(u) = {}
    BY <1>8, <2>1
  <2> QED
    BY <1>7, <2>2, FS_EmptySet
<1>11. \A u \in Txn \ live : num_waiting_for[u] = 0 /\ waited_by[u] = InitWaitedBy
  BY DEF IInv, CountInv
<1>12. \A u \in Txn : num_waiting_for'[u] = num_waiting_for[u] - Occurrences(waited_by[x], u)
  BY <1>2, <1>10, <1>11
<1>13. ASSUME NEW u \in Txn \ live'
       PROVE  num_waiting_for'[u] = 0 /\ waited_by'[u] = InitWaitedBy
  BY <1>1, <1>4, <1>10, <1>11, <1>12
<1> QED
  BY <1>9, <1>12, <1>13 DEF CountInv, WaitCountExact

\* ReleaseLocks keeps the types.
LEMMA ReleaseTypeOK ==
  ASSUME IInv, NEW x \in Txn, ReleaseLocks(x)
  PROVE  TypeOK'
<1>1. TypeOK
  BY DEF IInv
<1>2. \A u \in Txn : Occurrences(waited_by[x], u) \in Nat
  BY <1>1, SlotsFinite
<1>3. num_waiting_for' \in [Txn -> Nat]
  <2>1. num_waiting_for' \in [Txn -> Int] /\ unarrived' \in [Txn -> Int]
    BY <1>1, <1>2, SMTT(30) DEF ReleaseLocks, TypeOK
  <2>2. ArrivalInv' /\ CountInv'
    BY ReleaseArrivalInv, ReleaseCountInv
  <2> QED
    BY <2>1, <2>2, CountersNatural
<1>4. waited_by' \in [Txn -> Seq(Txn \cup {kSentinelTxnId})]
  <2>1. InitWaitedBy \in Seq(Txn \cup {kSentinelTxnId})
    BY DEF InitWaitedBy
  <2> QED
    BY <1>1, <2>1 DEF ReleaseLocks, TypeOK
<1>5. live' \subseteq Txn
  BY <1>1 DEF ReleaseLocks, TypeOK
<1> QED
  BY <1>1, <1>3, <1>4, <1>5 DEF ReleaseLocks, TypeOK

\* The transaction that leaves is ready, so it is neither blocked nor what a
\* blocked transaction's chain of waits goes through.
LEMMA ReleaseOrderInv ==
  ASSUME IInv, NEW x \in Txn, ReleaseLocks(x)
  PROVE  OrderInv'
<1>1. /\ IsReady(x) /\ live' = live \ {x} /\ when' = when
      /\ waited_by' = [waited_by EXCEPT ![x] = InitWaitedBy]
  BY DEF ReleaseLocks
<1>2. \A b \in Txn : b # x => waited_by'[b] = waited_by[b]
  BY <1>1 DEF IInv, TypeOK
<1>3. ASSUME NEW k \in KeyRegion, NEW u \in Txn, NEW y \in Txn
      PROVE  /\ Blocks(u, y, k)' <=> Blocks(u, y, k) /\ u # x
             /\ Blocks(u, y, k) => y # x /\ y \in live
  BY <1>1, BlockedNotReady DEF Blocks, Before
<1> SUFFICES ASSUME NEW k \in KeyRegion, NEW t \in Txn, NEW u \in Txn, Blocks(u, t, k)'
             PROVE  /\ t \in live'
                    /\ \E v \in Txn :
                         /\ Waits(t, v)'
                         /\ \/ v = u
                            \/ Blocks(u, v, k)'
                            \/ \E w \in Txn : Blocks(u, w, k)' /\ Blocks(w, v, k)'
  BY DEF OrderInv
<1>4. Blocks(u, t, k) /\ u # x /\ t # x /\ t \in live
  BY <1>3
<1>5. PICK v \in Txn : /\ Waits(t, v)
                       /\ \/ v = u
                          \/ Blocks(u, v, k)
                          \/ \E w \in Txn : Blocks(u, w, k) /\ Blocks(w, v, k)
  BY <1>4 DEF IInv, OrderInv
<1>6. v # x
  BY <1>3, <1>4, <1>5
<1>7. Waits(t, v)'
  BY <1>1, <1>2, <1>5, <1>6 DEF Waits
<1>8. \/ v = u
      \/ Blocks(u, v, k)'
      \/ \E w \in Txn : Blocks(u, w, k)' /\ Blocks(w, v, k)'
  BY <1>3, <1>4, <1>5
<1> QED
  BY <1>1, <1>4, <1>7, <1>8

-----------------------------------------------------------------------------
(* The theorems *)

\* Every step of the lock manager preserves the invariant.
LEMMA NextIInv == IInv /\ [Next]_vars => IInv'
<1> SUFFICES ASSUME IInv, [Next]_vars PROVE IInv'
  OBVIOUS
<1>1. ASSUME NEW t \in Txn, NEW h \in Region, AcquireLocks(t, h) PROVE IInv'
  BY <1>1, AcquireTypeOK, AcquireArrivalInv, AcquireTailInv, AcquireCountInv,
     AcquireOrderInv DEF IInv
<1>2. ASSUME NEW t \in Txn, ReleaseLocks(t) PROVE IInv'
  BY <1>2, ReleaseTypeOK, ReleaseArrivalInv, ReleaseTailInv, ReleaseCountInv,
     ReleaseOrderInv DEF IInv
<1>3. CASE UNCHANGED vars
  <2> USE <1>3 DEF vars, IInv
  <2>1. TypeOK'
    BY DEF TypeOK
  <2>2. ArrivalInv'
    <3>1. /\ \A k \in KeyRegion, t \in Txn :
               /\ when'[k][t] > 0 <=> k \in Keys(t) /\ <<t, Home[k]>> \in arrived'
               /\ when'[k][t] <= clock'
               /\ \A u \in Txn : when'[k][t] = when'[k][u] /\ when'[k][t] > 0 => t = u
      BY DEF ArrivalInv
    <3>2. \A t \in Txn : unarrived'[t] =
            Cardinality({k \in Keys(t) : <<t, Home[k]>> \notin arrived'})
      BY DEF ArrivalInv
    <3>3. \A t \in Txn \ live', k \in KeyRegion : when'[k][t] > 0 => unarrived'[t] = 0
      BY DEF ArrivalInv
    <3> QED
      BY <3>1, <3>2, <3>3 DEF ArrivalInv
  <2>3. TailInv'
    BY Zenon DEF TailInv
  <2>4. CountInv'
    BY DEF CountInv, WaitCountExact
  <2>5. OrderInv'
    <3>1. \A k \in KeyRegion, u, v \in Txn : Blocks(u, v, k)' <=> Blocks(u, v, k)
      BY DEF Blocks, Before
    <3>2. \A u, v \in Txn : Waits(u, v)' <=> Waits(u, v)
      BY DEF Waits
    <3> QED
      BY <3>1, <3>2, Zenon DEF OrderInv
  <2> QED
    BY <2>1, <2>2, <2>3, <2>4, <2>5
<1> QED
  BY <1>1, <1>2, <1>3 DEF Next

\* AcquireLocks and ReleaseLocks keep the lock manager in the invariant.
THEOREM Invariance == Spec => []IInv
<1>1. Init => IInv
  BY InitIInv
<1>2. IInv /\ [Next]_vars => IInv'
  BY NextIInv
<1> QED
  BY <1>1, <1>2, PTL DEF Spec

\* The tables of the lock manager keep their types.
THEOREM TypeCorrect == Spec => []TypeOK
<1>1. IInv => TypeOK
  BY DEF IInv
<1> QED
  BY <1>1, Invariance, PTL

\* The counters num_waiting_for are exact in every reachable state: a
\* transaction is woken by precisely the releases it was counted for.
THEOREM ExactCounters == Spec => []WaitCountExact
<1>1. IInv => WaitCountExact
  BY DEF IInv, CountInv
<1> QED
  BY <1>1, Invariance, PTL

\* Conflicting locks are granted in the order in which AcquireLocks was called.
THEOREM GrantsInOrder == Spec => []GrantOrder
<1>1. IInv => GrantOrder
  BY IInvImpliesGrantOrder
<1> QED
  BY <1>1, Invariance, PTL

\* No two transactions the lock manager calls ready conflict.
THEOREM Exclusion == Spec => []MutualExclusion
<1>1. IInv => MutualExclusion
  BY IInvImpliesMutualExclusion
<1> QED
  BY <1>1, Invariance, PTL
=============================================================================
