---------------------------- MODULE HashMapProofs ----------------------------
(***************************************************************************)
(* Proofs about the reader-writer latch and about the hash map under it,   *)
(* for any threads, keys, hash function, initial size and programs: the    *)
(* map stays well formed and every call takes effect at one moment.        *)
(***************************************************************************)
EXTENDS HashMap, FiniteSetTheorems, WellFoundedInduction, TLAPS

-----------------------------------------------------------------------------
(* The latch *)

Readers == {t \in Thread : pc[t] = "reading"}

Writers == {t \in Thread : pc[t] \in {"w_drain", "writing"}}

Places == {"idle", "w_enter", "w_drain", "writing", "r_enter", "reading"}

LatchTypeOK ==
  /\ reader_count \in Nat
  /\ writer_entered \in BOOLEAN
  /\ pc \in [Thread -> Places]
  /\ asleep \subseteq Thread

\* The inductive invariant: the counter counts the readers, writer_entered
\* says whether there is a thread past the first loop of WLock, there is at
\* most one, and it writes only when there are no readers.
LatchInv ==
  /\ LatchTypeOK
  /\ reader_count = Cardinality(Readers)
  /\ writer_entered <=> Writers # {}
  /\ \A t, u \in Writers : t = u
  /\ \A t \in Thread : pc[t] = "writing" => Readers = {}
  /\ \A t \in asleep : pc[t] \in {"w_enter", "w_drain", "r_enter"}
  /\ NoLostWakeup

\* The set of readers is finite and smaller than the limit of the counter, so
\* RLock never waits because of it.
LEMMA ReadersBounded ==
  ASSUME LatchTypeOK
  PROVE  /\ IsFiniteSet(Readers)
         /\ Cardinality(Readers) \in Nat
         /\ Cardinality(Readers) < MAX_READERS
         /\ Cardinality(Readers) = 0 <=> Readers = {}
<1>1. Readers \in SUBSET Thread
  BY DEF Readers
<1>2. IsFiniteSet(Readers) /\ Cardinality(Readers) <= Cardinality(Thread)
  BY <1>1, ThreadAssumption, FS_Subset
<1>3. Cardinality(Readers) \in Nat /\ Cardinality(Thread) \in Nat
  BY <1>2, ThreadAssumption, FS_CardinalityType
<1>4. Cardinality(Readers) = 0 <=> Readers = {}
  BY <1>2, FS_EmptySet
<1> QED
  BY <1>2, <1>3, <1>4, MaxReadersAssumption

\* Initially nobody holds the latch.
LEMMA LatchInitial == LatchInit => LatchInv
<1> SUFFICES ASSUME LatchInit PROVE LatchInv
  OBVIOUS
<1>1. Readers = {} /\ Writers = {}
  BY DEF LatchInit, Readers, Writers
<1>2. Cardinality(Readers) = 0
  BY <1>1, FS_EmptySet
<1> QED
  BY <1>1, <1>2, Zenon DEF LatchInit, LatchInv, LatchTypeOK, Places, NoLostWakeup

\* Threads that do not pass into or out of "reading" leave the readers alone.
LEMMA ReadersSame ==
  ASSUME LatchTypeOK, NEW t \in Thread, NEW p \in Places \ {"reading"}, pc[t] # "reading",
         pc' = [pc EXCEPT ![t] = p]
  PROVE  Readers' = Readers
BY DEF LatchTypeOK, Readers

\* The first loop of WLock keeps the invariant.
LEMMA TryWLockStep ==
  ASSUME LatchInv, NEW t \in Thread, pc[t] \in {"idle", "w_enter"}, TryWLock(t)
  PROVE  LatchInv'
<1> USE DEF LatchInv, LatchTypeOK
<1>0. t \notin Writers /\ t \notin Readers
  BY DEF Writers, Readers
<1>1. CASE writer_entered
  <2>1. pc' = [pc EXCEPT ![t] = "w_enter"] /\ asleep' = asleep \cup {t}
        /\ reader_count' = reader_count /\ writer_entered' = writer_entered
    BY <1>1 DEF TryWLock
  <2>2. Readers' = Readers
    BY <2>1, ReadersSame, Zenon DEF Places
  <2>3. Writers' = Writers
    BY <2>1, <1>0 DEF Writers
  <2>4. LatchTypeOK'
    BY <2>1 DEF Places
  <2>5. \A u \in Thread : pc'[u] = "writing" => pc[u] = "writing"
    BY <2>1
  <2>6. \A u \in asleep' : pc'[u] \in {"w_enter", "w_drain", "r_enter"}
    BY <2>1
  <2>7. NoLostWakeup'
    BY <2>1, <1>1 DEF NoLostWakeup
  <2> QED
    BY <2>1, <2>2, <2>3, <2>4, <2>5, <2>6, <2>7
<1>2. CASE ~writer_entered /\ reader_count > 0
  <2>1. pc' = [pc EXCEPT ![t] = "w_drain"] /\ asleep' = asleep \cup {t}
        /\ reader_count' = reader_count /\ writer_entered' = TRUE
    BY <1>2 DEF TryWLock, Drain
  <2>2. Readers' = Readers
    BY <2>1, ReadersSame, Zenon DEF Places
  <2>3. Writers' = {t}
    BY <2>1, <1>2 DEF Writers
  <2>4. LatchTypeOK'
    BY <2>1 DEF Places
  <2>5. \A u \in Thread : pc'[u] # "writing"
    BY <2>1, <1>2 DEF Writers
  <2>6. \A u \in asleep' : pc'[u] \in {"w_enter", "w_drain", "r_enter"}
    BY <2>1
  <2>7. NoLostWakeup'
    BY <2>1, <1>2 DEF NoLostWakeup
  <2> QED
    BY <2>1, <2>2, <2>3, <2>4, <2>5, <2>6, <2>7
<1>3. CASE ~writer_entered /\ ~(reader_count > 0)
  <2>1. pc' = [pc EXCEPT ![t] = "writing"] /\ asleep' = asleep \ {t}
        /\ reader_count' = reader_count /\ writer_entered' = TRUE
    BY <1>3 DEF TryWLock, Drain
  <2>2. Readers' = Readers /\ Readers = {}
    <3>1. Readers' = Readers
      BY <2>1, ReadersSame, Zenon DEF Places
    <3>2. reader_count = 0
      BY <1>3
    <3> QED
      BY <3>1, <3>2, ReadersBounded
  <2>3. Writers' = {t}
    BY <2>1, <1>3 DEF Writers
  <2>4. LatchTypeOK'
    BY <2>1 DEF Places
  <2>6. \A u \in asleep' : pc'[u] \in {"w_enter", "w_drain", "r_enter"}
    BY <2>1
  <2>7. NoLostWakeup'
    BY <2>1, <1>3 DEF NoLostWakeup, Writers
  <2> QED
    BY <2>1, <2>2, <2>3, <2>4, <2>6, <2>7
<1> QED
  BY <1>1, <1>2, <1>3

\* The second loop of WLock keeps the invariant.
LEMMA DrainStep ==
  ASSUME LatchInv, NEW t \in Thread, pc[t] = "w_drain", Drain(t),
         UNCHANGED <<reader_count, writer_entered>>
  PROVE  LatchInv'
<1> USE DEF LatchInv, LatchTypeOK
<1>0. t \in Writers
  BY DEF Writers
<1>1. CASE reader_count > 0
  <2>1. pc' = pc /\ asleep' = asleep \cup {t}
    BY <1>1 DEF Drain
  <2>2. Readers' = Readers /\ Writers' = Writers
    BY <2>1 DEF Readers, Writers
  <2>3. NoLostWakeup'
    BY <2>1, <1>1 DEF NoLostWakeup
  <2> QED
    BY <2>1, <2>2, <2>3 DEF Places
<1>2. CASE ~(reader_count > 0)
  <2>1. pc' = [pc EXCEPT ![t] = "writing"] /\ asleep' = asleep \ {t}
    BY <1>2 DEF Drain
  <2>2. Readers' = Readers /\ Readers = {}
    <3>1. Readers' = Readers
      BY <2>1, ReadersSame, Zenon DEF Places
    <3>2. reader_count = 0
      BY <1>2
    <3> QED
      BY <3>1, <3>2, ReadersBounded
  <2>3. Writers' = Writers
    BY <2>1 DEF Writers
  <2>4. LatchTypeOK'
    BY <2>1 DEF Places
  <2>6. \A u \in asleep' : pc'[u] \in {"w_enter", "w_drain", "r_enter"}
    BY <2>1
  <2>7. NoLostWakeup'
    BY <2>1, <1>2, <1>0 DEF NoLostWakeup, Writers
  <2> QED
    BY <2>1, <2>2, <2>3, <2>4, <2>6, <2>7
<1> QED
  BY <1>1, <1>2

\* The loop of RLock keeps the invariant.
LEMMA TryRLockStep ==
  ASSUME LatchInv, NEW t \in Thread, pc[t] \in {"idle", "r_enter"}, TryRLock(t)
  PROVE  LatchInv'
<1> USE DEF LatchInv, LatchTypeOK
<1>0. t \notin Writers /\ t \notin Readers
  BY DEF Writers, Readers
<1>1. reader_count # MAX_READERS
  BY ReadersBounded, MaxReadersAssumption
<1>2. CASE writer_entered
  <2>1. pc' = [pc EXCEPT ![t] = "r_enter"] /\ asleep' = asleep \cup {t}
        /\ reader_count' = reader_count /\ writer_entered' = writer_entered
    BY <1>2 DEF TryRLock
  <2>2. Readers' = Readers
    BY <2>1, ReadersSame, Zenon DEF Places
  <2>3. Writers' = Writers
    BY <2>1, <1>0 DEF Writers
  <2>4. LatchTypeOK'
    BY <2>1 DEF Places
  <2>5. \A u \in Thread : pc'[u] = "writing" => pc[u] = "writing"
    BY <2>1
  <2>6. \A u \in asleep' : pc'[u] \in {"w_enter", "w_drain", "r_enter"}
    BY <2>1
  <2>7. NoLostWakeup'
    BY <2>1, <1>2 DEF NoLostWakeup
  <2> QED
    BY <2>1, <2>2, <2>3, <2>4, <2>5, <2>6, <2>7
<1>3. CASE ~writer_entered
  <2>1. pc' = [pc EXCEPT ![t] = "reading"] /\ asleep' = asleep \ {t}
        /\ reader_count' = reader_count + 1 /\ writer_entered' = writer_entered
    BY <1>3, <1>1 DEF TryRLock
  <2>2. Readers' = Readers \cup {t}
    BY <2>1 DEF Readers
  <2>3. Cardinality(Readers') = Cardinality(Readers) + 1
    BY <2>2, <1>0, ReadersBounded, FS_AddElement, Zenon
  <2>4. Writers' = Writers /\ Writers = {}
    BY <2>1, <1>0, <1>3 DEF Writers
  <2>5. LatchTypeOK'
    BY <2>1 DEF Places
  <2>6. \A u \in Thread : pc'[u] # "writing"
    BY <2>1, <2>4 DEF Writers
  <2>7. \A u \in asleep' : pc'[u] \in {"w_enter", "w_drain", "r_enter"}
    BY <2>1
  <2>8. NoLostWakeup'
    BY <2>1, <1>3, <2>4 DEF NoLostWakeup, Writers
  <2> QED
    BY <2>1, <2>3, <2>4, <2>5, <2>6, <2>7, <2>8, <1>3
<1> QED
  BY <1>2, <1>3

\* The writer leaves and wakes everyone that waits on reader_.
LEMMA WUnlockStep ==
  ASSUME LatchInv, NEW t \in Thread, WUnlock(t)
  PROVE  LatchInv'
<1> USE DEF LatchInv, LatchTypeOK
<1>1. /\ pc[t] = "writing" /\ pc' = [pc EXCEPT ![t] = "idle"]
      /\ writer_entered' = FALSE /\ asleep' = asleep \ OnReaderCondition
      /\ reader_count' = reader_count
  BY DEF WUnlock
<1>2. Readers' = Readers
  BY <1>1, ReadersSame, Zenon DEF Places
<1>3. Writers = {t}
  BY <1>1 DEF Writers
<1>4. Writers' = {}
  BY <1>1, <1>3 DEF Writers
<1>5. LatchTypeOK'
  BY <1>1, Zenon DEF Places
<1>6. \A u \in Thread : pc'[u] # "writing"
  BY <1>1, <1>3 DEF Writers
<1>7. \A u \in asleep' : pc'[u] \in {"w_enter", "w_drain", "r_enter"}
  BY <1>1
<1>8. NoLostWakeup'
  BY <1>1, <1>3 DEF NoLostWakeup, OnReaderCondition, Writers
<1> QED
  BY <1>1, <1>2, <1>4, <1>5, <1>6, <1>7, <1>8

\* A reader leaves; the last one wakes the writer that waits for it.
LEMMA RUnlockStep ==
  ASSUME LatchInv, NEW t \in Thread, RUnlock(t)
  PROVE  LatchInv'
<1> USE DEF LatchInv, LatchTypeOK
<1>1. /\ pc[t] = "reading" /\ pc' = [pc EXCEPT ![t] = "idle"]
      /\ reader_count' = reader_count - 1 /\ writer_entered' = writer_entered
      /\ LastReader(t)
  BY DEF RUnlock
<1>2. t \in Readers /\ Readers' = Readers \ {t}
  BY <1>1 DEF Readers
<1>3. Cardinality(Readers') = Cardinality(Readers) - 1 /\ Cardinality(Readers') \in Nat
  <2>1. IsFiniteSet(Readers)
    BY ReadersBounded
  <2>2. IsFiniteSet(Readers') /\ Cardinality(Readers') = Cardinality(Readers) - 1
    BY <2>1, <1>2, FS_RemoveElement
  <2> QED
    BY <2>2, FS_CardinalityType
<1>4. Writers' = Writers
  BY <1>1 DEF Writers
<1>5. asleep' \subseteq asleep
  BY <1>1 DEF LastReader, NotifyOne
<1>6. LatchTypeOK'
  BY <1>1, <1>3, <1>5 DEF Places
<1>7. \A u \in Thread : pc'[u] # "writing"
  BY <1>1, <1>2
<1>8. \A u \in asleep' : pc'[u] = pc[u]
  BY <1>1, <1>5
<1>9. \A u \in asleep' : pc'[u] = "w_drain" => reader_count' > 0
  <2> SUFFICES ASSUME NEW u \in asleep', pc[u] = "w_drain", reader_count = 1
               PROVE  FALSE
    BY <1>1, <1>3, <1>8
  <2>1. u \in asleep /\ u \in Writers /\ writer_entered
    BY <1>5 DEF Writers
  <2>2. OnWriterCondition \subseteq Writers
    BY DEF OnWriterCondition, Writers
  <2>3. OnWriterCondition \cap asleep = {u}
    BY <2>1, <2>2 DEF OnWriterCondition
  <2>4. asleep' = asleep \ {u}
    BY <1>1, <2>1, <2>3 DEF LastReader, NotifyOne
  <2> QED
    BY <2>4
<1>10. NoLostWakeup'
  BY <1>1, <1>5, <1>8, <1>9 DEF NoLostWakeup
<1> QED
  BY <1>1, <1>3, <1>4, <1>5, <1>6, <1>7, <1>8, <1>10

\* The invariant is inductive.
LEMMA LatchInductive == LatchInv /\ [LatchNext]_latch => LatchInv'
<1> SUFFICES ASSUME LatchInv, [LatchNext]_latch PROVE LatchInv'
  OBVIOUS
<1>1. CASE UNCHANGED latch
  <2>1. Readers' = Readers /\ Writers' = Writers
    BY <1>1 DEF latch, Readers, Writers
  <2> QED
    BY <1>1, <2>1 DEF latch, LatchInv, LatchTypeOK, NoLostWakeup
<1>2. CASE LatchNext
  <2> PICK t \in Thread : \/ WLock(t) \/ RLock(t) \/ Resume(t) \/ WUnlock(t) \/ RUnlock(t) \/ Spurious(t)
    BY <1>2 DEF LatchNext
  <2>1. CASE WLock(t)
    BY <2>1, TryWLockStep DEF WLock
  <2>2. CASE RLock(t)
    BY <2>2, TryRLockStep DEF RLock
  <2>3. CASE Resume(t)
    <3>1. CASE pc[t] = "w_enter" /\ TryWLock(t)
      BY <3>1, TryWLockStep
    <3>2. CASE pc[t] = "w_drain" /\ Drain(t) /\ UNCHANGED <<reader_count, writer_entered>>
      BY <3>2, DrainStep
    <3>3. CASE pc[t] = "r_enter" /\ TryRLock(t)
      BY <3>3, TryRLockStep
    <3> QED
      BY <2>3, <3>1, <3>2, <3>3 DEF Resume
  <2>4. CASE WUnlock(t)
    BY <2>4, WUnlockStep
  <2>5. CASE RUnlock(t)
    BY <2>5, RUnlockStep
  <2>6. CASE Spurious(t)
    <3>1. asleep' = asleep \ {t} /\ UNCHANGED <<reader_count, writer_entered, pc>>
      BY <2>6 DEF Spurious
    <3>2. Readers' = Readers /\ Writers' = Writers
      BY <3>1 DEF Readers, Writers
    <3> QED
      BY <3>1, <3>2 DEF LatchInv, LatchTypeOK, NoLostWakeup
  <2> QED
    BY <2>1, <2>2, <2>3, <2>4, <2>5, <2>6
<1> QED
  BY <1>1, <1>2

\* ReaderWriterLatch excludes writers from each other and from readers, for
\* any finite number of threads below MAX_READERS.
THEOREM LatchMutualExclusion == LatchSpec => []MutualExclusion
<1>1. LatchInv => MutualExclusion
  BY DEF LatchInv, MutualExclusion, Readers, Writers
<1> QED
  BY <1>1, LatchInitial, LatchInductive, PTL DEF LatchSpec

\* The notifications of ReaderWriterLatch are enough: no thread sleeps while
\* what it waits for holds.
THEOREM LatchNoLostWakeup == LatchSpec => []NoLostWakeup
<1>1. LatchInv => NoLostWakeup
  BY DEF LatchInv
<1> QED
  BY <1>1, LatchInitial, LatchInductive, PTL DEF LatchSpec

-----------------------------------------------------------------------------
(* The map and its latch *)

\* The steps of one thread.
Step(t) ==
  \/ Call(t) \/ LoadSegment(t) \/ CreateSegment(t) \/ Lock(t) \/ StartWalk(t) \/ Walk(t) \/ Unlock(t)
  \/ Wake(t) \/ Write(t)

\* Every step of the map is a step of the latch or leaves it alone.
LEMMA HashStep == [HashNext]_mapVars => [LatchNext]_latch
<1> SUFFICES ASSUME [HashNext]_mapVars PROVE [LatchNext]_latch
  OBVIOUS
<1>1. CASE UNCHANGED mapVars
  BY <1>1 DEF mapVars, latch
<1>2. CASE HashNext
  <2> PICK t \in Thread : Step(t)
    BY <1>2 DEF HashNext, Step
  <2>1. CASE Call(t) \/ LoadSegment(t) \/ CreateSegment(t) \/ StartWalk(t) \/ Walk(t) \/ Write(t)
    BY <2>1, Zenon DEF Call, LoadSegment, CreateSegment, StartWalk, Walk, Write
  <2>2. CASE Lock(t)
    BY <2>2 DEF Lock, LatchNext
  <2>3. CASE Unlock(t)
    BY <2>3 DEF Unlock, LatchNext
  <2>4. CASE Wake(t)
    BY <2>4 DEF Wake, LatchNext
  <2> QED
    BY <2>1, <2>2, <2>3, <2>4 DEF Step
<1> QED
  BY <1>1, <1>2

\* The map uses its latch as the latch expects: the threads of the storage
\* behave, as far as the latch sees them, as users of ReaderWriterLatch.
THEOREM MapUsesLatch == HashSpec => LatchSpec
<1>1. HashInit => LatchInit
  BY DEF HashInit
<1> QED
  BY <1>1, HashStep, PTL DEF HashSpec, LatchSpec

\* So the exclusion and the wakeups of the latch hold for the threads of the
\* map.
THEOREM MapMutualExclusion == HashSpec => [](MutualExclusion /\ NoLostWakeup)
BY MapUsesLatch, LatchMutualExclusion, LatchNoLostWakeup, PTL

-----------------------------------------------------------------------------
(* Folds *)

\* A set of naturals that is not empty has a least element.
LEMMA Least ==
  ASSUME NEW S \in SUBSET Nat, S # {}
  PROVE  \E n \in S : \A m \in S : n <= m
<1>1. PICK n \in S : \A m \in S : <<m, n>> \notin OpToRel(<, Nat)
  BY NatLessThanWellFounded, WFMin, Zenon
<1>2. \A m \in S : ~(m < n)
  BY <1>1, Zenon DEF OpToRel
<1> QED
  BY <1>2

\* Induction up to n, over a set.
LEMMA UpTo ==
  ASSUME NEW n \in Nat, NEW S, 0 \in S, \A k \in 0 .. n - 1 : k \in S => k + 1 \in S
  PROVE  \A k \in 0 .. n : k \in S
<1> DEFINE T == {k \in 0 .. n : k \notin S}
<1> SUFFICES ASSUME T # {} PROVE FALSE
  OBVIOUS
<1>1. PICK k \in T : \A m \in T : k <= m
  <2>1. T \in SUBSET Nat
    OBVIOUS
  <2> HIDE DEF T
  <2> QED BY <2>1, Least
<1>2. k # 0 /\ k - 1 \in 0 .. n - 1 /\ ~(k <= k - 1)
  BY <1>1
<1>3. k - 1 \in S
  BY <1>1, <1>2
<1> QED
  BY <1>1, <1>2, <1>3

\* The greatest of a set of positions that contains the last one.
LEMMA MaxLast ==
  ASSUME NEW n \in Nat, NEW s \in SUBSET (1 .. n), n \in s
  PROVE  Max(s) = n
<1>1. \A y \in s : y \in Int /\ n >= y
  OBVIOUS
<1>2. \E x \in s : \A y \in s : x >= y
  BY <1>1
<1>3. Max(s) \in s /\ \A y \in s : Max(s) >= y
  BY <1>2, Zenon DEF Max
<1> DEFINE m == Max(s)
<1>4. m \in Int /\ n >= m /\ m >= n
  <2> HIDE DEF m
  <2> QED BY <1>1, <1>3, Zenon DEF m
<1> HIDE DEF m
<1>5. m = n
  BY <1>4
<1> QED
  BY <1>5 DEF m

\* A set of positions that is not empty has a greatest element.
LEMMA MaxIn ==
  ASSUME NEW n \in Nat, NEW s \in SUBSET (1 .. n), s # {}
  PROVE  Max(s) \in 1 .. n
<1> DEFINE T == {n - x : x \in s}
<1>1. T \in SUBSET Nat /\ T # {}
  <2>1. \A x \in s : n - x \in Nat
    OBVIOUS
  <2> QED BY <2>1, Zenon
<1>2. PICK m \in T : \A y \in T : m <= y
  <2> HIDE DEF T
  <2> QED BY <1>1, Least
<1>3. PICK x \in s : m = n - x
  BY <1>2
<1>4. ASSUME NEW y \in s PROVE x >= y
  <2>1. n - x <= n - y
    BY <1>2, <1>3, Zenon
  <2>2. x \in Int /\ y \in Int /\ n \in Int
    OBVIOUS
  <2> HIDE DEF T
  <2> QED BY <2>1, <2>2
<1>5. Max(s) \in s
  BY <1>3, <1>4, Zenon DEF Max
<1> QED
  BY <1>5, Zenon

IsFold(g, n, Y, c, D) ==
  /\ g \in [SUBSET (1 .. n) -> Y]
  /\ \A s \in SUBSET (1 .. n) : g[s] = IF s = {} THEN c ELSE D[<<g[s \ {Max(s)}], Max(s)>>]

\* What a fold of the module Folds defines exists: a fold over positions 1 .. n with
\* the steps of D from c.
LEMMA FoldExists ==
  ASSUME NEW n \in Nat, NEW Y, NEW c \in Y, NEW D \in [Y \X (1 .. n) -> Y]
  PROVE  \E g : IsFold(g, n, Y, c, D)
<1> USE DEF IsFold
<1> DEFINE Fits(g, k) == IsFold(g, k, Y, c, D)
<1> DEFINE S == {k \in 0 .. n : \E g : Fits(g, k)}
<1>1. 0 \in S
  <2> DEFINE g == [s \in SUBSET (1 .. 0) |-> c]
  <2>1. \A s \in SUBSET (1 .. 0) : s = {}
    OBVIOUS
  <2>2. Fits(g, 0)
    BY <2>1
  <2>3. 0 \in 0 .. n
    OBVIOUS
  <2> HIDE DEF Fits
  <2> QED BY <2>2, <2>3
<1>2. ASSUME NEW k \in 0 .. n - 1, k \in S PROVE k + 1 \in S
  <2>1. PICK g : Fits(g, k)
    BY <1>2, Zenon
  <2> DEFINE h == [s \in SUBSET (1 .. k + 1) |->
                     IF k + 1 \in s THEN D[<<g[s \ {k + 1}], k + 1>>] ELSE g[s]]
  <2>2. \A s \in SUBSET (1 .. k + 1) : s \ {k + 1} \in SUBSET (1 .. k)
    OBVIOUS
  <2>3. \A s \in SUBSET (1 .. k + 1) : k + 1 \notin s => s \in SUBSET (1 .. k)
    OBVIOUS
  <2>4. h \in [SUBSET (1 .. k + 1) -> Y]
    <3>1. ASSUME NEW s \in SUBSET (1 .. k + 1) PROVE h[s] \in Y
      <4>1. CASE k + 1 \in s
        <5>1. g[s \ {k + 1}] \in Y
          BY <2>1, <2>2
        <5>2. k + 1 \in 1 .. n
          OBVIOUS
        <5> QED BY <4>1, <5>1, <5>2
      <4>2. CASE k + 1 \notin s
        BY <4>2, <2>1, <2>3
      <4> QED BY <4>1, <4>2
    <3> QED BY <3>1, Zenon
  <2>5. ASSUME NEW s \in SUBSET (1 .. k + 1)
        PROVE  h[s] = IF s = {} THEN c ELSE D[<<h[s \ {Max(s)}], Max(s)>>]
    <3>1. CASE k + 1 \in s
      <4>1. Max(s) = k + 1
        BY <3>1, MaxLast
      <4>2. h[s \ {k + 1}] = g[s \ {k + 1}]
        BY <2>2
      <4> QED BY <3>1, <4>1, <4>2
    <3>2. CASE k + 1 \notin s
      <4>1. s \in SUBSET (1 .. k) /\ s \ {Max(s)} \in SUBSET (1 .. k)
        BY <3>2, <2>3, Zenon
      <4>2. h[s] = g[s] /\ h[s \ {Max(s)}] = g[s \ {Max(s)}]
        BY <3>2, <4>1
      <4> QED BY <2>1, <4>1, <4>2
    <3> QED BY <3>1, <3>2
  <2>6. Fits(h, k + 1)
    <3> HIDE DEF h
    <3> QED BY <2>4, <2>5, Zenon
  <2>7. k + 1 \in 0 .. n
    OBVIOUS
  <2> HIDE DEF Fits
  <2> QED BY <2>6, <2>7
<1>3. n \in S
  <2> HIDE DEF S
  <2>1. \A k \in 0 .. n - 1 : k \in S => k + 1 \in S
    BY <1>2
  <2> QED BY <1>1, <2>1, UpTo
<1> QED
  BY <1>3, Zenon

-----------------------------------------------------------------------------
(* Buckets *)

Node == Key \X Value

NodesIn(bs) == UNION {Range(bs[i]) : i \in DOMAIN bs}

OthersIn(bs, k) == {node \in NodesIn(bs) : node[1] # k}

KeysIn(bs) == {node[1] : node \in NodesIn(bs)}

DistinctKeys(list) ==
  \A i, j \in 1 .. Len(list) : list[i][1] = list[j][1] => i = j

InBucket(list, n, idx) == \A j \in 1 .. Len(list) : GetIndex(n, Hash[list[j][1]]) = idx

\* An array of n lists: every node is in the list of its key, and no list has a
\* key twice.
BucketsOK(bs, n) ==
  /\ n \in Nat \ {0}
  /\ bs \in [0 .. n - 1 -> Seq(Node)]
  /\ \A i \in 0 .. n - 1 : InBucket(bs[i], n, i)
  /\ \A i \in 0 .. n - 1 : DistinctKeys(bs[i])

\* GetIndex names a bucket.
LEMMA IndexInRange ==
  ASSUME NEW n \in Nat \ {0}, NEW k \in Key
  PROVE  GetIndex(n, Hash[k]) \in 0 .. n - 1
<1> DEFINE shards == 2^ShardBits
           h == Hash[k]
<1>1. shards \in Nat \ {0} /\ h \in Nat
  BY MapAssumption
<1> HIDE DEF shards, h
<1>2. h \div shards \in Int
  BY <1>1
<1>3. (h \div shards) % n \in 0 .. n - 1
  BY <1>2
<1> QED
  BY <1>3 DEF GetIndex, shards, h

\* Count is the length of the array.
LEMMA CountIs ==
  ASSUME NEW n \in Nat \ {0}, NEW seg, DOMAIN seg.buckets = 0 .. n - 1
  PROVE  Count(seg) = n
<1>1. Cardinality(0 .. n - 1) = n
  BY FS_Interval
<1> QED
  BY <1>1 DEF Count

\* An element of a list is at some position.
LEMMA ElementAt ==
  ASSUME NEW S, NEW s \in Seq(S), NEW x
  PROVE  x \in Range(s) <=> \E i \in 1 .. Len(s) : x = s[i]
<1>1. DOMAIN s = 1 .. Len(s)
  OBVIOUS
<1> QED
  BY <1>1 DEF Range

\* The elements of two lists put together.
LEMMA Joined ==
  ASSUME NEW S, NEW s \in Seq(S), NEW q \in Seq(S)
  PROVE  /\ s \o q \in Seq(S)
         /\ Len(s \o q) = Len(s) + Len(q) /\ Len(s) \in Nat /\ Len(q) \in Nat
         /\ \A i \in 1 .. Len(s) : (s \o q)[i] = s[i]
         /\ \A i \in 1 .. Len(q) : (s \o q)[Len(s) + i] = q[i]
         /\ Range(s \o q) = Range(s) \cup Range(q)
<1>1. /\ s \o q \in Seq(S)
      /\ Len(s \o q) = Len(s) + Len(q) /\ Len(s) \in Nat /\ Len(q) \in Nat
      /\ \A i \in 1 .. Len(s) : (s \o q)[i] = s[i]
      /\ \A i \in 1 .. Len(q) : (s \o q)[Len(s) + i] = q[i]
  OBVIOUS
<1>2. \A i \in 1 .. Len(s) : i \in 1 .. Len(s \o q)
  BY <1>1
<1>3. \A i \in 1 .. Len(q) : Len(s) + i \in 1 .. Len(s \o q)
  BY <1>1
<1>4. \A i \in 1 .. Len(s \o q) : i \in 1 .. Len(s) \/ \E j \in 1 .. Len(q) : i = Len(s) + j
  <2> SUFFICES ASSUME NEW i \in 1 .. Len(s \o q), i \notin 1 .. Len(s)
               PROVE  \E j \in 1 .. Len(q) : i = Len(s) + j
    OBVIOUS
  <2>1. i - Len(s) \in 1 .. Len(q) /\ i = Len(s) + (i - Len(s))
    BY <1>1
  <2> QED BY <2>1, Zenon
<1>5. DOMAIN (s \o q) = 1 .. Len(s \o q) /\ DOMAIN s = 1 .. Len(s) /\ DOMAIN q = 1 .. Len(q)
  BY <1>1
<1>6. ASSUME NEW i \in 1 .. Len(s \o q) PROVE (s \o q)[i] \in Range(s) \cup Range(q)
  <2>1. CASE i \in 1 .. Len(s)
    BY <2>1, <1>1, <1>5 DEF Range
  <2>2. CASE \E j \in 1 .. Len(q) : i = Len(s) + j
    BY <2>2, <1>1, <1>5, SMTT(30) DEF Range
  <2> QED BY <1>4, <2>1, <2>2
<1>7. Range(s) \subseteq Range(s \o q)
  BY <1>1, <1>2, <1>5 DEF Range
<1>8. Range(q) \subseteq Range(s \o q)
  BY <1>1, <1>3, <1>5, SMTT(30) DEF Range
<1>9. Range(s \o q) \subseteq Range(s) \cup Range(q)
  BY <1>5, <1>6 DEF Range
<1> QED
  BY <1>1, <1>7, <1>8, <1>9

\* The traversal of Rehash meets every node of the table, and no key twice.
LEMMA AllNodesAre ==
  ASSUME NEW seg, NEW n, BucketsOK(seg.buckets, n)
  PROVE  /\ AllNodes(seg) \in Seq(Node)
         /\ Range(AllNodes(seg)) = NodesIn(seg.buckets)
         /\ DistinctKeys(AllNodes(seg))
<1> DEFINE bs == seg.buckets
           Fits(g) == g = [s \in SUBSET (1 .. n) |->
                             IF s = {} THEN <<>> ELSE g[s \ {Max(s)}] \o bs[Max(s) - 1]]
           iter == CHOOSE g : Fits(g)
<1>0. n \in Nat /\ n \in 0 .. n
  BY DEF BucketsOK, InBucket
<1>1. n \in Nat \ {0} /\ bs \in [0 .. n - 1 -> Seq(Node)]
  BY DEF BucketsOK, InBucket
<1>2. AllNodes(seg) = iter[1 .. n]
  <2>1. Count(seg) = n
    BY <1>1, CountIs
  <2> QED BY <2>1, Zenon DEF AllNodes, MapThenFoldSet
<1>3. \E g : Fits(g)
  <2> DEFINE D == [p \in Seq(Node) \X (1 .. n) |-> p[1] \o bs[p[2] - 1]]
  <2>1. D \in [Seq(Node) \X (1 .. n) -> Seq(Node)]
    BY <1>1
  <2>2. PICK g : IsFold(g, n, Seq(Node), <<>>, D)
    <3>1. <<>> \in Seq(Node)
      OBVIOUS
    <3> HIDE DEF D
    <3> QED BY <1>0, <2>1, <3>1, FoldExists, Zenon
  <2>3. ASSUME NEW s \in SUBSET (1 .. n), s # {}
        PROVE  g[s] = g[s \ {Max(s)}] \o bs[Max(s) - 1]
    <3>1. Max(s) \in 1 .. n
      BY <2>3, <1>1, MaxIn
    <3>2. g[s \ {Max(s)}] \in Seq(Node)
      BY <2>2, Zenon DEF IsFold
    <3> QED BY <2>2, <2>3, <3>1, <3>2, Zenon DEF IsFold
  <2>4. g = [s \in SUBSET (1 .. n) |-> IF s = {} THEN <<>> ELSE g[s \ {Max(s)}] \o bs[Max(s) - 1]]
    <3> HIDE DEF D
    <3> QED BY <2>2, <2>3, Zenon DEF IsFold
  <2> QED BY <2>4, <1>1, Zenon
<1>4. Fits(iter)
  BY <1>3, Zenon
<1> HIDE DEF iter
<1>5. iter[{}] = <<>>
  BY <1>4
<1>6. ASSUME NEW k \in 0 .. n - 1 PROVE iter[1 .. k + 1] = iter[1 .. k] \o bs[k]
  <2>1. 1 .. k + 1 \in SUBSET (1 .. n) /\ 1 .. k + 1 # {} /\ (1 .. k + 1) \ {k + 1} = 1 .. k
    BY <1>0
  <2>2. Max(1 .. k + 1) = k + 1
    <3>1. k + 1 \in Nat /\ 1 .. k + 1 \in SUBSET (1 .. k + 1) /\ k + 1 \in 1 .. k + 1
      BY <1>1
    <3> QED BY <3>1, MaxLast
  <2>3. (k + 1) - 1 = k
    OBVIOUS
  <2> QED BY <1>4, <2>1, <2>2, <2>3, Zenon
<1> DEFINE Good(k) == /\ iter[1 .. k] \in Seq(Node)
                      /\ Range(iter[1 .. k]) = UNION {Range(bs[i]) : i \in 0 .. k - 1}
                      /\ DistinctKeys(iter[1 .. k])
           S == {k \in 0 .. n : Good(k)}
<1>7. 0 \in S
  <2>1. 1 .. 0 = {} /\ 0 .. 0 - 1 = {} /\ 0 \in 0 .. n
    BY <1>1
  <2>2. Range(<<>>) = {} /\ <<>> \in Seq(Node) /\ DistinctKeys(<<>>)
    BY DEF Range, DistinctKeys
  <2> QED BY <1>5, <2>1, <2>2, Zenon
<1>8. ASSUME NEW k \in 0 .. n - 1, Good(k) PROVE Good(k + 1)
  <2> DEFINE a == iter[1 .. k]
             b == bs[k]
             ab == iter[1 .. k + 1]
  <2>1. a \in Seq(Node) /\ b \in Seq(Node) /\ ab = a \o b
    BY <1>1, <1>6, <1>8, Zenon
  <2>2. /\ ab \in Seq(Node)
        /\ Len(ab) = Len(a) + Len(b) /\ Len(a) \in Nat /\ Len(b) \in Nat
        /\ \A i \in 1 .. Len(a) : ab[i] = a[i]
        /\ \A i \in 1 .. Len(b) : ab[Len(a) + i] = b[i]
        /\ Range(ab) = Range(a) \cup Range(b)
    <3> HIDE DEF a, b, ab
    <3> QED BY <2>1, Joined
  <2>3. Range(ab) = UNION {Range(bs[i]) : i \in 0 .. (k + 1) - 1}
    <3>1. 0 .. (k + 1) - 1 = (0 .. k - 1) \cup {k}
      OBVIOUS
    <3> QED BY <1>8, <2>2, <3>1
  <2>4. \A i \in 1 .. Len(a) : GetIndex(n, Hash[a[i][1]]) # k
    <3> SUFFICES ASSUME NEW i \in 1 .. Len(a) PROVE GetIndex(n, Hash[a[i][1]]) # k
      OBVIOUS
    <3>1. a[i] \in Range(a)
      BY <2>1 DEF Range
    <3>2. PICK m \in 0 .. k - 1 : a[i] \in Range(bs[m])
      BY <1>8, <3>1
    <3>3. m \in 0 .. n - 1 /\ m # k
      BY <1>1
    <3>4. PICK j \in 1 .. Len(bs[m]) : a[i] = bs[m][j]
      <4>1. bs[m] \in Seq(Node)
        BY <1>1, <3>3
      <4> HIDE DEF a, bs
      <4> QED BY <3>2, <4>1, ElementAt, Zenon
    <3>5. GetIndex(n, Hash[bs[m][j][1]]) = m
      BY <3>3 DEF BucketsOK, InBucket
    <3> QED BY <3>3, <3>4, <3>5
  <2>5. \A j \in 1 .. Len(b) : GetIndex(n, Hash[b[j][1]]) = k
    BY DEF BucketsOK, InBucket
  <2>6. DistinctKeys(a) /\ DistinctKeys(b)
    BY <1>8 DEF BucketsOK, InBucket
  <2>7. DistinctKeys(ab)
    <3> HIDE DEF a, b, ab
    <3> SUFFICES ASSUME NEW i \in 1 .. Len(ab), NEW j \in 1 .. Len(ab), ab[i][1] = ab[j][1], i < j
                 PROVE  FALSE
      BY <2>2 DEF DistinctKeys
    <3>1. CASE j \in 1 .. Len(a)
      BY <2>2, <2>6, <3>1, SMTT(30) DEF DistinctKeys
    <3>2. CASE i \in 1 .. Len(a) /\ j \notin 1 .. Len(a)
      <4>1. j - Len(a) \in 1 .. Len(b) /\ j = Len(a) + (j - Len(a))
        BY <2>2, <3>2
      <4>2. ab[j] = b[j - Len(a)] /\ ab[i] = a[i]
        BY <2>2, <3>2, <4>1, Zenon
      <4> QED BY <2>4, <2>5, <3>2, <4>1, <4>2, SMTT(30)
    <3>3. CASE i \notin 1 .. Len(a)
      <4>1. /\ j - Len(a) \in 1 .. Len(b) /\ j = Len(a) + (j - Len(a))
            /\ i - Len(a) \in 1 .. Len(b) /\ i = Len(a) + (i - Len(a))
            /\ i - Len(a) # j - Len(a)
        BY <2>2, <3>3
      <4>2. ab[j] = b[j - Len(a)] /\ ab[i] = b[i - Len(a)]
        BY <2>2, <4>1, Zenon
      <4> QED BY <2>6, <4>1, <4>2, Zenon DEF DistinctKeys
    <3> QED BY <2>2, <3>1, <3>2, <3>3
  <2> QED BY <2>2, <2>3, <2>7
<1>9. n \in S
  <2>1. \A k \in 0 .. n - 1 : k \in S => k + 1 \in S
    <3> HIDE DEF Good
    <3> QED BY <1>1, <1>8
  <2> HIDE DEF S
  <2>2. \A k \in 0 .. n : k \in S
    BY <1>0, <1>7, <2>1, UpTo
  <2> QED BY <1>0, <2>2
<1>10. UNION {Range(bs[i]) : i \in 0 .. n - 1} = NodesIn(bs)
  BY <1>1 DEF NodesIn
<1> QED
  BY <1>1, <1>2, <1>9, <1>10, Zenon

\* A node of the table is in the list of its key.
LEMMA NodePlace ==
  ASSUME NEW bs, NEW n, BucketsOK(bs, n), NEW node
  PROVE  node \in NodesIn(bs) <=>
           /\ node \in Node
           /\ \E j \in 1 .. Len(bs[GetIndex(n, Hash[node[1]])]) : bs[GetIndex(n, Hash[node[1]])][j] = node
<1>1. n \in Nat \ {0} /\ bs \in [0 .. n - 1 -> Seq(Node)]
  BY DEF BucketsOK, InBucket
<1>2. ASSUME NEW i \in 0 .. n - 1
      PROVE  node \in Range(bs[i]) <=> \E j \in 1 .. Len(bs[i]) : node = bs[i][j]
  <2>1. bs[i] \in Seq(Node)
    BY <1>1
  <2> QED BY <2>1, ElementAt
<1>3. ASSUME node \in NodesIn(bs)
      PROVE  /\ node \in Node
             /\ \E j \in 1 .. Len(bs[GetIndex(n, Hash[node[1]])]) : bs[GetIndex(n, Hash[node[1]])][j] = node
  <2>1. PICK i \in 0 .. n - 1 : node \in Range(bs[i])
    BY <1>1, <1>3 DEF NodesIn
  <2>2. PICK j \in 1 .. Len(bs[i]) : node = bs[i][j]
    BY <1>2, <2>1
  <2>3. GetIndex(n, Hash[node[1]]) = i
    BY <2>2 DEF BucketsOK, InBucket
  <2>4. node \in Node
    BY <1>1, <2>2
  <2> QED BY <2>2, <2>3, <2>4
<1>4. ASSUME node \in Node,
             \E j \in 1 .. Len(bs[GetIndex(n, Hash[node[1]])]) : bs[GetIndex(n, Hash[node[1]])][j] = node
      PROVE  node \in NodesIn(bs)
  <2>1. node[1] \in Key
    BY <1>4 DEF Node
  <2>2. GetIndex(n, Hash[node[1]]) \in 0 .. n - 1
    BY <1>1, <2>1, IndexInRange
  <2> QED BY <1>1, <1>2, <1>4, <2>2 DEF NodesIn
<1> QED
  BY <1>3, <1>4

\* Nodes of the table with the same key are the same.
LEMMA OneNodePerKey ==
  ASSUME NEW bs, NEW n, BucketsOK(bs, n), NEW x \in NodesIn(bs), NEW y \in NodesIn(bs), x[1] = y[1]
  PROVE  x = y
<1> DEFINE idx == GetIndex(n, Hash[x[1]])
<1>1. PICK i \in 1 .. Len(bs[idx]) : bs[idx][i] = x
  BY NodePlace
<1>2. PICK j \in 1 .. Len(bs[idx]) : bs[idx][j] = y
  BY NodePlace
<1>3. idx \in 0 .. n - 1
  <2>1. x \in Node
    BY NodePlace
  <2>2. x[1] \in Key
    BY <2>1 DEF Node
  <2>3. n \in Nat \ {0}
    BY DEF BucketsOK, InBucket
  <2> QED BY <2>2, <2>3, IndexInRange
<1>4. DistinctKeys(bs[idx])
  BY <1>3 DEF BucketsOK, InBucket
<1>5. i = j
  <2> HIDE DEF idx
  <2> QED BY <1>1, <1>2, <1>4 DEF DistinctKeys
<1> QED
  BY <1>1, <1>2, <1>5

Replaced(new, bs, idx, list) == new = [bs EXCEPT ![idx] = list]

\* One list of the table is replaced: the nodes of the others stay.
LEMMA ListReplaced ==
  ASSUME NEW bs, NEW n, BucketsOK(bs, n), NEW idx \in 0 .. n - 1, NEW list \in Seq(Node),
         DistinctKeys(list), InBucket(list, n, idx), NEW new, Replaced(new, bs, idx, list)
  PROVE  /\ BucketsOK(new, n)
         /\ NodesIn(new) = (NodesIn(bs) \ Range(bs[idx])) \cup Range(list)
<1>1. n \in Nat \ {0} /\ bs \in [0 .. n - 1 -> Seq(Node)]
  BY DEF BucketsOK, InBucket
<1>2. /\ new \in [0 .. n - 1 -> Seq(Node)] /\ new[idx] = list
      /\ \A i \in 0 .. n - 1 : i # idx => new[i] = bs[i]
  BY <1>1 DEF Replaced
<1>3. BucketsOK(new, n)
  BY <1>1, <1>2, Zenon DEF BucketsOK, InBucket
<1>4. ASSUME NEW i \in 0 .. n - 1, i # idx, NEW x, x \in Range(bs[i]) PROVE x \notin Range(bs[idx])
  <2>1. bs[i] \in Seq(Node) /\ bs[idx] \in Seq(Node)
    BY <1>1
  <2>2. PICK j \in 1 .. Len(bs[i]) : x = bs[i][j]
    BY <1>4, <2>1, ElementAt
  <2>3. GetIndex(n, Hash[x[1]]) = i
    BY <2>2 DEF BucketsOK, InBucket
  <2>4. \A k \in 1 .. Len(bs[idx]) : x # bs[idx][k]
    BY <1>4, <2>3, SMTT(30) DEF BucketsOK, InBucket
  <2> QED BY <2>1, <2>4, ElementAt
<1>5. DOMAIN bs = 0 .. n - 1 /\ DOMAIN new = 0 .. n - 1
  BY <1>1, <1>2
<1>6. NodesIn(new) \subseteq (NodesIn(bs) \ Range(bs[idx])) \cup Range(list)
  BY <1>2, <1>4, <1>5 DEF NodesIn
<1>7. (NodesIn(bs) \ Range(bs[idx])) \cup Range(list) \subseteq NodesIn(new)
  BY <1>2, <1>5 DEF NodesIn
<1> QED
  BY <1>3, <1>6, <1>7

PutFront(bs, n, node) == [bs EXCEPT ![GetIndex(n, Hash[node[1]])] = <<node>> \o @]

\* A node with a new key is put in front of its list.
LEMMA PutInFront ==
  ASSUME NEW bs, NEW n, BucketsOK(bs, n), NEW node \in Node, node[1] \notin KeysIn(bs)
  PROVE  /\ BucketsOK(PutFront(bs, n, node), n)
         /\ NodesIn(PutFront(bs, n, node)) = NodesIn(bs) \cup {node}
<1> DEFINE idx == GetIndex(n, Hash[node[1]])
           old == bs[idx]
           list == <<node>> \o old
<1>1. n \in Nat \ {0} /\ bs \in [0 .. n - 1 -> Seq(Node)] /\ node[1] \in Key
  BY DEF BucketsOK, Node
<1>2. idx \in 0 .. n - 1
  BY <1>1, IndexInRange, Zenon
<1>3. old \in Seq(Node) /\ <<node>> \in Seq(Node)
  BY <1>1, <1>2
<1>4. /\ list \in Seq(Node) /\ Len(list) = 1 + Len(old) /\ Len(old) \in Nat
      /\ list[1] = node /\ \A j \in 1 .. Len(old) : list[1 + j] = old[j]
      /\ Range(list) = {node} \cup Range(old)
  <2>1. Len(<<node>>) = 1 /\ <<node>>[1] = node /\ Range(<<node>>) = {node}
    BY DEF Range
  <2> DEFINE one == <<node>>
  <2>0. old \in Seq(Node) /\ one \in Seq(Node)
    BY <1>3
  <2> HIDE DEF old, one
  <2>2. /\ one \o old \in Seq(Node)
        /\ Len(one \o old) = Len(one) + Len(old) /\ Len(old) \in Nat
        /\ \A i \in 1 .. Len(one) : (one \o old)[i] = one[i]
        /\ \A i \in 1 .. Len(old) : (one \o old)[Len(one) + i] = old[i]
        /\ Range(one \o old) = Range(one) \cup Range(old)
    BY <2>0, Joined
  <2>3. Len(one) = 1 /\ one[1] = node /\ Range(one) = {node} /\ 1 \in 1 .. 1
    BY <2>1 DEF one
  <2>4. /\ one \o old \in Seq(Node) /\ Len(one \o old) = 1 + Len(old) /\ Len(old) \in Nat
        /\ (one \o old)[1] = node /\ \A j \in 1 .. Len(old) : (one \o old)[1 + j] = old[j]
        /\ Range(one \o old) = {node} \cup Range(old)
    BY <2>2, <2>3
  <2> QED BY <2>4 DEF one
<1>5. \A j \in 1 .. Len(old) : old[j][1] # node[1]
  <2> SUFFICES ASSUME NEW j \in 1 .. Len(old) PROVE old[j][1] # node[1]
    OBVIOUS
  <2>1. old[j] \in Range(old)
    BY <1>3, ElementAt
  <2>2. old[j] \in NodesIn(bs)
    BY <1>1, <1>2, <2>1 DEF NodesIn
  <2> QED BY <2>2 DEF KeysIn
<1>6. DistinctKeys(old) /\ \A j \in 1 .. Len(old) : GetIndex(n, Hash[old[j][1]]) = idx
  BY <1>2, Zenon DEF BucketsOK, InBucket
<1>7. \A j \in 1 .. Len(list) : j = 1 \/ (j - 1 \in 1 .. Len(old) /\ list[j] = old[j - 1])
  <2> SUFFICES ASSUME NEW j \in 1 .. Len(list), j # 1
               PROVE  j - 1 \in 1 .. Len(old) /\ list[j] = old[j - 1]
    OBVIOUS
  <2>1. j - 1 \in 1 .. Len(old) /\ 1 + (j - 1) = j
    BY <1>4
  <2> QED BY <1>4, <2>1, Zenon
<1>8. DistinctKeys(list)
  <2> SUFFICES ASSUME NEW i \in 1 .. Len(list), NEW j \in 1 .. Len(list), list[i][1] = list[j][1]
               PROVE  i = j
    BY Zenon DEF DistinctKeys
  <2> HIDE DEF list, old
  <2>1. ASSUME i # 1, j # 1 PROVE i - 1 = j - 1
    <3>1. /\ i - 1 \in 1 .. Len(old) /\ list[i] = old[i - 1]
          /\ j - 1 \in 1 .. Len(old) /\ list[j] = old[j - 1]
      BY <1>7, <2>1
    <3> QED BY <1>6, <3>1, Zenon DEF DistinctKeys
  <2>2. i = 1 <=> j = 1
    BY <1>4, <1>5, <1>7, Zenon
  <2> QED BY <1>4, <2>1, <2>2
<1>9. InBucket(list, n, idx)
  <2> HIDE DEF list, old
  <2> SUFFICES ASSUME NEW j \in 1 .. Len(list) PROVE GetIndex(n, Hash[list[j][1]]) = idx
    BY Zenon DEF InBucket
  <2>1. CASE j = 1
    BY <1>4, <2>1, Zenon DEF idx
  <2>2. CASE j # 1
    <3>1. j - 1 \in 1 .. Len(old) /\ list[j] = old[j - 1]
      BY <1>7, <2>2, Zenon
    <3>2. GetIndex(n, Hash[old[j - 1][1]]) = idx
      BY <1>6, <3>1, Zenon
    <3> HIDE DEF idx
    <3> QED BY <3>1, <3>2
  <2> QED BY <2>1, <2>2, Zenon
<1>10. Range(old) \subseteq NodesIn(bs)
  BY <1>1, <1>2 DEF NodesIn
<1> DEFINE new == [bs EXCEPT ![idx] = list]
<1>11. BucketsOK(new, n) /\ NodesIn(new) = (NodesIn(bs) \ Range(old)) \cup Range(list)
  <2>1. list \in Seq(Node)
    BY <1>4, Zenon
  <2> HIDE DEF list, idx
  <2>2. Replaced(new, bs, idx, list)
    BY DEF Replaced
  <2> HIDE DEF new
  <2> QED BY <2>2, <1>2, <2>1, <1>8, <1>9, ListReplaced
<1>12. NodesIn(new) = NodesIn(bs) \cup {node}
  <2> HIDE DEF new, list, old
  <2> QED BY <1>4, <1>10, <1>11
<1>13. PutFront(bs, n, node) = new
  BY DEF PutFront
<1> QED
  BY <1>11, <1>12, <1>13, Zenon

\* CreateBuckets: empty lists.
LEMMA NoNodesAtFirst ==
  ASSUME NEW n \in Nat \ {0}
  PROVE  BucketsOK(CreateBuckets(n), n) /\ NodesIn(CreateBuckets(n)) = {}
<1>1. /\ CreateBuckets(n) \in [0 .. n - 1 -> Seq(Node)]
      /\ \A i \in 0 .. n - 1 : CreateBuckets(n)[i] = <<>>
  BY DEF CreateBuckets
<1>2. \A i : InBucket(<<>>, n, i) /\ DistinctKeys(<<>>) /\ Range(<<>>) = {}
  BY DEF InBucket, DistinctKeys, Range
<1> QED
  BY <1>1, <1>2 DEF BucketsOK, NodesIn

\* Rehash (concurrent_hash_map.h:174-197): the new array has twice as many lists,
\* the same nodes, and every node where a lookup searches it now.
LEMMA RehashKeeps ==
  ASSUME NEW seg, NEW n, BucketsOK(seg.buckets, n)
  PROVE  \E bs : /\ Rehash(seg) = [seg EXCEPT !.buckets = bs, !.load = LoadFactorMaxSize(2 * n)]
                 /\ BucketsOK(bs, 2 * n) /\ NodesIn(bs) = NodesIn(seg.buckets)
<1> DEFINE nodes == AllNodes(seg)
           m == Len(nodes)
           c == 2 * Count(seg)
           Y == [0 .. c - 1 -> Seq(Node)]
           first == CreateBuckets(c)
           Fits(g) == g = [s \in SUBSET DOMAIN nodes |->
                             IF s = {} THEN first ELSE PutFront(g[s \ {Max(s)}], c, nodes[Max(s)])]
           iter == CHOOSE g : Fits(g)
<1>1. n \in Nat \ {0} /\ c = 2 * n /\ c \in Nat \ {0}
  <2>1. n \in Nat \ {0} /\ DOMAIN seg.buckets = 0 .. n - 1
    BY DEF BucketsOK
  <2>2. Count(seg) = n
    BY <2>1, CountIs
  <2> QED BY <2>1, <2>2
<1>2. nodes \in Seq(Node) /\ Range(nodes) = NodesIn(seg.buckets) /\ DistinctKeys(nodes)
  BY AllNodesAre, SMTT(30)
<1>3. m \in Nat /\ DOMAIN nodes = 1 .. m /\ \A i \in 1 .. m : nodes[i] \in Node /\ nodes[i][1] \in Key
  BY <1>2 DEF Node
<1>4. first \in Y /\ BucketsOK(first, c) /\ NodesIn(first) = {}
  <2> HIDE DEF c
  <2> QED BY <1>1, NoNodesAtFirst, Zenon DEF BucketsOK
<1>5. Rehash(seg) = [seg EXCEPT !.buckets = iter[DOMAIN nodes], !.load = LoadFactorMaxSize(c)]
  <2> DEFINE moved == MapThenFoldSet(LAMBDA node, bs : [bs EXCEPT ![GetIndex(c, Hash[node[1]])] = <<node>> \o @],
                                     first, LAMBDA i : nodes[i], Max, DOMAIN nodes)
  <2>2. Rehash(seg) = [seg EXCEPT !.buckets = moved, !.load = LoadFactorMaxSize(c)]
    BY Zenon DEF Rehash
  <2>3. moved = iter[DOMAIN nodes]
    <3> HIDE DEF nodes, first, c
    <3> QED BY Zenon DEF MapThenFoldSet, PutFront
  <2> QED BY <2>2, <2>3, Zenon
<1>6. \E g : Fits(g)
  <2> DEFINE D == [p \in Y \X (1 .. m) |-> PutFront(p[1], c, nodes[p[2]])]
  <2>1. ASSUME NEW bs \in Y, NEW i \in 1 .. m PROVE PutFront(bs, c, nodes[i]) \in Y
    <3> DEFINE idx == GetIndex(c, Hash[nodes[i][1]])
    <3>1. idx \in 0 .. c - 1
      <4> HIDE DEF c, nodes
      <4> QED BY <1>1, <1>3, IndexInRange, Zenon
    <3>2. <<nodes[i]>> \o bs[idx] \in Seq(Node)
      <4>1. bs[idx] \in Seq(Node) /\ nodes[i] \in Node
        BY <1>3, <3>1
      <4> HIDE DEF idx, nodes
      <4> QED BY <4>1
    <3> HIDE DEF idx, c, nodes
    <3>3. [bs EXCEPT ![idx] = <<nodes[i]>> \o bs[idx]] \in Y
      BY <3>1, <3>2
    <3> QED BY <3>3 DEF PutFront, idx
  <2>2. D \in [Y \X (1 .. m) -> Y]
    <3> HIDE DEF Y, m
    <3> QED BY <2>1
  <2>3. PICK g : IsFold(g, m, Y, first, D)
    <3> HIDE DEF D, Y, m, first
    <3> QED BY <1>3, <1>4, <2>2, FoldExists, Zenon
  <2>4. ASSUME NEW s \in SUBSET (1 .. m), s # {}
        PROVE  g[s] = PutFront(g[s \ {Max(s)}], c, nodes[Max(s)])
    <3>1. Max(s) \in 1 .. m
      BY <2>4, <1>3, MaxIn
    <3>2. g[s \ {Max(s)}] \in Y
      <4> HIDE DEF D, Y, m, first
      <4> QED BY <2>3, Zenon DEF IsFold
    <3>3. g[s] = D[<<g[s \ {Max(s)}], Max(s)>>]
      <4> HIDE DEF D, Y, m, first
      <4> QED BY <2>3, <2>4, Zenon DEF IsFold
    <3> HIDE DEF Y, m
    <3> QED BY <3>1, <3>2, <3>3
  <2>5. g = [s \in SUBSET (1 .. m) |-> g[s]] /\ g[{}] = first
    <3> HIDE DEF D, Y, m, first
    <3> QED BY <2>3, Zenon DEF IsFold
  <2> HIDE DEF nodes, first, c, m
  <2> QED BY <1>3, <2>4, <2>5, Zenon
<1>7. Fits(iter)
  BY <1>6, Zenon
<1> HIDE DEF iter
<1>8. iter[{}] = first
  BY <1>7
<1>9. ASSUME NEW k \in 0 .. m - 1 PROVE iter[1 .. k + 1] = PutFront(iter[1 .. k], c, nodes[k + 1])
  <2> HIDE DEF m, nodes
  <2>0. m \in Nat
    BY <1>3
  <2>1. 1 .. k + 1 \in SUBSET (1 .. m) /\ 1 .. k + 1 # {} /\ (1 .. k + 1) \ {k + 1} = 1 .. k
    BY <2>0
  <2>2. Max(1 .. k + 1) = k + 1
    BY <1>3, MaxLast
  <2> QED BY <1>3, <1>7, <2>1, <2>2, Zenon
<1> DEFINE Good(k) == /\ BucketsOK(iter[1 .. k], c)
                      /\ NodesIn(iter[1 .. k]) = {nodes[i] : i \in 1 .. k}
           S == {k \in 0 .. m : Good(k)}
<1>10. 0 \in S
  <2>1. 1 .. 0 = {} /\ 0 \in 0 .. m
    BY <1>3
  <2> HIDE DEF m, nodes, first
  <2> QED BY <1>4, <1>8, <2>1
<1>11. ASSUME NEW k \in 0 .. m - 1, Good(k) PROVE Good(k + 1)
  <2> DEFINE old == iter[1 .. k]
             node == nodes[k + 1]
  <2>1. node \in Node /\ k + 1 \in 1 .. m
    BY <1>3
  <2>2. node[1] \notin KeysIn(old)
    <3> SUFFICES ASSUME NEW i \in 1 .. k, nodes[i][1] = node[1] PROVE FALSE
      BY <1>11 DEF KeysIn
    <3>1. i \in 1 .. m /\ k + 1 \in 1 .. m /\ i # k + 1
      BY <1>3
    <3> HIDE DEF nodes
    <3> QED BY <1>2, <3>1 DEF DistinctKeys
  <2>3. /\ BucketsOK(PutFront(old, c, node), c)
        /\ NodesIn(PutFront(old, c, node)) = NodesIn(old) \cup {node}
    <3>1. BucketsOK(old, c)
      BY <1>11
    <3> HIDE DEF old, node, c
    <3> QED BY <2>1, <2>2, <3>1, PutInFront
  <2>4. {nodes[i] : i \in 1 .. k} \cup {node} = {nodes[i] : i \in 1 .. k + 1}
    <3>1. 1 .. k + 1 = (1 .. k) \cup {k + 1}
      BY <1>3
    <3> HIDE DEF nodes
    <3> QED BY <3>1
  <2> HIDE DEF nodes, c
  <2> QED BY <1>9, <1>11, <2>3, <2>4, Zenon
<1>12. m \in S
  <2>1. \A k \in 0 .. m - 1 : k \in S => k + 1 \in S
    <3> HIDE DEF Good, m
    <3> QED BY <1>3, <1>11
  <2> HIDE DEF S, m
  <2>2. \A k \in 0 .. m : k \in S
    BY <1>3, <1>10, <2>1, UpTo, Zenon
  <2> QED BY <1>3, <2>2
<1>13. {nodes[i] : i \in 1 .. m} = NodesIn(seg.buckets)
  BY <1>2, <1>3 DEF Range
<1> DEFINE bs == iter[1 .. m]
<1>14. BucketsOK(bs, c) /\ NodesIn(bs) = NodesIn(seg.buckets)
  <2> HIDE DEF nodes, c
  <2> QED BY <1>12, <1>13, Zenon
<1>15. Rehash(seg) = [seg EXCEPT !.buckets = bs, !.load = LoadFactorMaxSize(c)]
  BY <1>3, <1>5
<1> HIDE DEF bs, c
<1> QED
  BY <1>1, <1>14, <1>15, Zenon

-----------------------------------------------------------------------------
(* A segment under InsertOrUpdate and Erase *)

\* A segment with n lists.
SegmentOK(seg, n) ==
  /\ BucketsOK(seg.buckets, n)
  /\ seg \in [buckets : [0 .. n - 1 -> Seq(Node)], size : Nat, load : Nat]
  /\ IsFiniteSet(NodesIn(seg.buckets)) /\ Cardinality(NodesIn(seg.buckets)) <= seg.size
  /\ seg.size < seg.load /\ seg.load = LoadFactorMaxSize(n)

\* The search of a key in a list.
LEMMA PositionFound ==
  ASSUME NEW list \in Seq(Node), NEW k
  PROVE  \/ /\ Position(list, k) \in 1 .. Len(list) /\ list[Position(list, k)][1] = k
            /\ Position(list, k) > 0
         \/ /\ Position(list, k) = 0 /\ ~(Position(list, k) > 0)
            /\ \A j \in 1 .. Len(list) : list[j][1] # k
<1> DEFINE I == {i \in 1 .. Len(list) : list[i][1] = k}
<1>1. Position(list, k) = IF I # {} THEN Min(I) ELSE 0
  BY Zenon DEF Position
<1>2. CASE I = {}
  BY <1>1, <1>2
<1>3. CASE I # {}
  <2>1. I \in SUBSET Nat
    OBVIOUS
  <2>2. PICK i \in I : \A j \in I : i <= j
    <3> HIDE DEF I
    <3> QED BY <1>3, <2>1, Least
  <2>3. Min(I) \in I
    BY <2>2, Zenon DEF Min
  <2> QED BY <1>1, <1>3, <2>3
<1> QED
  BY <1>2, <1>3

\* The list where a key is searched, and what it holds.
LEMMA FoundInBucket ==
  ASSUME NEW seg, NEW n, BucketsOK(seg.buckets, n), NEW k \in Key
  PROVE  /\ Bucket(seg, k) = seg.buckets[GetIndex(n, Hash[k])]
         /\ Bucket(seg, k) \in Seq(Node)
         /\ Range(Bucket(seg, k)) \subseteq NodesIn(seg.buckets)
<1> DEFINE idx == GetIndex(n, Hash[k])
<1>1. n \in Nat \ {0} /\ seg.buckets \in [0 .. n - 1 -> Seq(Node)] /\ DOMAIN seg.buckets = 0 .. n - 1
  BY DEF BucketsOK
<1>2. Bucket(seg, k) = seg.buckets[idx]
  <2>1. Count(seg) = n
    BY <1>1, CountIs
  <2> QED BY <2>1 DEF Bucket
<1>3. idx \in 0 .. n - 1
  BY <1>1, IndexInRange
<1>4. seg.buckets[idx] \in Seq(Node) /\ Range(seg.buckets[idx]) \subseteq NodesIn(seg.buckets)
  <2> HIDE DEF idx
  <2> QED BY <1>1, <1>3 DEF NodesIn
<1> QED
  BY <1>2, <1>4

WithNode(list, i, node) == [list EXCEPT ![i] = node]

\* Replacing a node of a list by one with the same key.
LEMMA NodeReplaced ==
  ASSUME NEW bs, NEW n, BucketsOK(bs, n), NEW idx \in 0 .. n - 1, NEW i \in 1 .. Len(bs[idx]),
         NEW node \in Node, node[1] = bs[idx][i][1], NEW new, Replaced(new, bs, idx, WithNode(bs[idx], i, node))
  PROVE  BucketsOK(new, n) /\ NodesIn(new) = OthersIn(bs, node[1]) \cup {node}
<1> DEFINE old == bs[idx]
           list == WithNode(old, i, node)
<1>1. n \in Nat \ {0} /\ bs \in [0 .. n - 1 -> Seq(Node)]
  BY DEF BucketsOK
<1>2. old \in Seq(Node) /\ DistinctKeys(old) /\ InBucket(old, n, idx)
  BY <1>1 DEF BucketsOK
<1>3. /\ list \in Seq(Node) /\ Len(list) = Len(old) /\ list[i] = node
      /\ \A j \in 1 .. Len(old) : j # i => list[j] = old[j]
  <2>1. i \in 1 .. Len(old)
    OBVIOUS
  <2> HIDE DEF old
  <2> QED BY <1>2, <2>1 DEF WithNode
<1>4. \A j \in 1 .. Len(old) : list[j][1] = old[j][1]
  BY <1>3, Zenon
<1>5. DistinctKeys(list) /\ InBucket(list, n, idx)
  <2> HIDE DEF list, old
  <2> QED BY <1>2, <1>3, <1>4, Zenon DEF DistinctKeys, InBucket
<1>6. Replaced(new, bs, idx, list)
  OBVIOUS
<1>7. BucketsOK(new, n) /\ NodesIn(new) = (NodesIn(bs) \ Range(old)) \cup Range(list)
  <2>1. list \in Seq(Node)
    BY <1>3, Zenon
  <2> HIDE DEF list
  <2> QED BY <2>1, <1>5, <1>6, ListReplaced
<1>8. \A x : x \in Range(old) <=> \E j \in 1 .. Len(old) : x = old[j]
  <2> HIDE DEF old
  <2> QED BY <1>2, ElementAt
<1>9. \A x : x \in Range(list) <=> \E j \in 1 .. Len(list) : x = list[j]
  <2>1. list \in Seq(Node)
    BY <1>3
  <2> HIDE DEF list
  <2> QED BY <2>1, ElementAt
<1>10. Range(old) \subseteq NodesIn(bs) /\ old[i] \in Range(old) /\ i \in 1 .. Len(old)
  BY <1>1, <1>8 DEF NodesIn
<1>11. \A x \in NodesIn(bs) : x[1] = node[1] => x = old[i]
  BY <1>10, OneNodePerKey
<1>12. \A j \in 1 .. Len(old) : j # i => old[j][1] # node[1]
  <2> HIDE DEF old
  <2> QED BY <1>2, <1>10 DEF DistinctKeys, old
<1>13. ASSUME NEW x PROVE x \in NodesIn(new) <=> x \in OthersIn(bs, node[1]) \cup {node}
  <2> HIDE DEF old, list
  <2>1. ASSUME x \in NodesIn(new) PROVE x = node \/ (x \in NodesIn(bs) /\ x[1] # node[1])
    <3>1. CASE x \in Range(list)
      BY <3>1, <1>3, <1>8, <1>9, <1>10, <1>12
    <3>2. CASE x \in NodesIn(bs) \ Range(old)
      BY <3>2, <1>10, <1>11, Zenon
    <3> QED BY <2>1, <1>7, <3>1, <3>2
  <2>2. node \in NodesIn(new)
    BY <1>3, <1>7, <1>9, <1>10
  <2>3. ASSUME x \in NodesIn(bs), x[1] # node[1] PROVE x \in NodesIn(new)
    <3>1. CASE x \in Range(old)
      <4>1. PICK j \in 1 .. Len(old) : x = old[j]
        BY <3>1, <1>8
      <4>2. j # i
        BY <2>3, <4>1 DEF old
      <4> QED BY <1>3, <1>7, <1>9, <4>1, <4>2, Zenon
    <3>2. CASE x \notin Range(old)
      BY <2>3, <3>2, <1>7
    <3> QED BY <3>1, <3>2
  <2> QED BY <2>1, <2>2, <2>3 DEF OthersIn
<1> QED
  BY <1>7, <1>13

\* Unlinking a node of a list.
LEMMA NodeRemoved ==
  ASSUME NEW bs, NEW n, BucketsOK(bs, n), NEW idx \in 0 .. n - 1, NEW i \in 1 .. Len(bs[idx]),
         NEW new, Replaced(new, bs, idx, Unlink(bs[idx], i))
  PROVE  BucketsOK(new, n) /\ NodesIn(new) = NodesIn(bs) \ {bs[idx][i]}
<1> DEFINE old == bs[idx]
           list == Unlink(old, i)
<1>1. n \in Nat \ {0} /\ bs \in [0 .. n - 1 -> Seq(Node)]
  BY DEF BucketsOK
<1>2. old \in Seq(Node) /\ DistinctKeys(old) /\ InBucket(old, n, idx) /\ i \in 1 .. Len(old)
  BY <1>1 DEF BucketsOK
<1>3. /\ list \in Seq(Node) /\ Len(old) \in Nat /\ Len(list) = Len(old) - 1
      /\ \A j \in 1 .. Len(list) : list[j] = old[IF j < i THEN j ELSE j + 1]
  <2> DEFINE a == SubSeq(old, 1, i - 1)
             b == SubSeq(old, i + 1, Len(old))
  <2>1. Len(old) \in Nat /\ i \in Int
    BY <1>2
  <2>2. /\ a \in Seq(Node) /\ Len(a) = i - 1
        /\ \A j \in 1 .. i - 1 : a[j] = old[j]
    <3> HIDE DEF old
    <3> QED BY <1>2, <2>1
  <2>3. b \in Seq(Node) /\ Len(b) = Len(old) - i
    <3> HIDE DEF old
    <3> QED BY <1>2, <2>1
  <2>4. \A j \in 1 .. Len(old) - i : b[j] = old[i + j]
    <3> HIDE DEF old
    <3> QED BY <1>2, <2>1
  <2> HIDE DEF a, b, old
  <2>5. /\ a \o b \in Seq(Node) /\ Len(a \o b) = Len(a) + Len(b)
        /\ \A j \in 1 .. Len(a) : (a \o b)[j] = a[j]
        /\ \A j \in 1 .. Len(b) : (a \o b)[Len(a) + j] = b[j]
    <3>1. a \in Seq(Node) /\ b \in Seq(Node)
      BY <2>2, <2>3
    <3> QED BY <3>1, Joined
  <2>6. list = a \o b
    BY DEF Unlink, a, b
  <2> HIDE DEF list
  <2>7. Len(list) = Len(old) - 1
    BY <1>2, <2>1, <2>2, <2>3, <2>5, <2>6
  <2>8. ASSUME NEW j \in 1 .. Len(list), j < i PROVE list[j] = old[j]
    BY <2>1, <2>2, <2>5, <2>6, <2>8
  <2>9. ASSUME NEW j \in 1 .. Len(list), ~(j < i) PROVE list[j] = old[j + 1]
    <3> DEFINE m == j - (i - 1)
    <3>1. m \in 1 .. Len(old) - i /\ (i - 1) + m = j /\ i + m = j + 1
      BY <1>2, <2>1, <2>7, <2>9
    <3> HIDE DEF m
    <3>2. list[(i - 1) + m] = b[m] /\ b[m] = old[i + m]
      BY <2>2, <2>3, <2>4, <2>5, <2>6, <3>1, Zenon
    <3> QED BY <3>1, <3>2
  <2> QED BY <2>1, <2>5, <2>6, <2>7, <2>8, <2>9, Zenon
<1>4. \A j \in 1 .. Len(list) : (IF j < i THEN j ELSE j + 1) \in 1 .. Len(old) \ {i}
  <2> HIDE DEF list, old
  <2> QED BY <1>2, <1>3
<1>5. \A j \in 1 .. Len(old) : j # i =>
        \E m \in 1 .. Len(list) : j = IF m < i THEN m ELSE m + 1
  <2> HIDE DEF list, old
  <2> SUFFICES ASSUME NEW j \in 1 .. Len(old), j # i
               PROVE  \E m \in 1 .. Len(list) : j = IF m < i THEN m ELSE m + 1
    OBVIOUS
  <2>1. CASE j < i
    BY <2>1, <1>2, <1>3
  <2>2. CASE j > i
    <3>1. j - 1 \in 1 .. Len(list) /\ ~(j - 1 < i) /\ j = (j - 1) + 1
      BY <2>2, <1>2, <1>3
    <3> QED BY <3>1
  <2>3. j < i \/ j > i
    BY <1>2, <1>3
  <2> QED BY <2>1, <2>2, <2>3
<1>6. DistinctKeys(list)
  <2> HIDE DEF list, old
  <2> SUFFICES ASSUME NEW j \in 1 .. Len(list), NEW m \in 1 .. Len(list), list[j][1] = list[m][1]
               PROVE  j = m
    BY DEF DistinctKeys
  <2> DEFINE At(x) == IF x < i THEN x ELSE x + 1
  <2>1. At(j) \in 1 .. Len(old) /\ At(m) \in 1 .. Len(old) /\ old[At(j)][1] = old[At(m)][1]
    BY <1>3, <1>4, Zenon
  <2>2. At(j) = At(m)
    <3> HIDE DEF At
    <3> QED BY <1>2, <2>1, Zenon DEF DistinctKeys
  <2> QED BY <1>2, <2>2
<1>7. InBucket(list, n, idx)
  <2> HIDE DEF list, old
  <2> QED BY <1>2, <1>3, <1>4, SMTT(30) DEF InBucket
<1>8. Replaced(new, bs, idx, list)
  OBVIOUS
<1>9. BucketsOK(new, n) /\ NodesIn(new) = (NodesIn(bs) \ Range(old)) \cup Range(list)
  <2>1. list \in Seq(Node)
    BY <1>3
  <2> HIDE DEF list
  <2> QED BY <2>1, <1>6, <1>7, <1>8, ListReplaced
<1>10. \A x : x \in Range(old) <=> \E j \in 1 .. Len(old) : x = old[j]
  <2> HIDE DEF old
  <2> QED BY <1>2, ElementAt
<1>11. \A x : x \in Range(list) <=> \E j \in 1 .. Len(list) : x = list[j]
  <2>1. list \in Seq(Node)
    BY <1>3
  <2> HIDE DEF list
  <2> QED BY <2>1, ElementAt
<1>12. Range(old) \subseteq NodesIn(bs)
  BY <1>1 DEF NodesIn
<1>13. Range(list) = Range(old) \ {old[i]}
  <2> HIDE DEF list, old
  <2>1. \A j \in 1 .. Len(old) : j # i => old[j] # old[i]
    BY <1>2 DEF DistinctKeys
  <2>2. ASSUME NEW j \in 1 .. Len(list) PROVE list[j] \in Range(old) \ {old[i]}
    BY <1>3, <1>4, <1>10, <2>1, Zenon
  <2>3. ASSUME NEW j \in 1 .. Len(old), j # i PROVE old[j] \in Range(list)
    BY <1>3, <1>5, <1>11, <2>3, Zenon
  <2>4. Range(list) \subseteq Range(old) \ {old[i]}
    BY <1>11, <2>2
  <2>5. Range(old) \ {old[i]} \subseteq Range(list)
    BY <1>10, <2>3
  <2> QED BY <2>4, <2>5
<1>14. old[i] \in Range(old)
  <2> HIDE DEF old
  <2> QED BY <1>2, <1>10
<1> QED
  <2>1. NodesIn(new) = NodesIn(bs) \ {old[i]}
    <3> HIDE DEF old, list
    <3> QED BY <1>9, <1>12, <1>13, <1>14
  <2> QED BY <1>9, <2>1

\* The load factor: a table of twice as many lists takes more keys.
LEMMA LoadGrows ==
  ASSUME NEW n \in Nat \ {0}
  PROVE  /\ LoadFactorMaxSize(n) \in Nat /\ LoadFactorMaxSize(2 * n) \in Nat
         /\ 0 < LoadFactorMaxSize(n) /\ LoadFactorMaxSize(n) < LoadFactorMaxSize(2 * n)
BY DEF LoadFactorMaxSize

\* What a call leaves in the table.
AfterWrite(seg, new, k, added) ==
  /\ \E n : SegmentOK(new, n)
  /\ NodesIn(new.buckets) = OthersIn(seg.buckets, k) \cup added

\* InsertOrUpdate (concurrent_hash_map.h:90-138) stores the value under its key,
\* replaces the old one if there is one, and keeps the table well formed.
LEMMA Inserted ==
  ASSUME NEW seg, NEW n, SegmentOK(seg, n), NEW k \in Key, NEW v \in Value
  PROVE  AfterWrite(seg, InsertOrUpdate(seg, k, v), k, {<<k, v>>})
<1> DEFINE bs == seg.buckets
           idx == GetIndex(n, Hash[k])
           list == bs[idx]
           i == Position(list, k)
           node == <<k, v>>
           nodes == NodesIn(bs)
<1>1. /\ n \in Nat \ {0} /\ BucketsOK(bs, n) /\ bs \in [0 .. n - 1 -> Seq(Node)]
      /\ seg.size \in Nat /\ seg.load = LoadFactorMaxSize(n) /\ seg.size < seg.load
      /\ seg = [buckets |-> bs, size |-> seg.size, load |-> seg.load]
      /\ IsFiniteSet(nodes) /\ Cardinality(nodes) <= seg.size
  BY Zenon DEF SegmentOK, BucketsOK
<1>2. idx \in 0 .. n - 1
  BY <1>1, IndexInRange
<1>3. Count(seg) = n
  BY <1>1, CountIs
<1>4. node \in Node /\ node[1] = k
  BY DEF Node
<1>5. list \in Seq(Node)
  BY <1>1, <1>2
<1>6. \A x \in nodes : x[1] = k => \E j \in 1 .. Len(list) : list[j] = x
  <2> HIDE DEF bs
  <2> QED BY <1>1, NodePlace, SMTT(30)
<1>7. Range(list) \subseteq nodes
  <2> HIDE DEF idx
  <2> QED BY <1>1, <1>2 DEF NodesIn
<1> DEFINE new == IF i > 0 THEN [seg EXCEPT !.buckets[idx][i] = <<k, v>>]
                  ELSE [seg EXCEPT !.buckets[idx] = <<<<k, v>>>> \o @, !.size = @ + 1]
<1>8. InsertOrUpdate(seg, k, v) = IF new.size >= new.load THEN Rehash(new) ELSE new
  BY <1>3 DEF InsertOrUpdate
<1>9. CASE i > 0
  <2> DEFINE bs2 == [bs EXCEPT ![idx] = WithNode(bs[idx], i, node)]
  <2>1. i \in 1 .. Len(list) /\ list[i][1] = k
    <3> HIDE DEF list
    <3> QED BY <1>5, <1>9, PositionFound
  <2>2. Replaced(bs2, bs, idx, WithNode(bs[idx], i, node))
    BY Zenon DEF Replaced
  <2>3. BucketsOK(bs2, n) /\ NodesIn(bs2) = OthersIn(bs, node[1]) \cup {node}
    <3>1. /\ BucketsOK(bs, n) /\ i \in 1 .. Len(bs[idx])
          /\ node \in Node /\ node[1] = bs[idx][i][1]
      BY <1>1, <1>4, <2>1, Zenon
    <3> HIDE DEF bs2, bs, idx, i, node
    <3> QED BY <1>2, <2>2, <3>1, NodeReplaced
  <2>4. new = [buckets |-> bs2, size |-> seg.size, load |-> seg.load]
    BY <1>1, <1>9, Zenon DEF WithNode
  <2>5. InsertOrUpdate(seg, k, v) = new
    <3>1. ~(new.size >= new.load)
      <4> HIDE DEF new
      <4> QED BY <1>1, <2>4, LoadGrows
    <3> HIDE DEF new
    <3> QED BY <1>8, <3>1
  <2>6. IsFiniteSet(NodesIn(bs2)) /\ Cardinality(NodesIn(bs2)) <= seg.size
    <3> DEFINE rest == OthersIn(bs, k)
    <3>1. list[i] \in nodes /\ list[i] \notin rest
      <4>1. list[i] \in Range(list)
        <5> HIDE DEF list
        <5> QED BY <1>5, <2>1, ElementAt
      <4> QED BY <1>7, <2>1, <4>1, Zenon DEF OthersIn
    <3>2. rest \subseteq nodes \ {list[i]}
      BY <3>1, Zenon DEF OthersIn
    <3>3. /\ IsFiniteSet(nodes \ {list[i]})
          /\ Cardinality(nodes \ {list[i]}) = Cardinality(nodes) - 1
      <4> HIDE DEF nodes, list
      <4> QED BY <1>1, <3>1, FS_RemoveElement
    <3>4. IsFiniteSet(rest) /\ Cardinality(rest) <= Cardinality(nodes \ {list[i]})
      <4> HIDE DEF nodes, list, rest
      <4> QED BY <3>2, <3>3, FS_Subset
    <3>5. /\ IsFiniteSet(rest \cup {node})
          /\ Cardinality(rest \cup {node}) = Cardinality(rest) \/ Cardinality(rest \cup {node}) = Cardinality(rest) + 1
      <4> HIDE DEF rest, node
      <4> QED BY <3>4, FS_AddElement, Zenon
    <3>6. NodesIn(bs2) = rest \cup {node}
      BY <1>4, <2>3, Zenon
    <3>7. /\ Cardinality(nodes) \in Nat /\ Cardinality(rest) \in Nat
          /\ Cardinality(rest) <= Cardinality(nodes) - 1
      <4> HIDE DEF nodes, rest
      <4> QED BY <1>1, <3>3, <3>4, FS_CardinalityType
    <3>8. Cardinality(NodesIn(bs2)) <= Cardinality(rest) + 1
      <4> HIDE DEF rest, bs2
      <4> QED BY <3>5, <3>6, <3>7
    <3> HIDE DEF nodes, rest, bs2
    <3> QED BY <1>1, <3>5, <3>6, <3>7, <3>8
  <2>7. SegmentOK(new, n)
    <3> HIDE DEF new, bs2
    <3>1. bs2 \in [0 .. n - 1 -> Seq(Node)]
      BY <2>3 DEF BucketsOK
    <3> QED BY <1>1, <2>3, <2>4, <2>6, <3>1, LoadGrows, Zenon DEF SegmentOK
  <2>8. NodesIn(new.buckets) = OthersIn(bs, k) \cup {node}
    BY <1>4, <2>3, <2>4, Zenon
  <2> HIDE DEF new
  <2> QED BY <2>5, <2>7, <2>8 DEF AfterWrite
<1>10. CASE ~(i > 0)
  <2> DEFINE bs2 == PutFront(bs, n, node)
  <2>1. \A j \in 1 .. Len(list) : list[j][1] # k
    <3> HIDE DEF list
    <3> QED BY <1>5, <1>10, PositionFound
  <2>2. k \notin KeysIn(bs)
    BY <1>6, <2>1 DEF KeysIn
  <2>3. BucketsOK(bs2, n) /\ NodesIn(bs2) = nodes \cup {node}
    <3> HIDE DEF node, bs
    <3> QED BY <1>1, <1>4, <2>2, PutInFront
  <2>4. new = [buckets |-> bs2, size |-> seg.size + 1, load |-> seg.load]
    BY <1>1, <1>4, <1>10, Zenon DEF PutFront
  <2>5. IsFiniteSet(NodesIn(bs2)) /\ Cardinality(NodesIn(bs2)) <= seg.size + 1
    <3>1. /\ IsFiniteSet(nodes \cup {node})
          /\ Cardinality(nodes \cup {node}) = Cardinality(nodes) \/ Cardinality(nodes \cup {node}) = Cardinality(nodes) + 1
      <4> HIDE DEF nodes, node
      <4> QED BY <1>1, FS_AddElement, Zenon
    <3>2. Cardinality(nodes) \in Nat
      BY <1>1, FS_CardinalityType
    <3> HIDE DEF nodes, node, bs2
    <3> QED BY <1>1, <2>3, <3>1, <3>2
  <2>6. OthersIn(bs, k) = nodes
    BY <2>2 DEF KeysIn, OthersIn
  <2>7. CASE ~(new.size >= new.load)
    <3>1. InsertOrUpdate(seg, k, v) = new
      <4> HIDE DEF new
      <4> QED BY <1>8, <2>7
    <3>2. SegmentOK(new, n)
      <4> HIDE DEF new, bs2
      <4>1. bs2 \in [0 .. n - 1 -> Seq(Node)]
        BY <2>3 DEF BucketsOK
      <4>2. /\ new.buckets = bs2 /\ new.size = seg.size + 1 /\ new.load = LoadFactorMaxSize(n)
            /\ new.size \in Nat /\ new.load \in Nat
        BY <1>1, <2>4, LoadGrows
      <4>3. new \in [buckets : [0 .. n - 1 -> Seq(Node)], size : Nat, load : Nat]
        BY <2>4, <4>1, <4>2
      <4>4. new.size < new.load
        BY <2>7, <4>2
      <4> QED BY <2>3, <2>5, <4>2, <4>3, <4>4, Zenon DEF SegmentOK
    <3>3. NodesIn(new.buckets) = OthersIn(bs, k) \cup {node}
      BY <2>3, <2>4, <2>6, Zenon
    <3> HIDE DEF new
    <3> QED BY <3>1, <3>2, <3>3 DEF AfterWrite
  <2>8. CASE new.size >= new.load
    <3> HIDE DEF new, bs2
    <3>1. InsertOrUpdate(seg, k, v) = Rehash(new)
      BY <1>8, <2>8
    <3>2. new.buckets = bs2 /\ new.size = seg.size + 1
      BY <2>4
    <3>3. BucketsOK(new.buckets, n)
      BY <2>3, <3>2
    <3>4. PICK bs3 :
            /\ Rehash(new) = [new EXCEPT !.buckets = bs3, !.load = LoadFactorMaxSize(2 * n)]
            /\ BucketsOK(bs3, 2 * n) /\ NodesIn(bs3) = NodesIn(new.buckets)
      BY <3>3, RehashKeeps, Zenon
    <3>5. Rehash(new) = [buckets |-> bs3, size |-> seg.size + 1, load |-> LoadFactorMaxSize(2 * n)]
      BY <2>4, <3>4, Zenon
    <3>6. bs3 \in [0 .. 2 * n - 1 -> Seq(Node)]
      BY <3>4 DEF BucketsOK
    <3>7. /\ seg.size + 1 \in Nat /\ LoadFactorMaxSize(2 * n) \in Nat
          /\ seg.size + 1 < LoadFactorMaxSize(2 * n)
      BY <1>1, LoadGrows
    <3>8. SegmentOK(Rehash(new), 2 * n)
      BY <2>5, <3>2, <3>4, <3>5, <3>6, <3>7 DEF SegmentOK
    <3>9. NodesIn(Rehash(new).buckets) = OthersIn(bs, k) \cup {node}
      BY <2>3, <2>6, <3>2, <3>4, <3>5
    <3> QED BY <3>1, <3>8, <3>9 DEF AfterWrite
  <2> QED BY <2>7, <2>8
<1> QED
  BY <1>9, <1>10

\* Erase (concurrent_hash_map.h:140-167) removes the key and nothing else.
LEMMA Erased ==
  ASSUME NEW seg, NEW n, SegmentOK(seg, n), NEW k \in Key
  PROVE  AfterWrite(seg, Erase(seg, k), k, {})
<1> DEFINE bs == seg.buckets
           idx == GetIndex(n, Hash[k])
           list == bs[idx]
           i == Position(list, k)
           nodes == NodesIn(bs)
<1>1. /\ n \in Nat \ {0} /\ BucketsOK(bs, n) /\ bs \in [0 .. n - 1 -> Seq(Node)]
      /\ seg.size \in Nat /\ seg.load = LoadFactorMaxSize(n) /\ seg.size < seg.load
      /\ seg = [buckets |-> bs, size |-> seg.size, load |-> seg.load]
      /\ IsFiniteSet(nodes) /\ Cardinality(nodes) <= seg.size
  BY DEF SegmentOK, BucketsOK
<1>2. idx \in 0 .. n - 1
  BY <1>1, IndexInRange
<1>3. Count(seg) = n
  BY <1>1, CountIs
<1>4. list \in Seq(Node)
  BY <1>1, <1>2
<1>5. \A x \in nodes : x[1] = k => \E j \in 1 .. Len(list) : list[j] = x
  <2> HIDE DEF bs
  <2> QED BY <1>1, NodePlace, SMTT(30)
<1>6. Range(list) \subseteq nodes
  <2> HIDE DEF idx
  <2> QED BY <1>1, <1>2 DEF NodesIn
<1>7. Erase(seg, k) = IF i > 0 THEN [seg EXCEPT !.buckets[idx] = Unlink(@, i)] ELSE seg
  BY <1>3 DEF Erase
<1>8. CASE i > 0
  <2> DEFINE bs2 == [bs EXCEPT ![idx] = Unlink(bs[idx], i)]
             new == Erase(seg, k)
  <2>1. i \in 1 .. Len(list) /\ list[i][1] = k
    <3> HIDE DEF list
    <3> QED BY <1>4, <1>8, PositionFound
  <2>2. Replaced(bs2, bs, idx, Unlink(bs[idx], i))
    BY Zenon DEF Replaced
  <2>3. BucketsOK(bs2, n) /\ NodesIn(bs2) = nodes \ {list[i]}
    <3> HIDE DEF bs2, bs, idx, i
    <3> QED BY <1>1, <1>2, <2>1, <2>2, NodeRemoved
  <2>4. new = [buckets |-> bs2, size |-> seg.size, load |-> seg.load]
    BY <1>1, <1>7, <1>8, Zenon
  <2>5. list[i] \in nodes
    <3>1. list[i] \in Range(list)
      <4> HIDE DEF list
      <4> QED BY <1>4, <2>1, ElementAt, Zenon
    <3> QED BY <1>6, <3>1
  <2>6. nodes \ {list[i]} = OthersIn(bs, k)
    <3>1. \A x \in nodes : x[1] = k => x = list[i]
      <4> HIDE DEF bs, list
      <4> QED BY <1>1, <2>1, <2>5, OneNodePerKey
    <3> QED BY <2>1, <3>1, Zenon DEF OthersIn
  <2>7. IsFiniteSet(NodesIn(bs2)) /\ Cardinality(NodesIn(bs2)) <= seg.size
    <3>1. IsFiniteSet(nodes \ {list[i]}) /\ Cardinality(nodes \ {list[i]}) = Cardinality(nodes) - 1
      <4> HIDE DEF nodes, list
      <4> QED BY <1>1, <2>5, FS_RemoveElement, Zenon
    <3>2. Cardinality(nodes) \in Nat
      BY <1>1, FS_CardinalityType
    <3> HIDE DEF nodes, bs2
    <3> QED BY <1>1, <2>3, <3>1, <3>2
  <2> HIDE DEF new, bs2
  <2>8. bs2 \in [0 .. n - 1 -> Seq(Node)]
    BY <2>3, Zenon DEF BucketsOK
  <2>9. SegmentOK(new, n)
    BY <1>1, <2>3, <2>4, <2>7, <2>8, LoadGrows, Zenon DEF SegmentOK
  <2>10. NodesIn(new.buckets) = OthersIn(bs, k) \cup {}
    BY <2>3, <2>4, <2>6, Zenon
  <2> QED BY <2>9, <2>10 DEF AfterWrite, new
<1>9. CASE ~(i > 0)
  <2>1. \A j \in 1 .. Len(list) : list[j][1] # k
    <3> HIDE DEF list
    <3> QED BY <1>4, <1>9, PositionFound
  <2>2. OthersIn(bs, k) = nodes
    BY <1>5, <2>1, Zenon DEF OthersIn
  <2>3. Erase(seg, k) = seg
    BY <1>7, <1>9
  <2> QED BY <2>2, <2>3 DEF AfterWrite
<1> QED
  BY <1>8, <1>9

-----------------------------------------------------------------------------
(* The calls of the threads *)

\* A call as the model keeps it.
CallOK(c) ==
  /\ c = [kind |-> c.kind, key |-> c.key, value |-> c.value, phase |-> c.phase,
          seg |-> c.seg, idx |-> c.idx, pos |-> c.pos, result |-> c.result]
  /\ c.kind \in {"Get", "InsertOrUpdate", "Erase"} /\ c.key \in Key /\ c.value \in Value
  /\ c.phase \in {"load", "create", "lock", "walk", "unlock"}

\* A call c of a thread that is at place p of the latch, when s is the segment:
\* EnsureSegment returned the segment, and the latch fits the call.
Placed(c, p, s) ==
  /\ c.phase \in {"idle", "load", "create"} => p = "idle"
  /\ c.phase \in {"lock", "walk", "unlock"} => c.seg = s /\ s \in Thread
  /\ p \in {"r_enter", "reading"} => c.kind = "Get"
  /\ p \in {"w_enter", "w_drain", "writing"} => c.kind # "Get"
  /\ c.phase = "walk" => p = "reading"

\* A lookup walks the list of its key and has not met the key yet.
Searched(c, seg) ==
  c.phase = "walk" =>
    /\ c.idx = GetIndex(Count(seg), Hash[c.key])
    /\ c.pos \in 1 .. Len(Bucket(seg, c.key)) + 1
    /\ \A j \in 1 .. c.pos - 1 : Bucket(seg, c.key)[j][1] # c.key

CallsInv ==
  /\ pc \in [Thread -> Places]
  /\ program \in [Thread -> Seq(CallRecord)]
  /\ DOMAIN op = Thread /\ op = [t \in Thread |-> op[t]]
  /\ \A t \in Thread : op[t] = NoCall \/ CallOK(op[t])
  /\ \A t \in Thread : Placed(op[t], pc[t], segment)

ObjectsInv ==
  /\ segment \in Thread \cup {NoSegment}
  /\ DOMAIN object = Thread /\ object = [t \in Thread |-> object[t]]
  /\ \A t \in Thread : SegmentOK(object[t], Count(object[t]))
  /\ \A t \in Thread : t # segment => object[t] = EmptySegment

WalksInv == segment \in Thread => \A t \in Thread : Searched(op[t], object[segment])

\* The inductive invariant of the map.
MapInv == CallsInv /\ ObjectsInv /\ WalksInv

\* A segment that is well formed for some number of lists is so for its own.
LEMMA SizedBy ==
  ASSUME NEW seg, NEW n, SegmentOK(seg, n)
  PROVE  Count(seg) = n
<1>1. n \in Nat \ {0} /\ DOMAIN seg.buckets = 0 .. n - 1
  BY DEF SegmentOK, BucketsOK
<1> QED
  BY <1>1, CountIs

\* A new segment is well formed and has no nodes.
LEMMA EmptySegmentOK ==
  SegmentOK(EmptySegment, Count(EmptySegment)) /\ NodesIn(EmptySegment.buckets) = {}
<1> DEFINE n == InitialBuckets
<1>1. n \in Nat \ {0}
  BY MapAssumption
<1>2. BucketsOK(CreateBuckets(n), n) /\ NodesIn(CreateBuckets(n)) = {}
  <2> HIDE DEF n
  <2> QED BY <1>1, NoNodesAtFirst
<1>3. IsFiniteSet({}) /\ Cardinality({}) = 0
  BY FS_EmptySet
<1>4. /\ EmptySegment = [buckets |-> CreateBuckets(n), size |-> 0, load |-> LoadFactorMaxSize(n)]
      /\ LoadFactorMaxSize(n) \in Nat /\ 0 < LoadFactorMaxSize(n)
  BY <1>1, LoadGrows DEF EmptySegment
<1>5. CreateBuckets(n) \in [0 .. n - 1 -> Seq(Node)]
  BY <1>2 DEF BucketsOK
<1>6. SegmentOK(EmptySegment, n)
  <2> HIDE DEF n
  <2>1. /\ EmptySegment.buckets = CreateBuckets(n) /\ EmptySegment.size = 0
        /\ EmptySegment.load = LoadFactorMaxSize(n)
    BY <1>4
  <2>2. EmptySegment \in [buckets : [0 .. n - 1 -> Seq(Node)], size : Nat, load : Nat]
    BY <1>4, <1>5
  <2>3. 0 <= 0
    OBVIOUS
  <2> QED BY <1>2, <1>3, <1>4, <2>1, <2>2, <2>3, Zenon DEF SegmentOK
<1>7. NodesIn(EmptySegment.buckets) = {}
  BY <1>2, <1>4
<1> QED
  BY <1>6, <1>7, SizedBy

\* At first there is no segment and no call.
LEMMA MapInitial == HashInit => MapInv
<1> SUFFICES ASSUME HashInit PROVE MapInv
  OBVIOUS
<1>1. CallsInv
  <2>1. program \in [Thread -> Seq(CallRecord)]
    BY MapAssumption DEF HashInit
  <2> QED BY <2>1 DEF HashInit, LatchInit, CallsInv, Places, NoCall, Placed
<1>2. ObjectsInv
  BY EmptySegmentOK DEF HashInit, ObjectsInv
<1>3. WalksInv
  BY MapAssumption DEF HashInit, WalksInv
<1> QED
  BY <1>1, <1>2, <1>3 DEF MapInv

\* A step of thread t changes only its own call, which stays a call, and keeps
\* it in its place.
LEMMA CallsStep ==
  ASSUME CallsInv, ObjectsInv, NEW t \in Thread, Step(t)
  PROVE  CallsInv'
<1> DEFINE Kept == /\ pc' \in [Thread -> Places] /\ \A u \in Thread : u # t => pc'[u] = pc[u]
                   /\ segment \in Thread => segment' = segment
                   /\ DOMAIN op' = Thread /\ op' = [u \in Thread |-> op'[u]]
                   /\ \A u \in Thread : u # t => op'[u] = op[u]
           Own == (op'[t] = NoCall \/ CallOK(op'[t])) /\ Placed(op'[t], pc'[t], segment')
           Programs2 == program' \in [Thread -> Seq(CallRecord)]
<1>0. /\ pc \in [Thread -> Places] /\ DOMAIN op = Thread /\ op = [u \in Thread |-> op[u]]
      /\ op[t] = NoCall \/ CallOK(op[t])
      /\ Placed(op[t], pc[t], segment)
      /\ segment \in Thread \cup {NoSegment} /\ NoSegment \notin Thread
  BY MapAssumption DEF CallsInv, ObjectsInv
<1>1. ASSUME Kept, Own, Programs2 PROVE CallsInv'
  <2>1. \A u \in Thread : op'[u] = NoCall \/ CallOK(op'[u])
    BY <1>1, Zenon DEF CallsInv
  <2>2. ASSUME NEW u \in Thread, u # t PROVE Placed(op'[u], pc'[u], segment')
    <3>1. op'[u] = op[u] /\ pc'[u] = pc[u] /\ Placed(op[u], pc[u], segment)
      BY <1>1, <2>2 DEF CallsInv
    <3> QED BY <1>1, <3>1 DEF Placed
  <2>3. \A u \in Thread : Placed(op'[u], pc'[u], segment')
    BY <1>1, <2>2
  <2> QED BY <1>1, <2>1, <2>3 DEF CallsInv
<1>2. CASE Call(t)
  <2>1. Programs2 /\ Head(program[t]) \in CallRecord
    BY <1>2 DEF CallsInv, Call
  <2>2. Kept
    BY <1>0, <1>2, Zenon DEF Call, latch
  <2>3. pc[t] = "idle"
    BY <1>0, <1>2 DEF Call, Placed
  <2>4. Own
    BY <1>0, <1>2, <2>1, <2>3, Zenon DEF Call, latch, CallOK, Placed, CallRecord
  <2> QED BY <1>1, <2>1, <2>2, <2>4
<1>3. CASE LoadSegment(t)
  <2>1. Programs2
    BY <1>3 DEF CallsInv, LoadSegment
  <2>2. Kept
    BY <1>0, <1>3 DEF LoadSegment, latch
  <2>3. CallOK(op[t])
    BY <1>0, <1>3 DEF LoadSegment, NoCall
  <2>4. Own
    BY <1>0, <1>3, <2>3, Zenon DEF LoadSegment, latch, CallOK, Placed
  <2> QED BY <1>1, <2>1, <2>2, <2>4
<1>4. CASE CreateSegment(t)
  <2>1. Programs2
    BY <1>4 DEF CallsInv, CreateSegment
  <2>2. Kept
    BY <1>0, <1>4, Zenon DEF CreateSegment, latch
  <2>3. CallOK(op[t])
    BY <1>0, <1>4 DEF CreateSegment, NoCall
  <2>4. Own
    BY <1>0, <1>4, <2>3, Zenon DEF CreateSegment, latch, CallOK, Placed
  <2> QED BY <1>1, <2>1, <2>2, <2>4
<1>5. CASE Lock(t)
  <2>1. Programs2
    BY <1>5 DEF CallsInv, Lock
  <2>2. Kept
    BY <1>0, <1>5, Zenon DEF Lock, RLock, WLock, TryRLock, TryWLock, Drain, Places
  <2>3. Own
    BY <1>0, <1>5, Zenon DEF Lock, RLock, WLock, TryRLock, TryWLock, Drain, Placed, Places
  <2> QED BY <1>1, <2>1, <2>2, <2>3
<1>6. CASE StartWalk(t)
  <2>1. Programs2
    BY <1>6 DEF CallsInv, StartWalk
  <2>2. Kept
    BY <1>0, <1>6, Zenon DEF StartWalk, latch
  <2>3. CallOK(op[t])
    BY <1>0, <1>6 DEF StartWalk, NoCall
  <2>4. Own
    BY <1>0, <1>6, <2>3, Zenon DEF StartWalk, latch, CallOK, Placed
  <2> QED BY <1>1, <2>1, <2>2, <2>4
<1>7. CASE Walk(t)
  <2>1. Programs2
    BY <1>7, Zenon DEF CallsInv, Walk
  <2>2. PICK r : \/ op' = [op EXCEPT ![t].phase = "unlock", ![t].result = r]
                 \/ op' = [op EXCEPT ![t].pos = @ + 1]
    BY <1>7, Zenon DEF Walk
  <2>3. op[t].phase = "walk" /\ UNCHANGED <<latch, segment>>
    BY <1>7, Zenon DEF Walk
  <2>4. Kept
    BY <1>0, <2>2, <2>3 DEF latch
  <2>5. CallOK(op[t])
    BY <1>0, <2>3 DEF NoCall
  <2>6. Own
    BY <1>0, <2>2, <2>3, <2>5 DEF latch, CallOK, Placed
  <2> QED BY <1>1, <2>1, <2>4, <2>6
<1>8. CASE Unlock(t)
  <2>1. Programs2
    BY <1>8 DEF CallsInv, Unlock
  <2>2. Kept
    BY <1>0, <1>8 DEF Unlock, RUnlock, WUnlock, Places
  <2>3. Own
    BY <1>0, <1>8, Zenon DEF Unlock, RUnlock, WUnlock, Placed, NoCall
  <2> QED BY <1>1, <2>1, <2>2, <2>3
<1>9. CASE Wake(t)
  <2>1. Programs2
    BY <1>9 DEF CallsInv, Wake
  <2>2. Kept
    BY <1>0, <1>9, Zenon DEF Wake, Resume, Spurious, TryRLock, TryWLock, Drain, Places
  <2>3. Own
    BY <1>0, <1>9, Zenon DEF Wake, Resume, Spurious, TryRLock, TryWLock, Drain, Placed, Places
  <2> QED BY <1>1, <2>1, <2>2, <2>3
<1>10. CASE Write(t)
  <2>1. Programs2
    BY <1>10 DEF CallsInv, Write
  <2>2. PICK r : op' = [op EXCEPT ![t].phase = "unlock", ![t].result = r]
    BY <1>10, Zenon DEF Write
  <2>3. op[t].phase = "lock" /\ pc[t] = "writing" /\ UNCHANGED <<latch, segment>>
    BY <1>10 DEF Write
  <2>4. Kept
    BY <1>0, <2>2, <2>3 DEF latch
  <2>5. CallOK(op[t])
    BY <1>0, <2>3 DEF NoCall
  <2>6. Own
    BY <1>0, <2>2, <2>3, <2>5, Zenon DEF latch, CallOK, Placed
  <2> QED BY <1>1, <2>1, <2>4, <2>6
<1> QED
  BY <1>2, <1>3, <1>4, <1>5, <1>6, <1>7, <1>8, <1>9, <1>10 DEF Step

\* What a thread with the write latch does to the table.
LEMMA WriteEffect ==
  ASSUME CallsInv, ObjectsInv, NEW t \in Thread, Write(t)
  PROVE  /\ segment \in Thread /\ CallOK(op[t]) /\ op[t].kind # "Get"
         /\ DOMAIN object' = Thread /\ object' = [u \in Thread |-> object'[u]]
         /\ \A u \in Thread : u # segment => object'[u] = object[u]
         /\ AfterWrite(object[segment], object'[segment], op[t].key,
                       IF op[t].kind = "Erase" THEN {} ELSE {<<op[t].key, op[t].value>>})
<1> DEFINE c == op[t]
           seg == object[segment]
<1>1. c.phase = "lock" /\ pc[t] = "writing"
  BY DEF Write
<1>2. CallOK(c)
  BY <1>1 DEF CallsInv, NoCall
<1>3. segment \in Thread /\ c.seg = segment /\ c.kind # "Get"
  BY <1>1 DEF CallsInv, Placed
<1>4. object' = [object EXCEPT ![segment] = IF c.kind = "Erase" THEN Erase(seg, c.key)
                                            ELSE InsertOrUpdate(seg, c.key, c.value)]
  BY <1>3 DEF Write
<1>5. /\ DOMAIN object' = Thread /\ object' = [u \in Thread |-> object'[u]]
      /\ \A u \in Thread : u # segment => object'[u] = object[u]
      /\ object'[segment] = IF c.kind = "Erase" THEN Erase(seg, c.key) ELSE InsertOrUpdate(seg, c.key, c.value)
  BY <1>3, <1>4 DEF ObjectsInv
<1>6. SegmentOK(seg, Count(seg)) /\ c.key \in Key /\ c.value \in Value
  BY <1>2, <1>3 DEF ObjectsInv, CallOK
<1>7. CASE c.kind = "Erase"
  <2>1. AfterWrite(seg, Erase(seg, c.key), c.key, {})
    <3> HIDE DEF c, seg
    <3> QED BY <1>6, Erased
  <2> QED BY <1>2, <1>3, <1>5, <1>7, <2>1
<1>8. CASE c.kind # "Erase"
  <2>1. AfterWrite(seg, InsertOrUpdate(seg, c.key, c.value), c.key, {<<c.key, c.value>>})
    <3> HIDE DEF c, seg
    <3> QED BY <1>6, Inserted
  <2> QED BY <1>2, <1>3, <1>5, <1>8, <2>1
<1> QED
  BY <1>7, <1>8

\* Every table stays well formed, and only the segment in use is changed.
LEMMA ObjectsStep ==
  ASSUME CallsInv, ObjectsInv, NEW t \in Thread, Step(t)
  PROVE  ObjectsInv'
<1>1. CASE Write(t)
  <2>1. segment' = segment
    BY <1>1 DEF Write
  <2>2. SegmentOK(object'[segment], Count(object'[segment]))
    <3>1. \E n : SegmentOK(object'[segment], n)
      BY <1>1, WriteEffect DEF AfterWrite
    <3> QED BY <3>1, SizedBy
  <2>3. /\ segment \in Thread
        /\ DOMAIN object' = Thread /\ object' = [u \in Thread |-> object'[u]]
        /\ \A u \in Thread : u # segment => object'[u] = object[u]
    BY <1>1, WriteEffect, Zenon
  <2> QED BY <2>1, <2>2, <2>3 DEF ObjectsInv
<1>2. CASE CreateSegment(t)
  <2>1. object' = object /\ segment' \in Thread \cup {NoSegment} /\ (segment = NoSegment \/ segment' = segment)
    BY <1>2 DEF CreateSegment, ObjectsInv
  <2>2. \A u \in Thread : u # segment' => u # segment
    BY <2>1, MapAssumption
  <2> QED BY <2>1, <2>2 DEF ObjectsInv
<1>3. CASE ~Write(t) /\ ~CreateSegment(t)
  <2>1. segment' = segment /\ object' = object
    BY <1>3, Zenon DEF Step, Call, LoadSegment, Lock, StartWalk, Walk, Unlock, Wake
  <2> QED BY <2>1 DEF ObjectsInv
<1> QED
  BY <1>1, <1>2, <1>3

\* The list of a key, in a well-formed table, is a list of nodes.
LEMMA ListOfKey ==
  ASSUME NEW seg, SegmentOK(seg, Count(seg)), NEW k \in Key
  PROVE  Bucket(seg, k) \in Seq(Node)
<1>1. BucketsOK(seg.buckets, Count(seg))
  BY DEF SegmentOK
<1> QED
  BY <1>1, FoundInBucket, Zenon

\* The list a lookup walks is the one of its key, and has the types of one.
LEMMA WalkedBucket ==
  ASSUME MapInv, NEW t \in Thread, op[t].phase \in {"lock", "walk"}
  PROVE  /\ segment \in Thread /\ op[t].seg = segment /\ op[t].key \in Key /\ CallOK(op[t])
         /\ Bucket(object[segment], op[t].key) \in Seq(Node)
         /\ Bucket(object[segment], op[t].key)
              = object[segment].buckets[GetIndex(Count(object[segment]), Hash[op[t].key])]
         /\ op[t].phase = "walk" =>
              object[segment].buckets[op[t].idx] = Bucket(object[segment], op[t].key)
<1>1. segment \in Thread /\ op[t].seg = segment /\ op[t].key \in Key /\ CallOK(op[t])
  BY DEF MapInv, CallsInv, Placed, CallOK, NoCall
<1> DEFINE seg == object[segment]
<1>2. SegmentOK(seg, Count(seg))
  BY <1>1 DEF MapInv, ObjectsInv
<1>3. /\ Bucket(seg, op[t].key) \in Seq(Node)
      /\ Bucket(seg, op[t].key) = seg.buckets[GetIndex(Count(seg), Hash[op[t].key])]
  BY <1>1, <1>2, ListOfKey, Zenon DEF Bucket
<1>4. op[t].phase = "walk" => op[t].idx = GetIndex(Count(seg), Hash[op[t].key])
  BY <1>1, Zenon DEF MapInv, WalksInv, Searched
<1> QED
  BY <1>1, <1>3, <1>4, Zenon

\* A walk starts at the first node and goes on node by node, in a list nobody
\* changes.
LEMMA WalksStep ==
  ASSUME MapInv, MutualExclusion, NEW t \in Thread, Step(t)
  PROVE  WalksInv'
<1>1. SUFFICES ASSUME NEW u \in Thread, op'[u].phase = "walk", segment' \in Thread
               PROVE  Searched(op'[u], object'[segment'])
  BY Zenon DEF WalksInv, Searched
<1>2. /\ DOMAIN op = Thread /\ op = [x \in Thread |-> op[x]]
      /\ \A x \in Thread : Placed(op[x], pc[x], segment)
      /\ segment \in Thread \cup {NoSegment} /\ NoSegment \notin Thread
  BY MapAssumption DEF MapInv, CallsInv, ObjectsInv
<1>3. CASE op'[u] = op[u]
  <2>1. op[u].phase = "walk" /\ pc[u] = "reading" /\ segment \in Thread
    BY <1>1, <1>2, <1>3 DEF Placed
  <2>2. ~Write(t)
    BY <1>2, <2>1, MapAssumption DEF Write, MutualExclusion, Placed
  <2>3. segment' = segment /\ object' = object
    <3>1. CASE CreateSegment(t)
      BY <1>2, <2>1, <3>1 DEF CreateSegment
    <3>2. CASE ~CreateSegment(t)
      BY <2>2, <3>2, Zenon DEF Step, Call, LoadSegment, Lock, StartWalk, Walk, Unlock, Wake
    <3> QED BY <3>1, <3>2
  <2> QED BY <1>3, <2>1, <2>3, Zenon DEF MapInv, WalksInv
<1>4. CASE op'[u] # op[u]
  <2>1. CASE StartWalk(t)
    <3>1. u = t /\ op[t].phase = "lock" /\ segment' = segment /\ object' = object
      BY <1>2, <1>4, <2>1 DEF StartWalk
    <3> DEFINE bucket == Bucket(object[segment], op[t].key)
    <3>2. segment \in Thread /\ op[t].seg = segment /\ bucket \in Seq(Node) /\ CallOK(op[t])
      BY <3>1, WalkedBucket, Zenon
    <3>3. /\ op'[t].pos = 1 /\ op'[t].key = op[t].key
          /\ op'[t].idx = GetIndex(Count(object[op[t].seg]), Hash[op[t].key])
      BY <1>2, <2>1, <3>2 DEF StartWalk, CallOK
    <3>4. Len(bucket) \in Nat
      <4> HIDE DEF bucket
      <4> QED BY <3>2
    <3>5. 1 \in 1 .. Len(bucket) + 1 /\ 1 .. 1 - 1 = {}
      <4> HIDE DEF bucket
      <4> QED BY <3>4
    <3> QED BY <3>1, <3>2, <3>3, <3>5, Zenon DEF Searched
  <2>2. CASE Walk(t)
    <3>1. u = t /\ op[t].phase = "walk" /\ segment' = segment /\ object' = object
      <4>1. PICK r : \/ op' = [op EXCEPT ![t].phase = "unlock", ![t].result = r]
                     \/ op' = [op EXCEPT ![t].pos = @ + 1]
        BY <2>2, Zenon DEF Walk
      <4>2. op[t].phase = "walk" /\ segment' = segment /\ object' = object
        BY <2>2, Zenon DEF Walk
      <4> QED BY <1>2, <1>4, <4>1, <4>2
    <3> DEFINE bucket == Bucket(object[segment], op[t].key)
    <3>2. /\ segment \in Thread /\ op[t].seg = segment /\ bucket \in Seq(Node) /\ CallOK(op[t])
          /\ object[segment].buckets[op[t].idx] = bucket
      BY <3>1, WalkedBucket, Zenon
    <3>3. Searched(op[t], object[segment])
      BY <3>2, Zenon DEF MapInv, WalksInv
    <3>4. \/ op'[t].phase = "unlock"
          \/ /\ op[t].pos <= Len(bucket) /\ bucket[op[t].pos][1] # op[t].key
             /\ op' = [op EXCEPT ![t].pos = @ + 1]
      <4>1. \/ \E r : op' = [op EXCEPT ![t].phase = "unlock", ![t].result = r]
            \/ /\ op[t].pos <= Len(bucket) /\ bucket[op[t].pos][1] # op[t].key
               /\ op' = [op EXCEPT ![t].pos = @ + 1]
        <5> HIDE DEF bucket
        <5> QED BY <2>2, <3>2, Zenon DEF Walk
      <4>2. CASE \E r : op' = [op EXCEPT ![t].phase = "unlock", ![t].result = r]
        BY <1>2, <3>2, <4>2 DEF CallOK
      <4> QED BY <4>1, <4>2, Zenon
    <3>5. /\ op[t].pos <= Len(bucket) /\ bucket[op[t].pos][1] # op[t].key
          /\ op'[t].pos = op[t].pos + 1 /\ op'[t].key = op[t].key /\ op'[t].idx = op[t].idx
      BY <1>1, <1>2, <3>1, <3>2, <3>4 DEF CallOK
    <3>6. /\ op[t].idx = GetIndex(Count(object[segment]), Hash[op[t].key])
          /\ op[t].pos \in 1 .. Len(bucket) + 1
          /\ \A j \in 1 .. op[t].pos - 1 : bucket[j][1] # op[t].key
      BY <3>1, <3>3, Zenon DEF Searched
    <3>7. Len(bucket) \in Nat
      <4> HIDE DEF bucket
      <4> QED BY <3>2
    <3>8. /\ op[t].pos + 1 \in 1 .. Len(bucket) + 1
          /\ \A j \in 1 .. (op[t].pos + 1) - 1 : bucket[j][1] # op[t].key
      <4> DEFINE pos == op[t].pos
      <4> HIDE DEF bucket, pos
      <4>1. pos \in 1 .. Len(bucket) + 1 /\ pos <= Len(bucket) /\ bucket[pos][1] # op[t].key
        BY <3>5, <3>6, Zenon DEF pos
      <4>2. \A j \in 1 .. pos - 1 : bucket[j][1] # op[t].key
        BY <3>6, Zenon DEF pos
      <4>3. \A j \in 1 .. (pos + 1) - 1 : j = pos \/ j \in 1 .. pos - 1
        BY <3>7, <4>1
      <4>4. pos + 1 \in 1 .. Len(bucket) + 1
        BY <3>7, <4>1
      <4> QED BY <4>1, <4>2, <4>3, <4>4, Zenon DEF pos
    <3> QED BY <3>1, <3>5, <3>6, <3>8, Zenon DEF Searched
  <2>3. CASE Call(t) \/ LoadSegment(t) \/ CreateSegment(t)
    BY <1>1, <1>2, <1>4, <2>3 DEF Call, LoadSegment, CreateSegment, MapInv, CallsInv, CallOK, NoCall
  <2>4. CASE Lock(t) \/ Wake(t)
    BY <1>4, <2>4, Zenon DEF Lock, Wake
  <2>5. CASE Unlock(t)
    BY <1>1, <1>2, <1>4, <2>5 DEF Unlock, NoCall
  <2>6. CASE Write(t)
    <3>1. PICK r : op' = [op EXCEPT ![t].phase = "unlock", ![t].result = r]
      BY <2>6, Zenon DEF Write
    <3>2. CallOK(op[t])
      BY <2>6 DEF Write, MapInv, CallsInv, NoCall
    <3> QED BY <1>1, <1>2, <1>4, <3>1, <3>2 DEF CallOK
  <2> QED BY <2>1, <2>2, <2>3, <2>4, <2>5, <2>6 DEF Step
<1> QED
  BY <1>3, <1>4

-----------------------------------------------------------------------------
(* The abstract map *)

\* What a set of nodes stores.
Stored(N) == [k \in {x[1] : x \in N} |-> (CHOOSE x \in N : x[1] = k)[2]]

OneEach(N) == \A x, y \in N : x[1] = y[1] => x = y

\* The map as MapSpec sees it: the value of every key present.
TableMap(seg) == Stored(NodesIn(seg.buckets))

\* The map after a write, and after a removal.
Put(M, k, v) == [x \in DOMAIN M \cup {k} |-> IF x = k THEN v ELSE M[x]]

Without(M, k) == [x \in DOMAIN M \ {k} |-> M[x]]

\* A stored value is the one of the node.
LEMMA StoredAt ==
  ASSUME NEW N, OneEach(N), NEW x \in N
  PROVE  x[1] \in DOMAIN Stored(N) /\ Stored(N)[x[1]] = x[2]
<1> DEFINE y == CHOOSE y \in N : y[1] = x[1]
<1>1. y \in N /\ y[1] = x[1]
  OBVIOUS
<1>2. y = x
  BY <1>1 DEF OneEach
<1> QED
  BY <1>2, Zenon DEF Stored

\* The keys present are those of the nodes.
LEMMA StoredKeys ==
  ASSUME NEW N
  PROVE  /\ \A k : k \in DOMAIN Stored(N) <=> \E x \in N : x[1] = k
         /\ Stored(N) = [k \in DOMAIN Stored(N) |-> Stored(N)[k]]
BY DEF Stored

\* A node put in the place of those of its key.
LEMMA StoredPut ==
  ASSUME NEW N, OneEach(N), NEW k, NEW v,
         NEW M, M = {x \in N : x[1] # k} \cup {<<k, v>>}
  PROVE  Stored(M) = Put(Stored(N), k, v)
<1>1. OneEach(M)
  BY DEF OneEach
<1>2. Stored(M)[k] = v /\ k \in DOMAIN Stored(M)
  <2>1. <<k, v>> \in M /\ <<k, v>>[1] = k /\ <<k, v>>[2] = v
    OBVIOUS
  <2> QED BY <1>1, <2>1, StoredAt, Zenon
<1>3. DOMAIN Stored(M) = DOMAIN Stored(N) \cup {k}
  <2>1. \A j : (\E x \in M : x[1] = j) <=> (\E x \in N : x[1] = j) \/ j = k
    <3>1. <<k, v>> \in M /\ <<k, v>>[1] = k /\ \A x \in M : x[1] = k \/ x \in N
      OBVIOUS
    <3>2. \A x \in N : x[1] = k \/ x \in M
      OBVIOUS
    <3>3. ASSUME NEW j, NEW x \in M, x[1] = j PROVE (\E y \in N : y[1] = j) \/ j = k
      BY <3>1, <3>3, Zenon
    <3>4. ASSUME NEW j, NEW x \in N, x[1] = j PROVE \E y \in M : y[1] = j
      BY <3>1, <3>2, <3>4, Zenon
    <3>5. \E y \in M : y[1] = k
      BY <3>1, Zenon
    <3> QED BY <3>3, <3>4, <3>5, Zenon
  <2>2. \A j : j \in DOMAIN Stored(M) <=> j \in DOMAIN Stored(N) \/ j = k
    BY <2>1, StoredKeys, Zenon
  <2> QED BY <2>2
<1>4. ASSUME NEW j \in DOMAIN Stored(N), j # k PROVE Stored(M)[j] = Stored(N)[j]
  <2>1. PICK x \in N : x[1] = j
    BY StoredKeys
  <2>2. x \in M
    BY <1>4, <2>1
  <2> QED BY <1>1, <2>1, <2>2, StoredAt
<1> QED
  BY <1>2, <1>3, <1>4, StoredKeys DEF Put

\* The nodes of a key taken away.
LEMMA StoredWithout ==
  ASSUME NEW N, OneEach(N), NEW k, NEW M, M = {x \in N : x[1] # k} \cup {}
  PROVE  Stored(M) = Without(Stored(N), k)
<1>1. OneEach(M)
  BY DEF OneEach
<1>2. DOMAIN Stored(M) = DOMAIN Stored(N) \ {k}
  <2>1. \A j : (\E x \in M : x[1] = j) <=> (\E x \in N : x[1] = j) /\ j # k
    OBVIOUS
  <2>2. \A j : j \in DOMAIN Stored(M) <=> j \in DOMAIN Stored(N) /\ j # k
    BY <2>1, StoredKeys, Zenon
  <2> QED BY <2>2, Zenon
<1>3. ASSUME NEW j \in DOMAIN Stored(N), j # k PROVE Stored(M)[j] = Stored(N)[j]
  <2>1. PICK x \in N : x[1] = j
    BY StoredKeys
  <2>2. x \in M
    BY <1>3, <2>1
  <2> QED BY <1>1, <2>1, <2>2, StoredAt
<1> QED
  BY <1>2, <1>3, StoredKeys DEF Without

\* A well-formed table stores a value per key.
LEMMA TableStores ==
  ASSUME NEW seg, SegmentOK(seg, Count(seg))
  PROVE  /\ OneEach(NodesIn(seg.buckets)) /\ Range(AllNodes(seg)) = NodesIn(seg.buckets)
         /\ AllNodes(seg) \in Seq(Node) /\ DistinctKeys(AllNodes(seg))
<1>1. BucketsOK(seg.buckets, Count(seg))
  BY DEF SegmentOK
<1>2. OneEach(NodesIn(seg.buckets))
  BY <1>1, OneNodePerKey DEF OneEach
<1> QED
  BY <1>1, <1>2, AllNodesAre

\* What the end of a walk finds.
LEMMA Looked ==
  ASSUME NEW seg, SegmentOK(seg, Count(seg)), NEW k \in Key
  PROVE  /\ \A i \in 1 .. Len(Bucket(seg, k)) : Bucket(seg, k)[i][1] = k =>
              k \in DOMAIN TableMap(seg) /\ TableMap(seg)[k] = Bucket(seg, k)[i][2]
         /\ (\A i \in 1 .. Len(Bucket(seg, k)) : Bucket(seg, k)[i][1] # k) => k \notin DOMAIN TableMap(seg)
<1> DEFINE list == Bucket(seg, k)
           N == NodesIn(seg.buckets)
<1>1. BucketsOK(seg.buckets, Count(seg))
  BY DEF SegmentOK
<1>2. /\ list \in Seq(Node) /\ Range(list) \subseteq N
      /\ \A node \in N : node[1] = k => \E j \in 1 .. Len(list) : list[j] = node
  <2>1. list \in Seq(Node)
    BY <1>1, FoundInBucket, Zenon
  <2>2. Range(list) \subseteq N
    BY <1>1, FoundInBucket, Zenon
  <2>3. ASSUME NEW node \in N, node[1] = k PROVE \E j \in 1 .. Len(list) : list[j] = node
    <3> DEFINE bs == seg.buckets
               n == Count(seg)
    <3>1. BucketsOK(bs, n) /\ node \in NodesIn(bs) /\ list = bs[GetIndex(n, Hash[k])]
      BY <1>1 DEF Bucket
    <3> HIDE DEF bs, n, list
    <3> QED BY <2>3, <3>1, NodePlace
  <2> QED BY <2>1, <2>2, <2>3, Zenon
<1>3. OneEach(N)
  BY TableStores
<1> HIDE DEF list, N
<1>4. ASSUME NEW i \in 1 .. Len(list), list[i][1] = k
      PROVE  k \in DOMAIN Stored(N) /\ Stored(N)[k] = list[i][2]
  <2>1. list[i] \in N
    BY <1>2 DEF Range
  <2> QED BY <1>3, <1>4, <2>1, StoredAt
<1>5. ASSUME \A i \in 1 .. Len(list) : list[i][1] # k
      PROVE  k \notin DOMAIN Stored(N)
  BY <1>2, <1>5, StoredKeys
<1> QED
  BY <1>4, <1>5, Zenon DEF TableMap, list, N

\* Write finds the key when it is present.
LEMMA Existed ==
  ASSUME NEW seg, SegmentOK(seg, Count(seg)), NEW k \in Key
  PROVE  Position(Bucket(seg, k), k) > 0 <=> k \in DOMAIN TableMap(seg)
<1> DEFINE list == Bucket(seg, k)
<1>1. list \in Seq(Node)
  BY ListOfKey
<1>2. /\ \A i \in 1 .. Len(list) : list[i][1] = k => k \in DOMAIN TableMap(seg)
      /\ (\A i \in 1 .. Len(list) : list[i][1] # k) => k \notin DOMAIN TableMap(seg)
  BY Looked
<1> HIDE DEF list
<1>3. \/ /\ Position(list, k) \in 1 .. Len(list) /\ list[Position(list, k)][1] = k
         /\ Position(list, k) > 0
      \/ /\ Position(list, k) = 0 /\ ~(Position(list, k) > 0)
         /\ \A j \in 1 .. Len(list) : list[j][1] # k
  BY <1>1, PositionFound
<1> QED
  BY <1>2, <1>3, Zenon DEF list

\* A write changes the map as MapSpec says.
LEMMA WrittenMap ==
  ASSUME NEW seg, SegmentOK(seg, Count(seg)), NEW new, NEW k, NEW v
  PROVE  /\ AfterWrite(seg, new, k, {<<k, v>>}) => TableMap(new) = Put(TableMap(seg), k, v)
         /\ AfterWrite(seg, new, k, {}) => TableMap(new) = Without(TableMap(seg), k)
<1> DEFINE N == NodesIn(seg.buckets)
           M == NodesIn(new.buckets)
<1>1. OneEach(N)
  BY TableStores
<1>2. AfterWrite(seg, new, k, {<<k, v>>}) => M = {x \in N : x[1] # k} \cup {<<k, v>>}
  BY DEF AfterWrite, OthersIn
<1>3. AfterWrite(seg, new, k, {}) => M = {x \in N : x[1] # k} \cup {}
  BY DEF AfterWrite, OthersIn
<1> HIDE DEF N, M
<1>4. AfterWrite(seg, new, k, {<<k, v>>}) => Stored(M) = Put(Stored(N), k, v)
  BY <1>1, <1>2, StoredPut
<1>5. AfterWrite(seg, new, k, {}) => Stored(M) = Without(Stored(N), k)
  BY <1>1, <1>3, StoredWithout
<1> QED
  BY <1>4, <1>5, Zenon DEF TableMap, N, M

-----------------------------------------------------------------------------
(* The refinement *)

\* A call as MapSpec sees it.
AbsCall(c) ==
  IF c.kind = "none" THEN [kind |-> "none"]
  ELSE [kind |-> c.kind, key |-> c.key, value |-> c.value,
        done |-> c.phase = "unlock", result |-> c.result]

Calls == [t \in Thread |-> AbstractCall(t)]

\* A step of one call changes the call of one thread.
LEMMA CallChanged ==
  ASSUME CallsInv, NEW t \in Thread, NEW c, op' = [op EXCEPT ![t] = c]
  PROVE  Calls' = [Calls EXCEPT ![t] = AbsCall(c)]
<1>1. \A u \in Thread : AbstractCall(u) = AbsCall(op[u]) /\ AbstractCall(u)' = AbsCall(op'[u])
  BY Zenon DEF AbstractCall, AbsCall
<1>2. Calls = [u \in Thread |-> AbsCall(op[u])] /\ Calls' = [u \in Thread |-> AbsCall(op'[u])]
  BY <1>1 DEF Calls
<1>3. op'[t] = c /\ \A u \in Thread : u # t => op'[u] = op[u]
  BY DEF CallsInv
<1> QED
  BY <1>2, <1>3

\* What MapSpec sees of a call under way.
LEMMA CallSeen ==
  ASSUME NEW t \in Thread, CallOK(op[t])
  PROVE  /\ Calls[t] = [kind |-> op[t].kind, key |-> op[t].key, value |-> op[t].value,
                        done |-> op[t].phase = "unlock", result |-> op[t].result]
         /\ Calls[t] # Map!Idle /\ (Calls[t].done <=> op[t].phase = "unlock")
         /\ Calls[t].kind = op[t].kind /\ Calls[t].key = op[t].key /\ Calls[t].value = op[t].value
<1>1. op[t].kind # "none"
  BY DEF CallOK
<1>2. Calls[t] = [kind |-> op[t].kind, key |-> op[t].key, value |-> op[t].value,
                  done |-> op[t].phase = "unlock", result |-> op[t].result]
  BY <1>1, Zenon DEF Calls, AbstractCall
<1> DEFINE done == op[t].phase = "unlock"
<1>3. /\ Calls[t].kind = op[t].kind /\ Calls[t].key = op[t].key /\ Calls[t].value = op[t].value
      /\ Calls[t].done = done
  <2>1. Calls[t] = [kind |-> op[t].kind, key |-> op[t].key, value |-> op[t].value,
                    done |-> done, result |-> op[t].result]
    BY <1>2, Zenon
  <2> HIDE DEF done
  <2> QED BY <2>1
<1>4. Calls[t] # Map!Idle
  <2>1. Map!Idle.kind = "none"
    BY DEF Map!Idle
  <2> QED BY <1>1, <1>3, <2>1, Zenon
<1> QED
  BY <1>2, <1>3, <1>4, Zenon

\* The map of MapSpec is what the nodes of the table store.
LEMMA ContentsStored ==
  /\ Contents = Stored(Range(AllNodes(Table)))
  /\ Contents' = Stored(Range(AllNodes(Table')))
<1>1. Contents = Stored(Nodes) /\ Contents' = Stored(Nodes')
  BY Zenon DEF Contents, Stored
<1>2. Nodes = Range(AllNodes(Table)) /\ Nodes' = Range(AllNodes(Table'))
  BY Zenon DEF Nodes
<1> QED
  BY <1>1, <1>2, Zenon

\* What a well-formed table stores.
LEMMA ContentsAre ==
  ASSUME NEW seg, SegmentOK(seg, Count(seg))
  PROVE  /\ Table = seg => Contents = TableMap(seg)
         /\ Table' = seg => Contents' = TableMap(seg)
<1>1. Range(AllNodes(seg)) = NodesIn(seg.buckets)
  BY TableStores
<1> QED
  BY <1>1, ContentsStored DEF TableMap

\* The map changes with the table only.
LEMMA ContentsKept == Table' = Table => Contents' = Contents
BY ContentsStored, Zenon

\* A call that takes effect.
LEMMA Applied ==
  ASSUME NEW t \in Thread, Calls[t] # Map!Idle, ~Calls[t].done,
         NEW r, Calls' = [Calls EXCEPT ![t].done = TRUE, ![t].result = r],
         \/ /\ Calls[t].kind = "Get" /\ Contents' = Contents
            /\ r = IF Calls[t].key \in DOMAIN Contents THEN Contents[Calls[t].key] ELSE NotFound
         \/ /\ Calls[t].kind = "InsertOrUpdate" /\ r = (Calls[t].key \in DOMAIN Contents)
            /\ Contents' = Put(Contents, Calls[t].key, Calls[t].value)
         \/ /\ Calls[t].kind = "Erase" /\ r = (Calls[t].key \in DOMAIN Contents)
            /\ Contents' = Without(Contents, Calls[t].key)
  PROVE  Map!Next
<1>1. Map!Apply(t)
  BY Zenon DEF Map!Apply, Calls, Put, Without
<1> QED
  BY <1>1 DEF Map!Next

\* The record of a call of MapSpec, and how it ends.
Seen(kind, key, value, done, result) ==
  [kind |-> kind, key |-> key, value |-> value, done |-> done, result |-> result]

Finished(c, d, r) == [c EXCEPT !.done = d, !.result = r]

LEMMA DoneRecord ==
  ASSUME NEW kind, NEW key, NEW value, NEW done, NEW result, NEW d, NEW r
  PROVE  Finished(Seen(kind, key, value, done, result), d, r) = Seen(kind, key, value, d, r)
<1> DEFINE old == [kind |-> kind, key |-> key, value |-> value, done |-> done, result |-> result]
           x == [old EXCEPT !.done = d, !.result = r]
           y == [kind |-> kind, key |-> key, value |-> value, done |-> d, result |-> r]
           F == {"kind", "key", "value", "done", "result"}
<1>1. /\ DOMAIN old = F /\ old["kind"] = kind /\ old["key"] = key /\ old["value"] = value
  OBVIOUS
<1>2. x = [f \in F |-> x[f]]
  <2> HIDE DEF old
  <2> QED BY <1>1, Zenon
<1>3. x["kind"] = kind /\ x["key"] = key /\ x["value"] = value /\ x["done"] = d /\ x["result"] = r
  <2> HIDE DEF old
  <2> QED BY <1>1
<1>4. y = [f \in F |-> y[f]]
  BY Zenon
<1>5. y["kind"] = kind /\ y["key"] = key /\ y["value"] = value /\ y["done"] = d /\ y["result"] = r
  OBVIOUS
<1>6. x = y
  <2> HIDE DEF x, y
  <2>1. \A f \in F : x[f] = y[f]
    BY <1>3, <1>5
  <2> HIDE DEF F
  <2> QED BY <1>2, <1>4, <2>1
<1> QED
  BY <1>6 DEF Finished, Seen

\* The end of a call: what its record becomes.
LEMMA CallEnds ==
  ASSUME CallsInv, NEW t \in Thread, CallOK(op[t]), NEW r,
         op' = [op EXCEPT ![t].phase = "unlock", ![t].result = r]
  PROVE  Calls' = [Calls EXCEPT ![t].done = TRUE, ![t].result = r]
<1> DEFINE c == [op[t] EXCEPT !.phase = "unlock", !.result = r]
<1>1. op' = [op EXCEPT ![t] = c]
  BY Zenon
<1>2. Calls' = [Calls EXCEPT ![t] = AbsCall(c)]
  <2> HIDE DEF c
  <2> QED BY <1>1, CallChanged, Zenon
<1>3. AbsCall(c) = [kind |-> op[t].kind, key |-> op[t].key, value |-> op[t].value,
                    done |-> TRUE, result |-> r]
  <2>1. /\ op[t].kind # "none" /\ op[t] = [f \in DOMAIN op[t] |-> op[t][f]]
        /\ DOMAIN op[t] = {"kind", "key", "value", "phase", "seg", "idx", "pos", "result"}
    BY DEF CallOK
  <2>2. /\ c.kind = op[t].kind /\ c.key = op[t].key /\ c.value = op[t].value
        /\ c.phase = "unlock" /\ c.result = r
    BY <2>1
  <2> HIDE DEF c
  <2> QED BY <2>1, <2>2, Zenon DEF AbsCall
<1>4. AbsCall(c) = [Calls[t] EXCEPT !.done = TRUE, !.result = r]
  <2> DEFINE done == op[t].phase = "unlock"
             d == TRUE
             old == Seen(op[t].kind, op[t].key, op[t].value, done, op[t].result)
  <2>1. Calls[t] = old
    BY CallSeen DEF Seen
  <2> HIDE DEF c
  <2>2. AbsCall(c) = Seen(op[t].kind, op[t].key, op[t].value, d, r)
    BY <1>3 DEF Seen
  <2> HIDE DEF done, d
  <2>3. Finished(old, d, r) = Seen(op[t].kind, op[t].key, op[t].value, d, r)
    BY DoneRecord
  <2>4. AbsCall(c) = Finished(Calls[t], d, r)
    BY <2>1, <2>2, <2>3, Zenon
  <2> QED BY <2>4, Zenon DEF Finished, d
<1> QED
  BY <1>2, <1>4, Zenon

\* A step inside a call, that MapSpec does not see.
LEMMA CallUnseen ==
  ASSUME CallsInv, NEW t \in Thread, CallOK(op[t]), NEW c, op' = [op EXCEPT ![t] = c],
         op[t].phase # "unlock", c.phase # "unlock", Table' = Table,
         c.kind = op[t].kind, c.key = op[t].key, c.value = op[t].value, c.result = op[t].result
  PROVE  UNCHANGED Map!vars
<1>1. Calls' = [Calls EXCEPT ![t] = AbsCall(c)]
  BY CallChanged, Zenon
<1>2. op[t].kind # "none"
  BY Zenon DEF CallOK
<1>3. AbsCall(c) = Calls[t]
  BY <1>2, CallSeen, Zenon DEF AbsCall
<1>4. Calls' = Calls
  BY <1>1, <1>3, Zenon DEF Calls
<1>5. Contents' = Contents
  BY ContentsKept
<1> QED
  BY <1>4, <1>5 DEF Map!vars, Calls

\* A lookup takes effect when its walk ends, whatever the writers did before.
LEMMA WalkRefines ==
  ASSUME MapInv, NEW t \in Thread, Walk(t)
  PROVE  [Map!Next]_(Map!vars)
<1> DEFINE seg == object[segment]
           k == op[t].key
           bucket == Bucket(seg, k)
           pos == op[t].pos
<1>1. op[t].phase = "walk" /\ segment' = segment /\ object' = object
  BY Zenon DEF Walk
<1>2. /\ segment \in Thread /\ op[t].seg = segment /\ k \in Key /\ CallOK(op[t])
      /\ bucket \in Seq(Node) /\ seg.buckets[op[t].idx] = bucket
  BY <1>1, WalkedBucket, Zenon
<1>3. Table = seg /\ Table' = Table
  BY <1>1, <1>2, MapAssumption, Zenon DEF Table
<1>4. SegmentOK(seg, Count(seg)) /\ CallsInv /\ op[t].kind = "Get"
  BY <1>1, <1>2, Zenon DEF MapInv, ObjectsInv, CallsInv, Placed
<1>5. pos \in 1 .. Len(bucket) + 1 /\ \A j \in 1 .. pos - 1 : bucket[j][1] # k
  BY <1>1, <1>2, Zenon DEF MapInv, WalksInv, Searched
<1>6. /\ Contents = TableMap(seg) /\ Contents' = Contents
      /\ \A i \in 1 .. Len(bucket) : bucket[i][1] = k => k \in DOMAIN Contents /\ Contents[k] = bucket[i][2]
      /\ (\A i \in 1 .. Len(bucket) : bucket[i][1] # k) => k \notin DOMAIN Contents
  <2>1. Contents = TableMap(seg)
    BY <1>3, <1>4, ContentsAre, Zenon
  <2>2. Contents' = Contents
    BY <1>3, ContentsKept
  <2>3. /\ \A i \in 1 .. Len(bucket) : bucket[i][1] = k => k \in DOMAIN TableMap(seg) /\ TableMap(seg)[k] = bucket[i][2]
        /\ (\A i \in 1 .. Len(bucket) : bucket[i][1] # k) => k \notin DOMAIN TableMap(seg)
    BY <1>2, <1>4, Looked, Zenon
  <2> QED BY <2>1, <2>2, <2>3, Zenon
<1>7. \/ /\ pos > Len(bucket) /\ op' = [op EXCEPT ![t].phase = "unlock", ![t].result = NotFound]
      \/ /\ pos <= Len(bucket) /\ bucket[pos][1] = k
         /\ op' = [op EXCEPT ![t].phase = "unlock", ![t].result = bucket[pos][2]]
      \/ op' = [op EXCEPT ![t].pos = @ + 1]
  BY <1>2, Zenon DEF Walk
<1>8. ASSUME NEW r, op' = [op EXCEPT ![t].phase = "unlock", ![t].result = r],
             r = IF k \in DOMAIN Contents THEN Contents[k] ELSE NotFound
      PROVE  Map!Next
  <2>1. Calls' = [Calls EXCEPT ![t].done = TRUE, ![t].result = r]
    BY <1>2, <1>4, <1>8, CallEnds, ZenonT(40)
  <2>2. Calls[t] # Map!Idle /\ ~Calls[t].done /\ Calls[t].kind = "Get" /\ Calls[t].key = k
    BY <1>1, <1>2, <1>4, CallSeen, Zenon
  <2> QED BY <1>6, <1>8, <2>1, <2>2, Applied, Zenon
<1>9. Len(bucket) \in Nat
  <2> HIDE DEF bucket
  <2> QED BY <1>2
<1>10. CASE pos > Len(bucket) /\ op' = [op EXCEPT ![t].phase = "unlock", ![t].result = NotFound]
  <2>1. \A j \in 1 .. Len(bucket) : bucket[j][1] # k
    <3> HIDE DEF bucket, pos, k
    <3> QED BY <1>5, <1>9, <1>10
  <2> QED BY <1>6, <1>8, <1>10, <2>1, Zenon
<1>11. CASE /\ pos <= Len(bucket) /\ bucket[pos][1] = k
            /\ op' = [op EXCEPT ![t].phase = "unlock", ![t].result = bucket[pos][2]]
  <2>1. pos \in 1 .. Len(bucket)
    <3> HIDE DEF bucket, pos
    <3> QED BY <1>5, <1>9, <1>11
  <2> QED BY <1>6, <1>8, <1>11, <2>1, Zenon
<1>12. CASE op' = [op EXCEPT ![t].pos = @ + 1]
  <2> DEFINE c == [op[t] EXCEPT !.pos = @ + 1]
  <2>1. /\ op' = [op EXCEPT ![t] = c] /\ op[t].phase # "unlock"
        /\ c.phase # "unlock" /\ c.kind = op[t].kind /\ c.key = op[t].key /\ c.value = op[t].value
        /\ c.result = op[t].result
    BY <1>1, <1>2, <1>12 DEF CallOK
  <2> HIDE DEF c
  <2> QED BY <1>2, <1>3, <1>4, <2>1, CallUnseen, Zenon
<1> QED
  BY <1>7, <1>10, <1>11, <1>12, Zenon

\* A write and a removal take effect with the change of the table, a rehash
\* included.
LEMMA WriteRefines ==
  ASSUME MapInv, NEW t \in Thread, Write(t)
  PROVE  Map!Next
<1> DEFINE seg == object[segment]
           new == object'[segment]
           k == op[t].key
           v == op[t].value
           r == Position(Bucket(seg, k), k) > 0
<1>1. op[t].phase = "lock" /\ pc[t] = "writing" /\ segment' = segment /\ CallsInv /\ ObjectsInv
  BY DEF Write, MapInv
<1>2. /\ segment \in Thread /\ CallOK(op[t]) /\ op[t].kind # "Get" /\ op[t].seg = segment
      /\ AfterWrite(seg, new, k, IF op[t].kind = "Erase" THEN {} ELSE {<<k, v>>})
  BY <1>1, WriteEffect, Zenon DEF CallsInv, Placed
<1>3. SegmentOK(seg, Count(seg)) /\ SegmentOK(new, Count(new)) /\ k \in Key
  <2>1. PICK n : SegmentOK(new, n)
    BY <1>2, Zenon DEF AfterWrite
  <2> QED BY <1>1, <1>2, <2>1, SizedBy, Zenon DEF ObjectsInv, CallOK
<1>4. Table = seg /\ Table' = new
  BY <1>1, <1>2, MapAssumption, Zenon DEF Table
<1>5. Contents = TableMap(seg) /\ Contents' = TableMap(new)
  <2> HIDE DEF seg, new
  <2> QED BY <1>3, <1>4, ContentsAre
<1>6. op' = [op EXCEPT ![t].phase = "unlock", ![t].result = r]
  BY <1>2, Zenon DEF Write
<1>7. r = (k \in DOMAIN Contents)
  <2>1. r <=> k \in DOMAIN TableMap(seg)
    BY <1>3, Existed, Zenon
  <2> QED BY <1>5, <2>1
<1>8. Calls' = [Calls EXCEPT ![t].done = TRUE, ![t].result = r]
  <2> HIDE DEF r
  <2> QED BY <1>1, <1>2, <1>6, CallEnds, Zenon
<1>9. /\ Calls[t] # Map!Idle /\ ~Calls[t].done /\ Calls[t].kind = op[t].kind
      /\ Calls[t].key = k /\ Calls[t].value = v
  BY <1>1, <1>2, CallSeen, Zenon
<1>10. CASE op[t].kind = "Erase"
  <2>1. AfterWrite(seg, new, k, {})
    BY <1>2, <1>10, Zenon
  <2>2. Contents' = Without(Contents, k)
    <3> HIDE DEF seg, new, k
    <3> QED BY <1>3, <1>5, <2>1, WrittenMap, Zenon
  <2> HIDE DEF r, k, v
  <2> QED BY <1>7, <1>8, <1>9, <1>10, <2>2, Applied, Zenon
<1>11. CASE op[t].kind = "InsertOrUpdate"
  <2>1. AfterWrite(seg, new, k, {<<k, v>>})
    BY <1>2, <1>11, Zenon
  <2>2. Contents' = Put(Contents, k, v)
    <3> HIDE DEF seg, new, k, v
    <3> QED BY <1>3, <1>5, <2>1, WrittenMap
  <2> HIDE DEF r, k, v
  <2> QED BY <1>7, <1>8, <1>9, <1>11, <2>2, Applied, Zenon
<1> QED
  BY <1>2, <1>10, <1>11, Zenon DEF CallOK

\* Every step of the map is a step of MapSpec or invisible to it.
LEMMA StepRefines ==
  ASSUME MapInv, NEW t \in Thread, Step(t)
  PROVE  [Map!Next]_(Map!vars)
<1>1. CallsInv /\ ObjectsInv /\ segment \in Thread \cup {NoSegment}
  BY DEF MapInv, ObjectsInv
<1>2. CASE Call(t)
  <2> DEFINE c == Head(program[t])
             d == [kind |-> c.kind, key |-> c.key, value |-> c.value, phase |-> "load",
                   seg |-> NoSegment, idx |-> 0, pos |-> 0, result |-> NotFound]
             new == [kind |-> c.kind, key |-> c.key, value |-> c.value, done |-> FALSE, result |-> NotFound]
  <2>1. op' = [op EXCEPT ![t] = d] /\ program[t] # << >> /\ op[t].phase = "idle"
    BY <1>2, Zenon DEF Call
  <2>2. segment' = segment /\ object' = object
    BY <1>2 DEF Call
  <2>3. c \in CallRecord
    <3>1. program[t] \in Seq(CallRecord)
      BY <1>1 DEF CallsInv
    <3> DEFINE q == program[t]
    <3>2. q \in Seq(CallRecord) /\ q # << >>
      BY <2>1, <3>1, Zenon
    <3> HIDE DEF q
    <3>3. Head(q) \in CallRecord
      BY <3>2
    <3> QED BY <3>3 DEF q
  <2>4. c.kind \in {"Get", "InsertOrUpdate", "Erase"} /\ c.key \in Key /\ c.value \in Value
    BY <2>3 DEF CallRecord
  <2> HIDE DEF c
  <2>5. AbsCall(d) = new
    <3>1. d.kind = c.kind /\ d.key = c.key /\ d.value = c.value /\ d.phase = "load" /\ d.result = NotFound
      OBVIOUS
    <3>2. c.kind # "none"
      BY <2>4
    <3> HIDE DEF d
    <3> QED BY <3>1, <3>2, Zenon DEF AbsCall
  <2> HIDE DEF d
  <2>6. Calls' = [Calls EXCEPT ![t] = new]
    BY <1>1, <2>1, <2>5, CallChanged, Zenon
  <2>7. Calls[t] = Map!Idle
    <3>1. op[t] = NoCall
      BY <1>1, <2>1, Zenon DEF CallsInv, CallOK
    <3>2. op[t].kind = "none"
      BY <3>1 DEF NoCall
    <3> QED BY <3>2, Zenon DEF Calls, AbstractCall, Map!Idle
  <2>8. Contents' = Contents
    <3>1. Table' = Table
      BY <2>2 DEF Table
    <3> QED BY <3>1, ContentsKept
  <2>9. Map!Call(t, c.kind, c.key, c.value)
    BY <2>6, <2>7, <2>8, Zenon DEF Map!Call, Calls
  <2> QED BY <2>4, <2>9, Zenon DEF Map!Next, Map!Kinds
<1>3. CASE Unlock(t)
  <2>1. /\ op[t].phase = "unlock" /\ op' = [op EXCEPT ![t] = NoCall]
        /\ segment' = segment /\ object' = object
    BY <1>3, Zenon DEF Unlock
  <2>2. CallOK(op[t])
    BY <1>1, <2>1 DEF CallsInv, NoCall
  <2>3. Calls[t] # Map!Idle /\ Calls[t].done
    BY <2>1, <2>2, CallSeen, Zenon
  <2>4. Calls' = [Calls EXCEPT ![t] = Map!Idle]
    <3>1. AbsCall(NoCall) = Map!Idle
      BY Zenon DEF AbsCall, NoCall, Map!Idle
    <3> QED BY <1>1, <2>1, <3>1, CallChanged, Zenon
  <2>5. Contents' = Contents
    <3>1. Table' = Table
      BY <2>1 DEF Table
    <3> QED BY <3>1, ContentsKept
  <2>6. Map!Return(t)
    BY <2>3, <2>4, <2>5, Zenon DEF Map!Return, Calls
  <2> QED BY <2>6, Zenon DEF Map!Next
<1>4. CASE LoadSegment(t)
  <2> DEFINE c == [op[t] EXCEPT !.seg = segment, !.phase = IF segment = NoSegment THEN "create" ELSE "lock"]
  <2>1. op' = [op EXCEPT ![t] = c] /\ op[t].phase = "load" /\ Table' = Table
    BY <1>4, Zenon DEF LoadSegment, Table
  <2>2. CallOK(op[t])
    BY <1>1, <2>1 DEF CallsInv, NoCall
  <2>3. /\ c.phase # "unlock" /\ c.kind = op[t].kind /\ c.key = op[t].key /\ c.value = op[t].value
        /\ c.result = op[t].result
    BY <2>2 DEF CallOK
  <2> HIDE DEF c
  <2> QED BY <1>1, <2>1, <2>2, <2>3, CallUnseen, Zenon
<1>5. CASE CreateSegment(t)
  <2> DEFINE s == segment'
             c == [op[t] EXCEPT !.seg = s, !.phase = "lock"]
  <2>1. /\ s = IF segment = NoSegment THEN t ELSE segment
        /\ op' = [op EXCEPT ![t] = c] /\ op[t].phase = "create" /\ object' = object
    BY <1>5, Zenon DEF CreateSegment
  <2>2. CallOK(op[t])
    BY <1>1, <2>1 DEF CallsInv, NoCall
  <2>3. Table' = Table
    BY <1>1, <2>1, MapAssumption DEF Table, ObjectsInv
  <2> HIDE DEF s
  <2>4. /\ c.phase # "unlock" /\ c.kind = op[t].kind /\ c.key = op[t].key /\ c.value = op[t].value
        /\ c.result = op[t].result
    BY <2>2 DEF CallOK
  <2> HIDE DEF c
  <2> QED BY <1>1, <2>1, <2>2, <2>3, <2>4, CallUnseen, Zenon
<1>6. CASE StartWalk(t)
  <2> DEFINE idx == GetIndex(Count(object[op[t].seg]), Hash[op[t].key])
             c == [op[t] EXCEPT !.phase = "walk", !.pos = 1, !.idx = idx]
  <2>1. op' = [op EXCEPT ![t] = c] /\ op[t].phase = "lock" /\ Table' = Table
    BY <1>6, Zenon DEF StartWalk, Table
  <2>2. CallOK(op[t])
    BY <1>1, <2>1 DEF CallsInv, NoCall
  <2> HIDE DEF idx
  <2>3. /\ c.phase # "unlock" /\ c.kind = op[t].kind /\ c.key = op[t].key /\ c.value = op[t].value
        /\ c.result = op[t].result
    BY <2>2 DEF CallOK
  <2> HIDE DEF c
  <2> QED BY <1>1, <2>1, <2>2, <2>3, CallUnseen, Zenon
<1>7. CASE Lock(t) \/ Wake(t)
  <2>1. op' = op /\ segment' = segment /\ object' = object
    BY <1>7, Zenon DEF Lock, Wake
  <2>2. Table' = Table /\ Calls' = Calls
    BY <2>1, Zenon DEF Table, Calls, AbstractCall
  <2> QED BY <2>2, ContentsKept DEF Map!vars, Calls
<1> QED
  BY <1>2, <1>3, <1>4, <1>5, <1>6, <1>7, WalkRefines, WriteRefines DEF Step

-----------------------------------------------------------------------------
(* The theorems *)

\* The invariant holds at first and is kept by every step: a walk is not
\* disturbed, thanks to the exclusion of the latch.
LEMMA MapInductive == MapInv /\ MutualExclusion /\ [HashNext]_mapVars => MapInv'
<1> SUFFICES ASSUME MapInv, MutualExclusion, [HashNext]_mapVars PROVE MapInv'
  OBVIOUS
<1>1. CASE UNCHANGED mapVars
  BY <1>1, Zenon DEF mapVars, MapInv, CallsInv, ObjectsInv, WalksInv
<1>2. CASE HashNext
  <2> PICK t \in Thread : Step(t)
    BY <1>2 DEF HashNext, Step
  <2>1. CallsInv'
    BY CallsStep DEF MapInv
  <2>2. ObjectsInv'
    BY ObjectsStep DEF MapInv
  <2>3. WalksInv'
    BY WalksStep
  <2> QED BY <2>1, <2>2, <2>3 DEF MapInv
<1> QED
  BY <1>1, <1>2

LEMMA MapInvariance == HashSpec => []MapInv
BY MapInitial, MapInductive, MapMutualExclusion, PTL DEF HashSpec

\* While ConcurrentHashMap::Get walks a bucket nobody changes the table, for
\* any threads, keys, hash function and programs.
THEOREM MapWalkUndisturbed == HashSpec => WalkUndisturbed
<1>1. MapInv /\ MutualExclusion /\ [HashNext]_mapVars
      => [\A t \in Thread : op[t].phase = "walk" => object' = object]_mapVars
  <2> SUFFICES ASSUME MapInv, MutualExclusion, HashNext, NEW u \in Thread, op[u].phase = "walk"
               PROVE  object' = object
    BY DEF mapVars
  <2> PICK t \in Thread : Step(t)
    BY Zenon DEF HashNext, Step
  <2>1. ~Write(t)
    BY DEF Write, MapInv, CallsInv, Placed, MutualExclusion
  <2> QED
    BY <2>1, Zenon DEF Step, Call, LoadSegment, CreateSegment, Lock, StartWalk, Walk, Unlock, Wake
<1> QED
  BY <1>1, MapInvariance, MapMutualExclusion, PTL DEF HashSpec, WalkUndisturbed

\* ConcurrentHashMap is linearizable: with any number of threads that get,
\* insert, update, erase and create the segment at once, and through every
\* rehash, each call takes effect at one moment between its start and its
\* return, as on the map of MapSpec.
THEOREM MapLinearizability == HashSpec => Linearizable
<1>1. HashInit => Map!Init
  <2> SUFFICES ASSUME HashInit PROVE Map!Init
    OBVIOUS
  <2>1. Contents = << >>
    <3>1. Table = EmptySegment
      BY DEF HashInit, Table
    <3>2. Contents = Stored(NodesIn(EmptySegment.buckets))
      BY <3>1, EmptySegmentOK, ContentsAre, Zenon DEF TableMap
    <3>3. Contents = Stored({})
      BY <3>2, EmptySegmentOK
    <3> QED BY <3>3 DEF Stored
  <2>2. \A t \in Thread : AbstractCall(t) = Map!Idle
    BY Zenon DEF HashInit, NoCall, AbstractCall, Map!Idle
  <2> QED BY <2>1, <2>2 DEF Map!Init
<1>2. MapInv /\ [HashNext]_mapVars => [Map!Next]_(Map!vars)
  <2> SUFFICES ASSUME MapInv, [HashNext]_mapVars PROVE [Map!Next]_(Map!vars)
    OBVIOUS
  <2>1. CASE UNCHANGED mapVars
    <3>1. op' = op /\ segment' = segment /\ object' = object
      BY <2>1 DEF mapVars
    <3>2. Table' = Table /\ Calls' = Calls
      BY <3>1, Zenon DEF Table, Calls, AbstractCall
    <3> QED BY <3>2, ContentsKept DEF Map!vars, Calls
  <2>2. CASE HashNext
    BY <2>2, StepRefines DEF HashNext, Step
  <2> QED BY <2>1, <2>2
<1> QED
  BY <1>1, <1>2, MapInvariance, PTL DEF HashSpec, Linearizable, Map!Spec

\* The nodes of a list with distinct keys are as many as its keys.
LEMMA CountedList ==
  ASSUME NEW list \in Seq(Node), DistinctKeys(list)
  PROVE  /\ Cardinality(Range(list)) = Len(list)
         /\ Cardinality({x[1] : x \in Range(list)}) = Len(list)
<1> DEFINE n == Len(list)
           S == Range(list)
           K == {x[1] : x \in S}
           f == [i \in 1 .. n |-> list[i]]
           g == [i \in 1 .. n |-> list[i][1]]
<1>1. n \in Nat /\ \A i, j \in 1 .. n : list[i][1] = list[j][1] => i = j
  BY DEF DistinctKeys
<1>2. (\A i \in 1 .. n : list[i] \in S) /\ (\A x \in S : \E i \in 1 .. n : list[i] = x)
  BY DEF Range
<1>3. (\A i \in 1 .. n : list[i][1] \in K) /\ (\A k \in K : \E i \in 1 .. n : list[i][1] = k)
  BY <1>2
<1> HIDE DEF n, S, K
<1>4. ExistsBijection(1 .. n, S)
  <2>1. f \in Bijection(1 .. n, S)
    BY <1>1, <1>2 DEF Bijection, Injection, Surjection, IsInjective
  <2> QED BY <2>1 DEF ExistsBijection
<1>5. ExistsBijection(1 .. n, K)
  <2>1. g \in Bijection(1 .. n, K)
    BY <1>1, <1>3, Zenon DEF Bijection, Injection, Surjection, IsInjective
  <2> QED BY <2>1 DEF ExistsBijection
<1>6. Cardinality(S) = n /\ Cardinality(K) = n
  BY <1>1, <1>4, <1>5, FS_CountingElements
<1> QED
  BY <1>6, Zenon DEF n, S, K

\* The table of ConcurrentHashMap never holds a key twice, keeps every key where
\* a lookup searches it, and counts at least its keys, below the load at which
\* it grows.
THEOREM MapWellFormed == HashSpec => []WellFormed
<1>1. MapInv => WellFormed
  <2> SUFFICES ASSUME MapInv PROVE WellFormed
    OBVIOUS
  <2> DEFINE seg == Table
             n == Count(seg)
  <2>1. SegmentOK(seg, n)
    BY EmptySegmentOK DEF Table, MapInv, ObjectsInv
  <2>2. /\ Range(AllNodes(seg)) = NodesIn(seg.buckets) /\ AllNodes(seg) \in Seq(Node)
        /\ DistinctKeys(AllNodes(seg))
    <3> HIDE DEF seg
    <3> QED BY <2>1, TableStores
  <2>3. Cardinality({x[1] : x \in Nodes}) = Len(AllNodes(seg)) /\ Cardinality(Nodes) = Len(AllNodes(seg))
    BY <2>2, CountedList, Zenon DEF Nodes
  <2>4. \A i \in DOMAIN seg.buckets : \A j \in DOMAIN seg.buckets[i] :
          GetIndex(n, Hash[seg.buckets[i][j][1]]) = i
    <3> DEFINE bs == seg.buckets
    <3>1. BucketsOK(bs, n)
      BY <2>1 DEF SegmentOK
    <3> HIDE DEF seg, n, bs
    <3>2. bs \in [0 .. n - 1 -> Seq(Node)] /\ \A i \in 0 .. n - 1 : InBucket(bs[i], n, i)
      BY <3>1 DEF BucketsOK
    <3>3. ASSUME NEW i \in DOMAIN bs, NEW j \in DOMAIN bs[i] PROVE GetIndex(n, Hash[bs[i][j][1]]) = i
      <4>1. i \in 0 .. n - 1 /\ bs[i] \in Seq(Node)
        BY <3>2
      <4>2. j \in 1 .. Len(bs[i])
        BY <4>1
      <4> QED BY <3>2, <4>1, <4>2 DEF InBucket
    <3> QED BY <3>3 DEF bs
  <2>5. Len(AllNodes(seg)) <= seg.size /\ seg.size < seg.load
    BY <2>1, <2>2, <2>3, Zenon DEF SegmentOK, Nodes
  <2> QED BY <2>3, <2>4, <2>5, Zenon DEF WellFormed
<1> QED
  BY <1>1, MapInvariance, PTL
=============================================================================
