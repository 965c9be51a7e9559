-------------------------- MODULE RemasterManager ---------------------------
(***************************************************************************)
(* The two counter-based remaster managers                                 *)
(* (module/scheduler_components/{remaster_manager.h,                       *)
(* simple_remaster_manager.cpp, per_key_remaster_manager.cpp}) as          *)
(* operators.  A part <<t, h>> is the (lock-only) transaction t of home h; *)
(* a result r = [queue, unblocked, should_abort, fatal] carries the        *)
(* blocked queue, the two lists of RemasterOccurredResult and whether the  *)
(* CHECK of CheckCounters ended the process.  storage maps a key to its    *)
(* metadata [master, counter]; every key exists.                           *)
(***************************************************************************)
EXTENDS Integers, Sequences, FiniteSets, SequencesExt

CONSTANTS TxnKeys   \* the keys of each transaction: records [key, type, master, counter]

HomeKeys(p) == SelectSeq(TxnKeys[p[1]], LAMBDA kv : kv.master = p[2])

\* The keys are compared in their order, up to the first that is outdated.  A
\* key with the counter of the storage and another master is fatal.
Compare(keys, storage) ==
  LET Outdated(i) == keys[i].counter < storage[keys[i].key].counter
      Mismatch(i) == /\ keys[i].counter = storage[keys[i].key].counter
                     /\ keys[i].master # storage[keys[i].key].master
  IN
  IF \E i \in DOMAIN keys : Mismatch(i) /\ \A j \in 1..(i - 1) : ~Outdated(j) THEN "FATAL"
  ELSE IF \E i \in DOMAIN keys : Outdated(i) THEN "ABORT"
  ELSE IF \E i \in DOMAIN keys : keys[i].counter > storage[keys[i].key].counter
    THEN "WAITING"
    ELSE "VALID"

CheckCounters(p, filter_by_home, storage) ==
  Compare(IF filter_by_home THEN HomeKeys(p) ELSE TxnKeys[p[1]], storage)

\* Whether p's home masters key k in p's metadata.
Concerns(p, k) == \E i \in DOMAIN HomeKeys(p) : HomeKeys(p)[i].key = k

-----------------------------------------------------------------------------
(* SimpleRemasterManager: queue maps a home to the parts blocked behind it *)

SimpleVerifyMaster(queue, p, storage) ==
  LET verdict == IF queue[p[2]] # <<>> THEN "WAITING" ELSE CheckCounters(p, TRUE, storage)
  IN  [verdict |-> verdict,
       queue |-> IF verdict = "WAITING" THEN [queue EXCEPT ![p[2]] = Append(@, p)] ELSE queue]

RECURSIVE SimpleTryToUnblock(_, _, _)
SimpleTryToUnblock(r, home, storage) ==
  IF r.queue[home] = <<>> THEN r
  ELSE LET p == Head(r.queue[home])
           verdict == CheckCounters(p, TRUE, storage)
           popped == [r EXCEPT !.queue[home] = Tail(@)]
       IN  IF verdict = "WAITING" THEN r
           ELSE IF verdict = "FATAL" THEN [r EXCEPT !.fatal = TRUE]
           ELSE SimpleTryToUnblock(
                  IF verdict = "VALID" THEN [popped EXCEPT !.unblocked = Append(@, p)]
                                       ELSE [popped EXCEPT !.should_abort = Append(@, p)],
                  home, storage)

Result(queue) == [queue |-> queue, unblocked |-> <<>>, should_abort |-> <<>>, fatal |-> FALSE]

SimpleRemasterOccured(queue, k, storage) ==
  LET heads == {h \in DOMAIN queue : queue[h] # <<>> /\ Concerns(Head(queue[h]), k)}
  IN  FoldLeft(LAMBDA r, h : SimpleTryToUnblock(r, h, storage), Result(queue), SetToSeq(heads))

SimpleReleaseTransaction(queue, t, regions, storage) ==
  LET removed == [h \in DOMAIN queue |->
                    IF h \in regions THEN SelectSeq(queue[h], LAMBDA p : p[1] # t)
                                     ELSE queue[h]]
  IN  FoldLeft(LAMBDA r, h : SimpleTryToUnblock(r, h, storage),
               Result(removed), SetToSeq(regions))

-----------------------------------------------------------------------------
(* PerKeyRemasterManager: queue maps a key to the parts blocked on it, as  *)
(* <<part, counter>> in the order of the counters.  An erased entry is the *)
(* empty sequence.                                                         *)

InsertIntoBlockedQueue(queue, kv, p) ==
  LET behind == {i \in DOMAIN queue[kv.key] : queue[kv.key][i][2] > kv.counter}
      at == IF behind = {} THEN Len(queue[kv.key]) + 1
                           ELSE CHOOSE i \in behind : \A j \in behind : i <= j
  IN  [queue EXCEPT ![kv.key] = InsertAt(@, at, <<p, kv.counter>>)]

\* Another transaction is in front of p in the queue of one of its keys.
IndirectlyBlocked(queue, p) ==
  \E i \in DOMAIN TxnKeys[p[1]] :
    LET kv == TxnKeys[p[1]][i]
    IN  queue[kv.key] # <<>> /\ Head(queue[kv.key])[2] <= kv.counter

PerKeyVerifyMaster(queue, p, storage) ==
  LET checked == CheckCounters(p, TRUE, storage)
      verdict == IF checked = "VALID" /\ IndirectlyBlocked(queue, p) THEN "WAITING" ELSE checked
  IN  [verdict |-> verdict,
       queue |-> IF verdict = "WAITING"
                   THEN FoldLeft(LAMBDA q, kv : InsertIntoBlockedQueue(q, kv, p), queue, HomeKeys(p))
                   ELSE queue]

Without(queue, t) == [k \in DOMAIN queue |-> SelectSeq(queue[k], LAMBDA e : e[1][1] # t)]

RECURSIVE PerKeyTryToUnblock(_, _, _)

\* TryToUnblock calls it for a part that must abort.
PerKeyRelease(r, t, storage) ==
  FoldLeft(LAMBDA s, kv : PerKeyTryToUnblock(s, kv.key, storage),
           [r EXCEPT !.queue = Without(@, t)], TxnKeys[t])

PerKeyTryToUnblock(r, k, storage) ==
  IF r.queue[k] = <<>> THEN r
  ELSE LET p == Head(r.queue[k])[1]
           keys == HomeKeys(p)
           verdict == CheckCounters(p, TRUE, storage)
           inFront == \A i \in DOMAIN keys : Head(r.queue[keys[i].key])[1] = p
           popped == [r EXCEPT !.unblocked = Append(@, p),
                               !.queue = [j \in DOMAIN @ |-> IF Concerns(p, j) THEN Tail(@[j])
                                                                               ELSE @[j]]]
       IN  CASE verdict = "ABORT" ->
                  PerKeyRelease([r EXCEPT !.should_abort = Append(@, p)], p[1], storage)
             [] verdict = "VALID" /\ inFront ->
                  FoldLeft(LAMBDA s, kv : PerKeyTryToUnblock(s, kv.key, storage), popped, keys)
             [] verdict = "FATAL" -> [r EXCEPT !.fatal = TRUE]
             [] OTHER -> r

PerKeyRemasterOccured(queue, k, storage) == PerKeyTryToUnblock(Result(queue), k, storage)

PerKeyReleaseTransaction(queue, t, storage) == PerKeyRelease(Result(queue), t, storage)
=============================================================================
