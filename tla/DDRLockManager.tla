--------------------------- MODULE DDRLockManager ---------------------------
(***************************************************************************)
(* One partition's DDR lock manager with its deadlock resolver switched    *)
(* off: AcquireLocks and ReleaseLocks in any order the scheduler may call  *)
(* them.  Requests of different homes interleave arbitrarily; a            *)
(* transaction is released once it is ready, as ReleaseLocks requires.     *)
(* The clock and `when' record the order of the requests for each lock and *)
(* influence nothing.                                                      *)
(***************************************************************************)
EXTENDS DDRLockTable

VARIABLES lock_table,       \* tail of the queue of each lock
          live,             \* ids present in txn_info_
          waited_by, num_waiting_for, unarrived,  \* fields of TxnInfo
          arrived,          \* requests <<t, h>> already made
          clock, when       \* history: order of the requests for each lock

vars == <<lock_table, live, waited_by, num_waiting_for, unarrived,
          arrived, clock, when>>

Init ==
  /\ lock_table = [k \in KeyRegion |-> EmptyTail]
  /\ live = {}
  /\ waited_by = [t \in Txn |-> InitWaitedBy]
  /\ num_waiting_for = [t \in Txn |-> 0]
  /\ unarrived = [t \in Txn |-> Cardinality(Keys(t))]
  /\ arrived = {}
  /\ clock = 0
  /\ when = [k \in KeyRegion |-> [t \in Txn |-> 0]]

IsReady(t) == num_waiting_for[t] = 0 /\ unarrived[t] = 0

\* Blocking transactions that already left are skipped.
LiveBlockers(t, K) == (BlockingTxns(lock_table, t, K) \cap live) \ {t}

AcquireLocks(t, h) ==
  LET K == RelevantKeys(t, h)
      blockers == LiveBlockers(t, K)
  IN  /\ <<t, h>> \notin arrived
      /\ K # {}
      /\ lock_table' = Enqueue(lock_table, t, K)
      /\ live' = live \cup {t}
      /\ waited_by' = AppendWaiter(waited_by, blockers, t)
      /\ num_waiting_for' = [num_waiting_for EXCEPT ![t] = @ + Cardinality(blockers)]
      /\ unarrived' = [unarrived EXCEPT ![t] = @ - Cardinality(K)]
      /\ arrived' = arrived \cup {<<t, h>>}
      /\ clock' = clock + 1
      /\ when' = [k \in KeyRegion |->
                    IF k \in K THEN [when[k] EXCEPT ![t] = clock + 1] ELSE when[k]]

ReleaseLocks(t) ==
  /\ t \in live
  /\ IsReady(t)
  /\ live' = live \ {t}
  /\ num_waiting_for' =
       [u \in Txn |-> IF u \in live
                        THEN num_waiting_for[u] - Occurrences(waited_by[t], u)
                        ELSE num_waiting_for[u]]
  /\ waited_by' = [waited_by EXCEPT ![t] = InitWaitedBy]
  /\ UNCHANGED <<lock_table, unarrived, arrived, clock, when>>

Next ==
  \/ \E t \in Txn, h \in Region : AcquireLocks(t, h)
  \/ \E t \in Txn : ReleaseLocks(t)

Spec == Init /\ [][Next]_vars

-----------------------------------------------------------------------------
(* Properties *)

\* Types of the lock manager's tables.  The counters are signed in the code and
\* never negative: no request is counted twice, no wakeup delivered twice.
TypeOK ==
  /\ lock_table \in [KeyRegion -> LockQueueTail]
  /\ live \subseteq Txn
  /\ waited_by \in [Txn -> Seq(Txn \cup {kSentinelTxnId})]
  /\ num_waiting_for \in [Txn -> Nat]
  /\ unarrived \in [Txn -> Nat]
  /\ arrived \subseteq Txn \X Region
  /\ clock \in Nat
  /\ when \in [KeyRegion -> [Txn -> Nat]]

\* num_waiting_for of a transaction is exactly the number of entries naming it
\* in the waited-by lists of transactions still in txn_info_ (the comment in
\* AcquireLocks on double counting): no wakeup is lost and none is extra.
WaitCountExact ==
  \A t \in Txn : num_waiting_for[t] = Cardinality(Edges(live, waited_by, t))

\* u asked for lock k before t did.
Before(u, t, k) == 0 < when[k][u] /\ when[k][u] < when[k][t]

\* The lock manager "grants locks for transactions in the order that they
\* request": while an earlier conflicting request on the same <key, region> is
\* outstanding, the later transaction is still in txn_info_ and not ready.
GrantOrder ==
  \A k \in KeyRegion, t, u \in Txn :
    u \in live /\ Before(u, t, k) /\ Conflict(t, u, k) => t \in live /\ ~IsReady(t)

\* Two ready transactions, both of which a worker may be executing, never
\* conflict on a lock.
MutualExclusion ==
  \A t, u \in live : IsReady(t) /\ IsReady(u) /\ t # u =>
    \A k \in KeyRegion : ~Conflict(t, u, k)

-----------------------------------------------------------------------------
(* The inductive invariant behind GrantOrder and MutualExclusion *)

\* A key's lock was requested by t exactly when the request of its home came;
\* requests for one lock are totally ordered; what is not yet requested is
\* what unarrived counts; a transaction outside txn_info_ has either sent
\* nothing or everything.
ArrivalInv ==
  /\ \A k \in KeyRegion, t \in Txn :
       /\ when[k][t] > 0 <=> k \in Keys(t) /\ <<t, Home[k]>> \in arrived
       /\ when[k][t] <= clock
       /\ \A u \in Txn : when[k][t] = when[k][u] /\ when[k][t] > 0 => t = u
  /\ \A t \in Txn :
       unarrived[t] = Cardinality({k \in Keys(t) : <<t, Home[k]>> \notin arrived})
  /\ \A t \in Txn \ live, k \in KeyRegion : when[k][t] > 0 => unarrived[t] = 0

\* The tail of a queue is its last writer and the readers behind that writer.
TailInv ==
  \A k \in KeyRegion :
    LET w == lock_table[k].writer
    IN  /\ w \in Txn => k \in Writes[w] /\ when[k][w] > 0
        /\ \A u \in Txn : k \in Writes[u] /\ when[k][u] > 0 =>
             w \in Txn /\ when[k][u] <= when[k][w]
        /\ \A r \in Txn : r \in lock_table[k].readers <=>
             k \in Reads[r] /\ when[k][r] > 0 /\ (w \in Txn => when[k][r] > when[k][w])

\* The counters are exact, and nothing refers to a transaction that left.
CountInv ==
  /\ \A t \in Txn : IsFiniteSet(Edges(live, waited_by, t))
  /\ WaitCountExact
  /\ \A t \in Txn \ live : num_waiting_for[t] = 0 /\ waited_by[t] = InitWaitedBy

Blocks(u, t, k) == u \in live /\ Before(u, t, k) /\ Conflict(t, u, k)

Waits(t, v) == v \in live /\ Slots(waited_by[v], t) # {}

\* A blocked transaction waits for its blocker, or for one that is itself
\* blocked behind that blocker, directly or through one more writer: the tail
\* remembers only the last requesters, and this is why it is enough.
OrderInv ==
  \A k \in KeyRegion, t, u \in Txn : Blocks(u, t, k) =>
    /\ t \in live
    /\ \E v \in Txn :
         /\ Waits(t, v)
         /\ \/ v = u
            \/ Blocks(u, v, k)
            \/ \E w \in Txn : Blocks(u, w, k) /\ Blocks(w, v, k)

\* The inductive invariant: types, arrivals, tails, counters and the order of
\* the waits together are preserved by AcquireLocks and ReleaseLocks.
IInv == TypeOK /\ ArrivalInv /\ TailInv /\ CountInv /\ OrderInv
=============================================================================
