------------------------------ MODULE RWLatch ------------------------------
(***************************************************************************)
(* The reader-writer latch of common/rwlatch.h: a mutex and two condition  *)
(* variables.  What a thread does between taking and releasing the mutex   *)
(* (or waiting on a condition) is one action.  A thread that waits is      *)
(* asleep until it is notified, and may also wake up by itself.            *)
(***************************************************************************)
EXTENDS Integers, FiniteSets

CONSTANTS Thread, MAX_READERS

ASSUME ThreadAssumption == IsFiniteSet(Thread)

\* Fewer threads than the counter of readers can hold (UINT_MAX).
ASSUME MaxReadersAssumption == MAX_READERS \in Nat /\ Cardinality(Thread) < MAX_READERS

VARIABLES reader_count, writer_entered,
          pc,      \* what each thread does with the latch
          asleep   \* threads waiting on a condition and not notified

latch == <<reader_count, writer_entered, pc, asleep>>

(* pc: "idle"; "w_enter": in the first loop of WLock, on condition reader_; *)
(* "w_drain": in its second loop, on condition writer_; "writing"; "r_enter": *)
(* in the loop of RLock, on reader_; "reading".                            *)

OnReaderCondition == {t \in Thread : pc[t] \in {"w_enter", "r_enter"}}
OnWriterCondition == {t \in Thread : pc[t] = "w_drain"}

LatchInit ==
  /\ reader_count = 0
  /\ writer_entered = FALSE
  /\ pc = [t \in Thread |-> "idle"]
  /\ asleep = {}

\* The second loop of WLock.
Drain(t) ==
  IF reader_count > 0
    THEN pc' = [pc EXCEPT ![t] = "w_drain"] /\ asleep' = asleep \cup {t}
    ELSE pc' = [pc EXCEPT ![t] = "writing"] /\ asleep' = asleep \ {t}

\* The first loop of WLock and, once the thread is the writer, the second.
TryWLock(t) ==
  IF writer_entered
    THEN /\ pc' = [pc EXCEPT ![t] = "w_enter"] /\ asleep' = asleep \cup {t}
         /\ UNCHANGED <<reader_count, writer_entered>>
    ELSE writer_entered' = TRUE /\ Drain(t) /\ UNCHANGED reader_count

\* The loop of RLock.
TryRLock(t) ==
  IF writer_entered \/ reader_count = MAX_READERS
    THEN /\ pc' = [pc EXCEPT ![t] = "r_enter"] /\ asleep' = asleep \cup {t}
         /\ UNCHANGED <<reader_count, writer_entered>>
    ELSE /\ reader_count' = reader_count + 1
         /\ pc' = [pc EXCEPT ![t] = "reading"] /\ asleep' = asleep \ {t}
         /\ UNCHANGED writer_entered

WLock(t) == pc[t] = "idle" /\ TryWLock(t)

RLock(t) == pc[t] = "idle" /\ TryRLock(t)

\* A thread that was woken goes round its loop.
Resume(t) ==
  /\ t \notin asleep
  /\ \/ pc[t] = "w_enter" /\ TryWLock(t)
     \/ pc[t] = "w_drain" /\ Drain(t) /\ UNCHANGED <<reader_count, writer_entered>>
     \/ pc[t] = "r_enter" /\ TryRLock(t)

WUnlock(t) ==
  /\ pc[t] = "writing"
  /\ pc' = [pc EXCEPT ![t] = "idle"]
  /\ writer_entered' = FALSE
  /\ asleep' = asleep \ OnReaderCondition
  /\ UNCHANGED reader_count

\* notify_one wakes one of the threads asleep on a condition, if there is one.
NotifyOne(waiting) ==
  \/ waiting \cap asleep = {} /\ UNCHANGED asleep
  \/ \E t \in waiting \cap asleep : asleep' = asleep \ {t}

\* Mutant: the waiting writer is not notified.
LastReaderSilent(t) == UNCHANGED asleep

\* The notifications of RUnlock.
LastReader(t) ==
  IF writer_entered
    THEN IF reader_count = 1 THEN NotifyOne(OnWriterCondition) ELSE UNCHANGED asleep
    ELSE IF reader_count = MAX_READERS THEN NotifyOne(OnReaderCondition) ELSE UNCHANGED asleep

RUnlock(t) ==
  /\ pc[t] = "reading"
  /\ pc' = [pc EXCEPT ![t] = "idle"]
  /\ reader_count' = reader_count - 1
  /\ LastReader(t)
  /\ UNCHANGED writer_entered

\* A condition variable may wake a thread without a notification.
Spurious(t) ==
  /\ t \in asleep
  /\ asleep' = asleep \ {t}
  /\ UNCHANGED <<reader_count, writer_entered, pc>>

LatchNext ==
  \E t \in Thread : \/ WLock(t) \/ RLock(t) \/ Resume(t) \/ WUnlock(t) \/ RUnlock(t) \/ Spurious(t)

LatchSpec == LatchInit /\ [][LatchNext]_latch

-----------------------------------------------------------------------------
(* Properties *)

\* A thread that writes is alone in the latch, in whatever order readers and
\* writers arrive, wait and are woken.
MutualExclusion ==
  \A t, u \in Thread : pc[t] = "writing" /\ u # t => pc[u] \notin {"writing", "reading"}

\* No wakeup is lost: a thread sleeps on reader_ only while a writer is in or
\* waits for the readers to leave, and on writer_ only while there are readers.
NoLostWakeup ==
  \A t \in asleep : /\ pc[t] \in {"w_enter", "r_enter"} => writer_entered
                    /\ pc[t] = "w_drain" => reader_count > 0
=============================================================================
