------------------------------ MODULE Sequencer ------------------------------
(***************************************************************************)
(* The sequencer of one machine (module/sequencer.cpp) and its batcher     *)
(* (module/sequencer_components/batcher.cpp), which run on two threads.    *)
(* With synchronized batching the sequencer puts a transaction into a      *)
(* buffer sorted by timestamp that both threads share, and the batcher     *)
(* takes it out when the clock reaches the timestamp.  Timers may fire     *)
(* late but not early.  The contents of a batch are transaction ids: the   *)
(* split by partition is left out.                                         *)
(***************************************************************************)
EXTENDS Integers, Sequences, FiniteSets, SequencesExt

CONSTANTS Txn,                 \* transaction ids
          Timestamp,           \* of each transaction
          Options,             \* sets of configuration options to start with
          NoTimer,
          MaxTime              \* bound on the clock

\* What is required of the constants.
ConstantsOK ==
  /\ Txn \subseteq Nat /\ Timestamp \in [Txn -> Nat]
  /\ MaxTime \in Nat /\ NoTimer \notin Nat

VARIABLES options,       \* of the machine; a batch size of 0 is no limit
          now,
          waiting,       \* transactions that have not reached the sequencer
          future_txns,   \* the shared buffer
          owes_signal,   \* the sequencer is between BufferFutureTxn and Send
          inbox,         \* messages to the batcher
          wake_up,       \* process_future_txn_callback_handle_
          send_timer,    \* the callback of the first transaction is pending
          batches, batch_id_counter,
          sent,          \* <<generator_position, batch>> sent to the own replica
          delayed,       \* positions not yet sent to the other machines
          batched,       \* history: transactions in the order they were batched
          seen           \* history: what was batched when each one arrived

batchVars == <<batches, batch_id_counter, send_timer, batched>>
vars == <<options, now, waiting, future_txns, owes_signal, inbox, wake_up, batchVars,
          sent, delayed, seen>>

Init ==
  /\ options \in Options
  /\ now = 0
  /\ waiting = Txn
  /\ future_txns = {}
  /\ owes_signal = FALSE
  /\ inbox = << >>
  /\ wake_up = NoTimer
  /\ send_timer = FALSE
  /\ batches = << << >> >> /\ batch_id_counter = 1
  /\ sent = {}
  /\ delayed = {}
  /\ batched = << >>
  /\ seen = [t \in Txn |-> {}]

Tick ==
  /\ now < MaxTime
  /\ now' = now + 1
  /\ UNCHANGED <<options, waiting, future_txns, owes_signal, inbox, wake_up, batchVars, sent, delayed, seen>>

-----------------------------------------------------------------------------
(* Sequencer thread *)

EarliestChanged(t) == \A u \in future_txns : Timestamp[t] < Timestamp[u]

\* ProcessForwardRequest up to the end of BufferFutureTxn.
BufferFutureTxn(t) ==
  /\ options.synchronized_batching
  /\ ~owes_signal
  /\ t \in waiting
  /\ waiting' = waiting \ {t}
  /\ future_txns' = future_txns \cup {t}
  /\ owes_signal' = EarliestChanged(t)
  /\ seen' = [seen EXCEPT ![t] = ToSet(batched)]
  /\ UNCHANGED <<options, now, inbox, wake_up, batchVars, sent, delayed>>

SendSignal ==
  /\ owes_signal
  /\ owes_signal' = FALSE
  /\ inbox' = Append(inbox, [type |-> "signal"])
  /\ UNCHANGED <<options, now, waiting, future_txns, wake_up, batchVars, sent, delayed, seen>>

\* ProcessForwardRequest without synchronized batching.
ForwardTxn(t) ==
  /\ ~options.synchronized_batching
  /\ t \in waiting
  /\ waiting' = waiting \ {t}
  /\ inbox' = Append(inbox, [type |-> "forward_txn", txn |-> t])
  /\ UNCHANGED <<options, now, future_txns, owes_signal, wake_up, batchVars, sent, delayed, seen>>

-----------------------------------------------------------------------------
(* Batcher thread *)

\* The open batches after adding t, a new one started when the last is full.
AddTxn(open, t) ==
  LET added == [open EXCEPT ![Len(open)] = Append(@, t)]
  IN  IF options.sequencer_batch_size > 0 /\ Len(Last(added)) >= options.sequencer_batch_size
        THEN Append(added, << >>) ELSE added

\* Mutant: total_batch_size_ is not reset, so only the first transaction of
\* all sets the timer.
BatchTxnsTimerOnce(txns) ==
  LET open == FoldLeft(AddTxn, batches, txns)
  IN  /\ batches' = open
      /\ batch_id_counter' = batch_id_counter + Len(open) - Len(batches)
      /\ send_timer' = (send_timer \/ (txns # << >> /\ batched = << >>))
      /\ batched' = batched \o txns

\* BatchTxn for each of the transactions in order; the first one after
\* starting over sets the timer.
BatchTxns(txns) ==
  LET open == FoldLeft(AddTxn, batches, txns)
  IN  /\ batches' = open
      /\ batch_id_counter' = batch_id_counter + Len(open) - Len(batches)
      /\ send_timer' = (send_timer \/ txns # << >>)
      /\ batched' = batched \o txns

OnForwardTxn ==
  /\ inbox # << >>
  /\ Head(inbox).type = "forward_txn"
  /\ inbox' = Tail(inbox)
  /\ BatchTxns(<<Head(inbox).txn>>)
  /\ UNCHANGED <<options, now, waiting, future_txns, owes_signal, wake_up, sent, delayed, seen>>

Earlier(t, u) ==
  Timestamp[t] < Timestamp[u] \/ (Timestamp[t] = Timestamp[u] /\ t < u)

\* Mutant: what is due is taken out by transaction id, not by timestamp.
InOrderById(q) == \A i, j \in DOMAIN q : i < j => q[i] < q[j]

\* q is in the order in which future_txns_, a map sorted by timestamp and id,
\* is read.
InOrder(q) == \A i, j \in DOMAIN q : i < j => Earlier(q[i], q[j])

\* Takes out what is due and sets the timer for the earliest transaction left.
ProcessReadyFutureTxns ==
  LET ready == {t \in future_txns : Timestamp[t] <= now}
      later == future_txns \ ready
      earliest == CHOOSE t \in later : \A u \in later : ~Earlier(u, t)
  IN  /\ future_txns' = later
      /\ \E q \in [1 .. Cardinality(ready) -> ready] : InOrder(q) /\ BatchTxns(q)
      /\ wake_up' = IF later = {} THEN NoTimer ELSE Timestamp[earliest] + 1

\* kSignal: the old timer is removed.
OnSignal ==
  /\ inbox # << >>
  /\ Head(inbox).type = "signal"
  /\ inbox' = Tail(inbox)
  /\ ProcessReadyFutureTxns
  /\ UNCHANGED <<options, now, waiting, owes_signal, sent, delayed, seen>>

OnWakeUp ==
  /\ wake_up # NoTimer /\ wake_up <= now
  /\ ProcessReadyFutureTxns
  /\ UNCHANGED <<options, now, waiting, owes_signal, inbox, sent, delayed, seen>>

\* Mutant: the counter restarts with the batches.
SendBatchesRenumbered ==
  /\ send_timer
  /\ sent' = sent \cup {<<i - 1, batches[i]>> : i \in DOMAIN batches}
  /\ send_timer' = FALSE
  /\ batches' = << << >> >>
  /\ batch_id_counter' = batch_id_counter + 1
  /\ UNCHANGED <<options, now, waiting, future_txns, owes_signal, inbox, wake_up, delayed, batched, seen>>

\* The callback of the first transaction: SendBatches, then StartOver.  At the
\* first batch chosen to be delayed, SendBatches returns (batcher.cpp:232): d
\* is that batch, or one past the last.
SendBatches ==
  LET first == batch_id_counter - Len(batches)
      n == Len(batches)
  IN  /\ send_timer
      /\ \E d \in IF options.replication_delay THEN 1 .. n + 1 ELSE {n + 1} :
           /\ sent' = sent \cup {<<first + i - 1, batches[i]>> : i \in 1 .. n \cap 1 .. d}
           /\ delayed' = delayed \cup ({first + d - 1} \cap first .. first + n - 1)
      /\ send_timer' = FALSE
      /\ batches' = << << >> >>
      /\ batch_id_counter' = batch_id_counter + 1
      /\ UNCHANGED <<options, now, waiting, future_txns, owes_signal, inbox, wake_up, batched, seen>>

SendDelayed(position) ==
  /\ position \in delayed
  /\ delayed' = delayed \ {position}
  /\ UNCHANGED <<options, now, waiting, future_txns, owes_signal, inbox, wake_up, batchVars, sent, seen>>

Next ==
  \/ Tick
  \/ \E t \in Txn : BufferFutureTxn(t) \/ ForwardTxn(t)
  \/ SendSignal
  \/ OnForwardTxn \/ OnSignal \/ OnWakeUp \/ SendBatches
  \/ \E position \in delayed : SendDelayed(position)

\* The clock advances, transactions arrive, both threads run, timers fire.
Spec == Init /\ [][Next]_vars /\ WF_vars(Next)

-----------------------------------------------------------------------------
(* Properties *)

\* Types of the shared buffer, the timers and the batches.
TypeOK ==
  /\ now \in 0 .. MaxTime
  /\ waiting \subseteq Txn /\ future_txns \subseteq Txn
  /\ wake_up \in {NoTimer} \cup Nat
  /\ batches \in Seq(Seq(Txn)) /\ batches # << >>
  /\ batch_id_counter \in Nat
  /\ \A e \in sent : e[1] \in Nat /\ e[2] \in Seq(Txn)

\* The batch of each position, in order of position.
SentBatches == [i \in 1 .. Cardinality(sent) |-> CHOOSE b \in {e[2] : e \in sent} : <<i - 1, b>> \in sent]

\* The positions of a generator have no gap and no repetition: the log managers
\* read its queue in that order (log_manager.cpp:59-61).
PositionsContiguous == {e[1] : e \in sent} = 0 .. Cardinality(sent) - 1

\* "Deliberately delay the batch as specified in the config" (batcher.cpp:217):
\* every transaction that entered a batch is in a batch that was sent or is
\* still open, in the order of entering; a delay drops nothing.
NothingDropped ==
  PositionsContiguous /\ FlattenSeq(SentBatches) \o FlattenSeq(batches) = batched

\* A buffered transaction never waits without a wake-up to come: a signal is
\* on its way, or a timer is set for the earliest timestamp or before.
NoLostWakeup ==
  future_txns # {} =>
    \/ owes_signal
    \/ \E i \in DOMAIN inbox : inbox[i].type = "signal"
    \/ wake_up # NoTimer /\ \A t \in future_txns : wake_up <= Timestamp[t] + 1

\* Batching follows the timestamps, so that regions agree on the order: a
\* transaction is batched after one with a later timestamp only if it arrived
\* when that one had been batched already.
TimestampOrder ==
  options.synchronized_batching =>
    \A i, j \in DOMAIN batched :
      i < j /\ Earlier(batched[j], batched[i]) => batched[i] \in seen[batched[j]]

\* Every transaction is eventually sent, to the other machines as well: no
\* timer is forgotten.
EverythingSent == delayed = {} /\ \A t \in Txn : \E e \in sent : t \in ToSet(e[2])
AllSent == <>[]EverythingSent
=============================================================================
