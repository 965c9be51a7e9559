-------------------------- MODULE MultiHomeOrderer --------------------------
(***************************************************************************)
(* The multi-home orderers (module/multi_home_orderer.cpp), one per        *)
(* region, with the global Paxos that orders their batches (GlobalPaxos in *)
(* module/consensus.cpp, used through the promise of ProposalOrder).  Data *)
(* and orders come from different modules: net is a set.                   *)
(***************************************************************************)
EXTENDS Integers, Sequences, FiniteSets, SequencesExt

CONSTANTS Region,
          Txn,             \* multi-home transactions
          InvolvedRegions, \* of each transaction
          MaxSlot,         \* bound on the batches
          NoBatch

\* batch_id(): the region and its counter.
Batch == Region \X (1 .. MaxSlot)

BL == INSTANCE BatchLogTable WITH BatchId <- Batch

VARIABLES waiting,                \* transactions no orderer has got yet
          batch_per_reg, batch_id_counter,
          multi_home_batch_log,
          contents,               \* the transactions of the batches in a log
          proposals, num_ordered, \* of the global Paxos
          net,
          forwarded               \* sent to the region's sequencer, in order

batchVars == <<waiting, batch_per_reg, batch_id_counter>>
logVars == <<multi_home_batch_log, contents, forwarded>>
vars == <<batchVars, logVars, proposals, num_ordered, net>>

Init ==
  /\ waiting = Txn
  /\ batch_per_reg = [r \in Region |-> [reg \in Region |-> << >>]]
  /\ batch_id_counter = [r \in Region |-> 1]
  /\ multi_home_batch_log = [r \in Region |-> BL!EmptyLog]
  /\ contents = [r \in Region |-> [b \in Batch |-> << >>]]
  /\ proposals = {} /\ num_ordered = 0
  /\ net = {}
  /\ forwarded = [r \in Region |-> << >>]

\* The callback of the first transaction of a batch is pending.
send_timer(r) == \E reg \in Region : batch_per_reg[r][reg] # << >>

AddToBatch(r, t) ==
  /\ t \in waiting
  /\ waiting' = waiting \ {t}
  /\ batch_per_reg' = [batch_per_reg EXCEPT ![r] = [reg \in Region |->
       IF reg \in InvolvedRegions[t] THEN Append(@[reg], t) ELSE @[reg]]]
  /\ UNCHANGED <<batch_id_counter, logVars, proposals, num_ordered, net>>

\* SendBatch, then NewBatch.
SendBatch(r) ==
  LET b == <<r, batch_id_counter[r]>>
  IN  /\ send_timer(r)
      /\ proposals' = proposals \cup {b}
      /\ net' = net \cup {[kind |-> "data", to |-> reg, batch |-> b, txns |-> batch_per_reg[r][reg]] :
                            reg \in Region}
      /\ batch_per_reg' = [batch_per_reg EXCEPT ![r] = [reg \in Region |-> << >>]]
      /\ batch_id_counter' = [batch_id_counter EXCEPT ![r] = @ + 1]
      /\ UNCHANGED <<waiting, logVars, num_ordered>>

\* GlobalPaxos::OnCommit at the leader.
OnCommit(b) ==
  /\ b \in proposals
  /\ proposals' = proposals \ {b}
  /\ num_ordered' = num_ordered + 1
  /\ net' = net \cup {[kind |-> "order", to |-> r, slot |-> num_ordered, batch |-> b] : r \in Region}
  /\ UNCHANGED <<batchVars, logVars>>

\* What remains of a log after its ready batches were taken.
Drain(log) == FoldLeft(LAMBDA l, b : BL!NextBatch(l), log, log.ready)

\* AdvanceLog at r, with the log and the contents as the handler left them.
AdvanceLog(r, log, txns) ==
  /\ multi_home_batch_log' = [multi_home_batch_log EXCEPT ![r] = Drain(log)]
  /\ contents' = [contents EXCEPT ![r] = txns]
  /\ forwarded' = [forwarded EXCEPT ![r] =
       @ \o FlattenSeq([i \in DOMAIN log.ready |-> txns[log.ready[i]]])]

\* Mutant: transactions are passed on when their batch arrives.
ProcessForwardBatchDataUnordered(msg) ==
  /\ msg.kind = "data"
  /\ net' = net \ {msg}
  /\ forwarded' = [forwarded EXCEPT ![msg.to] = @ \o msg.txns]
  /\ UNCHANGED <<batchVars, multi_home_batch_log, contents, proposals, num_ordered>>

ProcessForwardBatchData(msg) ==
  /\ msg.kind = "data"
  /\ net' = net \ {msg}
  /\ AdvanceLog(msg.to, BL!AddBatch(multi_home_batch_log[msg.to], msg.batch),
                [contents[msg.to] EXCEPT ![msg.batch] = msg.txns])
  /\ UNCHANGED <<batchVars, proposals, num_ordered>>

ProcessForwardBatchOrder(msg) ==
  /\ msg.kind = "order"
  /\ net' = net \ {msg}
  /\ AdvanceLog(msg.to, BL!AddSlot(multi_home_batch_log[msg.to], msg.slot, msg.batch, 0),
                contents[msg.to])
  /\ UNCHANGED <<batchVars, proposals, num_ordered>>

Next ==
  \/ \E r \in Region : SendBatch(r) \/ \E t \in Txn : AddToBatch(r, t)
  \/ \E b \in proposals : OnCommit(b)
  \/ \E msg \in net : ProcessForwardBatchData(msg) \/ ProcessForwardBatchOrder(msg)

Spec == Init /\ [][Next]_vars

-----------------------------------------------------------------------------
(* Properties *)

Before(r, t, u) ==
  \E i, j \in DOMAIN forwarded[r] : i < j /\ forwarded[r][i] = t /\ forwarded[r][j] = u

\* Two regions hand two multi-home transactions to their sequencers in the same
\* order: with the orderer, deadlocks between them cannot arise.  More than
\* that, a region never passes over a transaction another region has put first.
SameOrder ==
  \A r, s \in Region : \A t, u \in Txn :
    /\ Before(r, t, u) => ~Before(s, u, t)
    /\ (Before(r, t, u) /\ s \in InvolvedRegions[t] /\ u \in ToSet(forwarded[s])) => Before(s, t, u)

Idle == waiting = {} /\ net = {} /\ proposals = {} /\ \A r \in Region : ~send_timer(r)

\* Each region gets every transaction that involves it, at most once, and no
\* other; when nothing is left to handle it has got them all.
DeliveredOnce ==
  \A r \in Region :
    LET involving == {t \in Txn : r \in InvolvedRegions[t]}
    IN  /\ ToSet(forwarded[r]) \subseteq involving
        /\ Len(forwarded[r]) = Cardinality(ToSet(forwarded[r]))
        /\ Idle => ToSet(forwarded[r]) = involving
=============================================================================
