----------------------------- MODULE JanusWorker -----------------------------
(***************************************************************************)
(* The execution of one transaction by the workers of its partitions, with *)
(* the values it computes.  The Janus workers (module/janus/worker.cpp)    *)
(* get the whole transaction, those of SLOG and Detock                     *)
(* (module/scheduler_components/worker.cpp) the part with the local keys;  *)
(* from there on both read, broadcast what they have, wait for the others, *)
(* execute and write alike.  The broker keeps messages until the worker    *)
(* waits for them (module Worker).  Nothing aborts the transaction before  *)
(* it executes here, so no message carries an abort.                       *)
(***************************************************************************)
EXTENDS KeyValueExecution, FiniteSets

CONSTANTS Partition,
          Transactions   \* [janus, keys, program, store, server, noop]: is it Janus; <<key, type>> ...;
                         \* the program; the storage before; the server's region is this one; no execution

VARIABLES txn,
          store,      \* partition -> key -> value, for the keys stored
          keys,       \* partition -> keys of the transaction object
          phase,      \* partition -> phase of its state
          waiting,    \* remote_reads_waiting_on
          net,        \* net[q][p]: remote reads sent by q to p
          answers,    \* finished_subtxn messages to the server: <<partition, aborted>>
          reported    \* partitions that told their scheduler

vars == <<txn, store, keys, phase, waiting, net, answers, reported>>

Involved == {PartitionOf[txn.keys[i][1]] : i \in DOMAIN txn.keys}

\* The keys a worker starts with.
InitialKeys(tx, p) ==
  LET mine == SelectSeq(tx.keys, LAMBDA k : tx.janus \/ PartitionOf[k[1]] = p)
  IN  [i \in DOMAIN mine |-> [key |-> mine[i][1], type |-> mine[i][2], value |-> NoValue, new |-> NoValue]]

Stored(tx, p) ==
  LET here == {k \in DOMAIN tx.store : PartitionOf[k] = p} IN [k \in here |-> tx.store[k]]

Init ==
  /\ txn \in Transactions
  /\ store = [p \in Partition |-> Stored(txn, p)]
  /\ keys = [p \in Partition |-> InitialKeys(txn, p)]
  /\ phase = [p \in Partition |-> "NEW"]
  /\ waiting = [p \in Partition |-> 0]
  /\ net = [q \in Partition |-> [p \in Partition |-> <<>>]]
  /\ answers = {}
  /\ reported = {}

\* ReadLocalStorage: local keys that are stored get their value.
LocalReads(p) ==
  [i \in DOMAIN keys[p] |-> IF keys[p][i].key \in DOMAIN store[p]
                            THEN [keys[p][i] EXCEPT !.value = store[p][keys[p][i].key]] ELSE keys[p][i]]

\* Execute and Finish: the writes are applied unless the program aborts, the
\* result goes to the server if it is in this region, the scheduler is told.
ExecuteAndFinish(p, entries) ==
  LET x == IF txn.noop THEN [keys |-> entries, aborted |-> FALSE] ELSE Execute(entries, txn.program)
  IN  /\ store' = IF txn.noop \/ x.aborted THEN store ELSE [store EXCEPT ![p] = ApplyWrites(@, x.keys, {p})]
      /\ answers' = IF txn.server THEN answers \cup {<<p, x.aborted>>} ELSE answers
      /\ reported' = reported \cup {p}
      /\ phase' = [phase EXCEPT ![p] = "FINISH"]

\* BroadcastReads: all keys of the transaction object.
BroadcastReads(p, entries) ==
  [net EXCEPT ![p] = [q \in Partition |-> IF q \in Involved \ {p} THEN Append(@[q], entries) ELSE @[q]]]

\* OnCustomSocket: the scheduler dispatches the transaction.
ReceiveTransaction(p) ==
  /\ p \in Involved /\ phase[p] = "NEW"
  /\ LET entries == LocalReads(p)
     IN  /\ net' = BroadcastReads(p, entries)
         /\ keys' = [keys EXCEPT ![p] = entries]
         /\ waiting' = [waiting EXCEPT ![p] = Cardinality(Involved) - 1]
         /\ IF Cardinality(Involved) = 1 THEN ExecuteAndFinish(p, entries)
            ELSE /\ phase' = [phase EXCEPT ![p] = "WAIT_REMOTE_READ"]
                 /\ UNCHANGED <<store, answers, reported>>
  /\ UNCHANGED txn

\* OnInternalRequestReceived: the reads are appended; the last ones let the
\* transaction execute.
ReceiveRemoteRead(p, q) ==
  /\ phase[p] = "WAIT_REMOTE_READ" /\ net[q][p] # <<>>
  /\ net' = [net EXCEPT ![q][p] = Tail(@)]
  /\ waiting' = [waiting EXCEPT ![p] = @ - 1]
  /\ LET entries == keys[p] \o Head(net[q][p])
     IN  /\ keys' = [keys EXCEPT ![p] = entries]
         /\ IF waiting[p] = 1 THEN ExecuteAndFinish(p, entries)
            ELSE UNCHANGED <<phase, store, answers, reported>>
  /\ UNCHANGED txn

Next ==
  \E p \in Partition : \/ ReceiveTransaction(p)
                       \/ \E q \in Partition : ReceiveRemoteRead(p, q)

Spec == Init /\ [][Next]_vars

-----------------------------------------------------------------------------
(* Properties *)

\* What one machine with all keys would compute.
OneMachine ==
  LET all == [i \in DOMAIN txn.keys |->
                [key |-> txn.keys[i][1], type |-> txn.keys[i][2], new |-> NoValue,
                 value |-> IF txn.keys[i][1] \in DOMAIN txn.store THEN txn.store[txn.keys[i][1]] ELSE NoValue]]
      x == Execute(all, txn.program)
      after == IF txn.noop \/ x.aborted THEN txn.store ELSE ApplyWrites(txn.store, x.keys, Partition)
  IN  [store |-> after, aborted |-> ~txn.noop /\ x.aborted]

\* A transaction over several partitions has the effect it has on one machine:
\* the remote reads give every partition the values it needs, all partitions
\* finish and decide alike, each writes its own keys, and nothing is written
\* after an abort.
AsOnOneMachine ==
  (\A p \in Involved : phase[p] # "NEW") /\ (\A p, q \in Partition : net[q][p] = <<>>) =>
    /\ reported = Involved
    /\ \A p \in Partition : store[p] = Stored([store |-> OneMachine.store], p)
    /\ txn.server => answers = {<<p, OneMachine.aborted>> : p \in Involved}
=============================================================================
