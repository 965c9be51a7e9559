------------------------------- MODULE Worker -------------------------------
(***************************************************************************)
(* The workers that execute one multi-partition transaction, one in each   *)
(* involved partition (module/scheduler_components/worker.cpp), with the   *)
(* broker thread of each machine (connection/broker.cpp), which keeps the  *)
(* remote reads of a run until the worker asks for them.  Runs of          *)
(* different transactions share only FIFO queues, so one transaction is    *)
(* modelled, with its two runs: the first dispatch (FALSE) and, when the   *)
(* transaction was in a deadlock that got resolved, the second (TRUE).     *)
(* Each partition has one key of the transaction; a value is a version.    *)
(* The transaction object is shared by the runs: what a run wrote into it  *)
(* is there in the next.                                                   *)
(***************************************************************************)
EXTENDS Integers, Sequences, FiniteSets, SequencesExt

CONSTANTS Partition,   \* partitions
          Scenarios    \* records [parts, ddr, active, outdated, stuck]

(* A scenario: the involved partitions; is the lock manager DDR; the       *)
(* partitions with keys to write; those whose storage has another master   *)
(* for the key; the partitions in which a deadlock prevented the first     *)
(* dispatch, none if there was no deadlock.                                *)

VARIABLES scenario,
          version,     \* value of the local key in the storage of each partition
          signalled,   \* partitions where the scheduler saw the resolution of the deadlock
          sched,       \* runs dispatched to the worker, not yet received
          status, keys,  \* the transaction object of each partition: <<partition, value>> entries
          states,      \* txn_states_: run -> [waiting, phase]
          redirect,    \* redirect_ of the broker: run -> [to, pending]
          control,     \* start/stop requests of the worker to its broker
          net,         \* net[q][p]: messages on the connection from q to p
          channel,     \* messages from the broker to the worker
          decision,    \* how each partition finished
          failed       \* CHECKs that failed

vars == <<scenario, version, signalled, sched, status, keys, states, redirect, control,
          net, channel, decision, failed>>

Involved == scenario.parts

Deadlocked == scenario.stuck # {}

\* The partitions that wait for remote reads.
Waiting == IF scenario.ddr THEN Involved ELSE scenario.active

Without(f, x) == [y \in DOMAIN f \ {x} |-> f[y]]

Init ==
  /\ scenario \in Scenarios
  /\ version = [p \in Partition |-> 1]
  /\ signalled = {}
  /\ sched = [p \in Partition |-> IF p \in Involved \ scenario.stuck THEN <<FALSE>> ELSE <<>>]
  /\ status = [p \in Partition |-> "NOT_STARTED"]
  /\ keys = [p \in Partition |-> <<<<p, 0>>>>]
  /\ states = [p \in Partition |-> <<>>]
  /\ redirect = [p \in Partition |-> <<>>]
  /\ control = [p \in Partition |-> <<>>]
  /\ net = [q \in Partition |-> [p \in Partition |-> <<>>]]
  /\ channel = [p \in Partition |-> <<>>]
  /\ decision = [p \in Partition |-> <<>>]
  /\ failed = {}

\* The scheduler of p learns that the deadlock is resolved.  Transactions it
\* was ordered behind may have written its key before the second dispatch.
SecondDispatch(p) ==
  /\ Deadlocked /\ p \in Involved \ signalled
  /\ signalled' = signalled \cup {p}
  /\ version' \in {version, [version EXCEPT ![p] = @ + 1]}
  /\ sched' = [sched EXCEPT ![p] = Append(@, TRUE)]
  /\ UNCHANGED <<scenario, status, keys, states, redirect, control, net, channel, decision, failed>>

-----------------------------------------------------------------------------
(* The worker *)

\* What the program of the transaction decides from the values it has: it
\* takes the first entry of a key, and aborts if the values are not as
\* expected (here: if their sum is odd).
ValueOf(entries, q) ==
  LET i == SelectInSeq(entries, LAMBDA e : e[1] = q)
  IN  IF i = 0 THEN 0 ELSE entries[i][2]

Program(entries) ==
  LET values == [q \in Involved |-> ValueOf(entries, q)]
      sum == FoldLeft(LAMBDA a, q : a + values[q], 0, SetToSeq(Involved))
  IN  [status |-> IF sum % 2 = 1 THEN "ABORTED" ELSE "COMMITTED", reads |-> values]

\* Execute and Finish of partition p with the given transaction object.
Outcome(st, entries) ==
  IF st = "ABORTED" THEN [status |-> "ABORTED", reads |-> <<>>] ELSE Program(entries)

\* Mutant: an abort is not told to the other partitions.
BroadcastNoAbort(p, run, st, entries) ==
  [net EXCEPT ![p] = [q \in Partition |->
     IF q \in Waiting \ {p} THEN Append(@[q], [run |-> run, abort |-> FALSE, reads |-> entries])
                            ELSE @[q]]]

\* BroadcastReads: to all other partitions that wait for reads.
Broadcast(p, run, st, entries) ==
  [net EXCEPT ![p] = [q \in Partition |->
     IF q \in Waiting \ {p}
       THEN Append(@[q], [run |-> run, abort |-> st = "ABORTED",
                          reads |-> IF st = "ABORTED" THEN <<>> ELSE entries])
       ELSE @[q]]]

\* ReadLocalStorage reads every key of the transaction object that the local
\* storage has.
LocalReads(p) ==
  [i \in DOMAIN keys[p] |-> IF keys[p][i][1] = p THEN <<p, version[p]>> ELSE keys[p][i]]

\* Mutant: the tag has only the transaction id.
RunIdTxnOnly(deadlocked) == FALSE

\* RunId and MakeTag: dispatches before and after a deadlock are different runs.
RunId(deadlocked) == deadlocked

\* The second run replaces the first if the worker has it.
Replaces(p, run) == run /\ FALSE \in DOMAIN states[p]

\* remote_reads_waiting_on: one message of each other partition.
ToWaitFor(p) == IF p \in Waiting THEN Cardinality(Involved) - 1 ELSE 0

\* OnCustomSocket: the second run replaces the first.  The local keys are read
\* and broadcast, then the worker waits for the remote reads or, with none to
\* wait for, executes.
ReceiveTransaction(p) ==
  /\ sched[p] # <<>>
  /\ LET run == RunId(Head(sched[p]))
         replaced == Replaces(p, run)
         old == IF replaced THEN Without(states[p], FALSE) ELSE states[p]
         st == IF p \in scenario.outdated THEN "ABORTED" ELSE status[p]
         entries == IF st = "ABORTED" THEN keys[p] ELSE LocalReads(p)
         waiting == ToWaitFor(p)
         stop == IF replaced THEN <<<<"stop", FALSE>>>> ELSE <<>>
     IN  /\ sched' = [sched EXCEPT ![p] = Tail(@)]
         /\ status' = [status EXCEPT ![p] = st]
         /\ keys' = [keys EXCEPT ![p] = entries]
         /\ net' = Broadcast(p, run, st, entries)
         /\ failed' = IF run \in DOMAIN old \/ decision[p] # <<>>
                        THEN failed \cup {"already dispatched"} ELSE failed
         /\ IF waiting = 0
              THEN /\ states' = [states EXCEPT ![p] = old]
                   /\ decision' = [decision EXCEPT ![p] = <<Outcome(st, entries)>>]
                   /\ control' = [control EXCEPT ![p] = @ \o stop]
              ELSE /\ states' = [states EXCEPT ![p] =
                        (run :> [waiting |-> waiting, phase |-> "WAIT_REMOTE_READ"]) @@ old]
                   /\ control' = [control EXCEPT ![p] = @ \o stop \o <<<<"start", run>>>>]
                   /\ UNCHANGED decision
  /\ UNCHANGED <<scenario, version, signalled, redirect, channel>>

\* OnInternalRequestReceived: reads of a run the worker does not know are
\* dropped; an abort is taken over; the reads are appended to the keys; with
\* the last one the transaction is executed and finished.
ReceiveRemoteRead(p) ==
  /\ channel[p] # <<>>
  /\ channel' = [channel EXCEPT ![p] = Tail(@)]
  /\ LET msg == Head(channel[p])
         state == states[p][msg.run]
         st == IF msg.abort THEN "ABORTED" ELSE status[p]
         entries == IF st = "ABORTED" THEN keys[p] ELSE keys[p] \o msg.reads
     IN  IF msg.run \notin DOMAIN states[p]
           THEN UNCHANGED <<status, keys, states, control, decision, failed>>
           ELSE /\ status' = [status EXCEPT ![p] = st]
                /\ keys' = [keys EXCEPT ![p] = entries]
                /\ failed' = IF decision[p] # <<>> THEN failed \cup {"transaction is gone"}
                             ELSE failed
                /\ IF state.waiting = 1
                     THEN /\ decision' = [decision EXCEPT ![p] = <<Outcome(st, entries)>>]
                          /\ control' = [control EXCEPT ![p] = Append(@, <<"stop", msg.run>>)]
                          /\ states' = [states EXCEPT ![p] = Without(@, msg.run)]
                     ELSE /\ states' = [states EXCEPT ![p][msg.run].waiting = @ - 1]
                          /\ UNCHANGED <<control, decision>>
  /\ UNCHANGED <<scenario, version, signalled, sched, redirect, net>>

-----------------------------------------------------------------------------
(* The broker.  redirect_ is indexed by tag, one tag for each run.         *)

NoRedirect == [to |-> FALSE, pending |-> <<>>]

Entry(p, run) == IF run \in DOMAIN redirect[p] THEN redirect[p][run] ELSE NoRedirect

\* Mutant: a message whose redirection is not established is dropped.
HandleIncomingMessageDrops(p, q) ==
  /\ net[q][p] # <<>>
  /\ net' = [net EXCEPT ![q][p] = Tail(@)]
  /\ LET msg == Head(net[q][p])
     IN  channel' = IF Entry(p, msg.run).to THEN [channel EXCEPT ![p] = Append(@, msg)] ELSE channel
  /\ UNCHANGED <<scenario, version, signalled, sched, status, keys, states, control, decision,
                 failed, redirect>>

\* HandleIncomingMessage: buffered until the worker asks for its run.
HandleIncomingMessage(p, q) ==
  /\ net[q][p] # <<>>
  /\ net' = [net EXCEPT ![q][p] = Tail(@)]
  /\ LET msg == Head(net[q][p])
         entry == Entry(p, msg.run)
     IN  IF entry.to
           THEN channel' = [channel EXCEPT ![p] = Append(@, msg)] /\ UNCHANGED redirect
           ELSE /\ redirect' = [redirect EXCEPT ![p] =
                     (msg.run :> [entry EXCEPT !.pending = Append(@, msg)]) @@ @]
                /\ UNCHANGED channel
  /\ UNCHANGED <<scenario, version, signalled, sched, status, keys, states, control, decision, failed>>

\* The broker's Loop takes a redirect request: stop forgets the tag, start
\* hands over what was buffered.
HandleRedirect(p) ==
  /\ control[p] # <<>>
  /\ control' = [control EXCEPT ![p] = Tail(@)]
  /\ LET run == Head(control[p])[2]
     IN  IF Head(control[p])[1] = "stop"
           THEN redirect' = [redirect EXCEPT ![p] = Without(@, run)] /\ UNCHANGED channel
           ELSE /\ channel' = [channel EXCEPT ![p] = @ \o Entry(p, run).pending]
                /\ redirect' = [redirect EXCEPT ![p] = (run :> [to |-> TRUE, pending |-> <<>>]) @@ @]
  /\ UNCHANGED <<scenario, version, signalled, sched, status, keys, states, net, decision, failed>>

Next ==
  \E p \in Partition :
    \/ SecondDispatch(p) \/ ReceiveTransaction(p) \/ ReceiveRemoteRead(p) \/ HandleRedirect(p)
    \/ \E q \in Partition : HandleIncomingMessage(p, q)

Spec == Init /\ [][Next]_vars

-----------------------------------------------------------------------------
(* Properties *)

\* Nothing is under way: no dispatch, message or request is left.
Quiet ==
  \A p \in Partition :
    /\ sched[p] = <<>> /\ channel[p] = <<>> /\ control[p] = <<>>
    /\ Deadlocked /\ p \in Involved => p \in signalled
    /\ \A q \in Partition : net[q][p] = <<>>

\* Types of the workers' and brokers' tables.
TypeOK ==
  /\ scenario \in Scenarios
  /\ status \in [Partition -> {"NOT_STARTED", "ABORTED"}]
  /\ \A p \in Partition :
       /\ DOMAIN states[p] \subseteq BOOLEAN /\ DOMAIN redirect[p] \subseteq BOOLEAN
       /\ \A run \in DOMAIN states[p] : states[p][run].waiting \in 1..Cardinality(Involved) - 1
       /\ Len(decision[p]) <= 1

\* The workers' CHECKs hold: a run is dispatched to a worker once, and no
\* remote read reaches a transaction that was finished and handed back.
WorkerChecksHold == failed = {}

\* The abandoned run cannot have received any read: with two partitions one
\* of them never started it.  With more, see ReadsOfSameDispatch.
NoReadsBeforeDeadlock == Deadlocked => Cardinality(Involved) = 2

\* The partitions that wait for each other's reads decide alike, whether one
\* of them has an outdated master, the program aborts, or a deadlock made them
\* start over with some of the messages of the first run still under way.
SameDecision ==
  NoReadsBeforeDeadlock => \A p, q \in Waiting :
    decision[p] # <<>> /\ decision[q] # <<>> => decision[p][1].status = decision[q][1].status

\* Partitions that commit computed from the same values, and these are the
\* values the keys had when the committing run read them: no value of a run
\* that was abandoned.
SameReads ==
  NoReadsBeforeDeadlock => \A p, q \in Waiting :
    decision[p] # <<>> /\ decision[p][1].status = "COMMITTED" =>
      decision[p][1].reads[q] = version[q]

\* No read is lost between the brokers and the workers, early (before the
\* worker asks for it) or late: when nothing is under way every partition has
\* finished, and no worker keeps the state of a run.
AllFinish == Quiet => \A p \in Involved : decision[p] # <<>> /\ states[p] = <<>>

\* What the broker keeps for ever: only buffered reads of the first run of a
\* transaction that was in a deadlock.
OnlyFirstRunsLeak ==
  Quiet => \A p \in Partition : \A run \in DOMAIN redirect[p] :
             ~run /\ Deadlocked /\ ~redirect[p][run].to

\* The comment on the two dispatches in scheduler.cpp: "the remote reads will
\* only be applied to the dispatch with the same 'deadlocked' flag".  A
\* transaction of any number of partitions commits on the values its last
\* dispatch read.
ReadsOfSameDispatch ==
  \A p, q \in Waiting :
    decision[p] # <<>> /\ decision[p][1].status = "COMMITTED" =>
      decision[p][1].reads[q] = version[q]
=============================================================================
