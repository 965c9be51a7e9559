# A TLA+ verification of Detock

This directory models how the repository orders transactions, decides when they
may run, executes them and stores the result. It is written from the C++
sources; file and line references below are to those sources.

## The system

A transaction enters at a **server**, whose **forwarder** looks up the master
region of every key and routes it. A single-home transaction goes to the
**sequencer** of its home region. A multi-home transaction goes either to the
**multi-home orderer**, which orders it globally and hands it to the sequencer
of every involved region, or straight to those sequencers. The sequencer's
**batcher** turns a multi-home transaction into the *lock-only* part of its
region, splits everything by partition, and sends batches to the **log
managers** of all regions while **simulated Paxos** decides the order of
batches within the region. A log manager keeps one **batch log** per region and
emits a batch when its slot, its data and its replication acks are there. The
**scheduler** of each partition feeds the emitted transactions to a **lock
manager**, dispatches a transaction to a **worker** when it holds all its
locks, and releases the locks when the worker is done. Workers of the involved
partitions exchange reads before they execute.

Regions order their logs independently, so two multi-home transactions can meet
in opposite orders and wait for each other. The default lock manager (DDR)
lets this happen and runs a **deadlock resolver** thread per partition. The
resolvers exchange their wait-for edges, find the same strongly connected
components everywhere, and replace the edges inside a component by a chain in
the order of the transaction ids. RMA and OLD are alternative lock managers;
**Janus** is an alternative protocol used for comparison.

### Inventory

| Part | State | Operations | What is hard |
|---|---|---|---|
| Server, forwarder | pending requests, lookups and answers, latencies | request, lookup, answer, latency probe | one answer per request, made of the parts of all partitions; lookups that are old when used |
| Multi-home orderer | open batch, batch log | add, send, data, order | regions with nothing in a batch |
| Sequencer, batcher | open batches, buffered future transactions | add, send, wake up | two threads, timers and signals; delayed batches |
| Simulated Paxos | instances, next slot | propose, accept, commit | forwarding to the leader |
| Log manager | local log, batch log per region | data, local and remote order, ack | three kinds of messages about one batch, forwarded along different paths |
| Batch log | slots, batches, missing acks, ready queue | AddBatch, AddSlot, AckReplication, NextBatch | inputs in any order |
| Scheduler | transaction holders, one log per home | transaction in, signal, worker done, remaster | parts of several logs in any interleaving; clean-up |
| DDR lock manager | queue tail per lock, waited-by lists, two counters per transaction | AcquireLocks, ReleaseLocks | the tail remembers only the last requesters |
| Deadlock resolver | graph, copy of the waited-by lists, log of edges | Run, graph logs from other partitions | a second thread updating a copy that is already old; agreement without a protocol |
| OLD, RMA lock managers | lock queues, counters | AcquireLocks, ReleaseLocks | queues of readers and writers, tables that grow |
| Remaster managers | queues of blocked transactions | verify, remaster occurred, release | who is woken, and in which order |
| Worker | phase per run, remote reads | dispatch, remote read, execute, finish | reads that come early, late, or for the run before the deadlock |
| Storage | hash map under a reader-writer latch | Get, InsertOrUpdate, Erase | resizing beside readers, lost wake-ups |
| Janus | dependencies, quorum counters, pending graph | pre-accept, accept, commit, inquire, execute | fast and slow path, dependency cycles |
| Stored procedures | rows, generators' counters | load, generate, execute | keys fixed before execution, in another order |

## Modules

| Module | Models |
|---|---|
| `FrontEnd`, `TxnUtils` | server and forwarder of a region; how transactions are classified, split and merged |
| `MultiHomeOrderer` | the orderers of all regions over `BatchLogTable` |
| `Sequencer`, `SequencerProofs` | the sequencer and batcher threads of one machine, the theorems |
| `Paxos`, `ProposalOrder`, `PaxosProposalProofs`, `PaxosAnswerProofs`, `PaxosProofs` | the simulated multi-Paxos of one region; what it promises: all proposals in one order, each once; the theorems |
| `BatchLogTable`, `BatchLog`, `BatchLogProofs` | the class `BatchLog`, its inputs, the theorems about it |
| `LocalLogTable`, `LogManager`, `SharedLog`, `LogManagerProofs` | the class `LocalLog`; the log managers of all machines with the batchers and Paxos groups that feed them; what they promise: one log per region, of which every machine emits a growing prefix; the theorems |
| `Scheduler` | the scheduler of a partition with the managers below |
| `OldLockManager`, `RMALockManager`, `RemasterManager` | these managers, as operators `Scheduler` calls |
| `DDRLockTable`, `DDRLockManager`, `DDRLockManagerProofs` | the data of a DDR lock manager, its operations, the theorems |
| `DeadlockResolver`, `WaitGraph`, `SCCOrder` | all partitions of a replica with two threads each; components as definitions; the resolver's graph loops, one iteration per step |
| `Worker` | the workers of a multi-partition transaction with their brokers |
| `KeyValueExecution`, `JanusWorker` | key-value programs; their execution by the workers of Janus and of Detock, with values |
| `TxnTable`, `TPCC` | tables and adapters of stored procedures; the TPC-C loader, generator and procedures |
| `RWLatch`, `HashMap`, `MapSpec` | the latch; the storage's hash map under it; what a map promises: operations that take effect at one moment |
| `HashMapProofs` | the theorems about both |
| `JanusConsensus`, `JanusScheduler` | coordinators and acceptors; the schedulers of a region |
| `MCPipeline`, `MCLocking`, `MCExecution`, `MCStorageJanus` | the instances that are model-checked |

### DDR lock manager

`lock_table[k]` is the `LockQueueTail` of the pair <key, region>. `live` is the
key set of `txn_info_`; `waited_by`, `num_waiting_for` and `unarrived` are the
fields of `TxnInfo`. A waited-by list starts with the sentinel entry, as in the
code, and may name a transaction twice. `AcquireLocks(t, h)` is the request of
t's part with home h, `ReleaseLocks(t)` may happen once t is ready. The two
history variables `clock` and `when` record the order of the requests per lock
so that the promise of the class comment can be stated.

### Deadlock resolver

A partition has a scheduler thread and a resolver thread. A step of the model
is what one thread does between two latch operations:

- `AcquireLocks` ends with the `txn_info_` latch, `AppendLog` is the part under
  the log latch and the scheduler's dispatch that follows;
- `ResolverRun` covers the log swap, the private graph work and the broadcast,
  `ApplyUpdates` the critical section, `PublishReady` the hand-over and signal;
- `ReleaseLocks`, `OnSignal` and `ReceiveGraphLog` are one handler each.

Each region's log reaches all partitions in one order, and logs of different
regions interleave freely. A worker may execute a run once all involved
partitions dispatched the same <transaction, deadlocked flag>, because remote
reads carry that flag. `SCCOrder` justifies using the mathematical components
of `WaitGraph` in `ResolverRun`.

### Batch log

A slot holds at most one batch; `replication` may be negative while acks are
ahead of their slot. `UpdateReadyBatches` runs at the end of every input, so it
is part of every action.

### Log manager

A machine is <<region, replica, partition>>. `SendBatch` is what a batcher does
with one batch, `Commit` what a region's Paxos reports to its learners; a
proposal carries only the generator's id, so the i-th commit of a generator
means its i-th batch. The four handlers end with `AdvanceLog`, as
`OnInternalRequestReceived` does, and forward what they got to the other
replicas and partitions under the code's `first_time` conditions. `net` is a
set because the messages about one batch come from different modules along
different paths. Several log managers on a machine each own some home regions
and share nothing; the model has one per machine. `ImplementsSharedLog` is the
refinement: `order` maps to the batches Paxos ordered, `out` to what was given
to the scheduler.

### Paxos

Links are FIFO per pair of machines. Ballots are left out because only the
first acceptor ever sends an accept request. The commit branch of
`Leader::HandleResponse` reads the slot from the empty accept part of the
response (leader.cpp:81), so it erases instance 0 only; the model does the
same. The effect is that `instances_` grows, and no property is touched.

### Multi-home orderer

`batch_per_reg[r][reg]` is the part for region reg of the open batch of r's
orderer. `OnCommit` is the global Paxos committing one proposal and its leader
telling every orderer the slot; it stands on what `ProposalOrder` promises.
`forwarded[r]` is what r's sequencer gets.

### Sequencer and batcher

`BufferFutureTxn` and `SendSignal` are two steps of the sequencer thread,
because the latch is released between them. Each handler or timer of the
batcher is one step: it looks at the shared buffer in one critical section and
the rest is private. The options of the configuration are a variable that
never changes, so that one run covers several configurations. Timers fire at their time or later, against one clock.
`batched` and `seen` are history.

### Server and forwarder

A step is one handler. `toForwarder`, `toServer` and `f_net` are the links;
lookups are batched per partition as in `SendLookupMasterRequestBatch`. Between
forwarding and the reports of the workers nothing is modelled: every involved
partition reports once, with any status. `TxnUtils` holds the functions of
`proto_utils.cpp` that later modules split and merge transactions with, and
`LockOnlyParts` applies all of them in a row.

A request for statistics goes to the module it names. `ModuleStats` is the way
of one through the sequencer to its batcher, or to the scheduler, and back. Four
kinds of request are never answered, and `NothingLost` says that these are all:
statistics of the multi-home orderer, which knows no such request
(multi_home_orderer.cpp:58-60), of a module that does not exist, a request of
unknown type, and a transaction with a key that the sharder cannot place. For
all but the unknown type the server keeps the entry of the waiting client. With
the Janus service, coordinator, acceptor and scheduler only log their statistics
(janus/coordinator.cpp:36-38); the model has the modules of Detock.

### Scheduler, lock managers and remaster managers

`s` is the scheduler's whole private state. Its handlers call each other through
the managers (a release can make others ready, which can unblock others), so a
handler is a function from `s` to `s`. `storage` holds the metadata of the keys,
which the workers read and a remaster changes: `WorkerRead` and `WorkerExecute`
are two steps with other workers in between. A scenario fixes the build and the
two logs; all logs over the given transactions that the rest of the system can
produce are scenarios. `CheckCounters` ends the process when a key has the counter
of the storage and another master (remaster_manager.h:90-92). `TypesAndChecks`
shows that this does not happen while a key is remastered once.

A remaster in the COUNTERLESS protocol is expected in one lock-only part and
arrives in two: `GeneratePartitionedTxn` recounts the involved regions from the
keys' masters, and the new master is none of them. Its holder is therefore never
collected (txn_holder.h:47). `LockOnlyParts` and `CleanAtRest` except it.

### Worker

One transaction with its two runs, before and after a deadlock. A run waits in
the broker's redirect table until the worker asks for its messages, and
messages of either run arrive at any time. The transaction object is shared by
the runs, which `worker_stale` is about.

### Execution

`JanusWorker` gives the phases of the Janus and the Detock workers the values
they compute; `AsOnOneMachine` compares the result with the program run on all
keys at once. `TxnTable` has the two adapters a procedure runs against. In
`TPCC` a generator makes a transaction with `max_o_id_` as it is then, and the
transaction executes later, in any order with the others, as the locking layer
allows. A column that the grouped encoding reads beyond the end of an empty value
is any value of `Garbage`. The parts of `BooksBalance` that relate orders to the district
counters, and the history to what the customers paid, are stated for one
generator in a region: two give out order and history ids independently.

### Storage

`RWLatch` has one step per critical section of the latch's mutex; a sleeping
thread may also wake up by itself, as condition variables allow. `HashMap`
extends it: the body of an operation runs where the latch allows it, readers
walk a list node by node, and the first user of a segment creates it. `MapSpec`
is the abstract map; the refinement maps an operation that has passed its
critical section to one that took effect.

### Janus

`JanusConsensus` is the agreement on dependencies, `JanusScheduler` what the
schedulers of a region do with them. An acceptor names only the latest writer of
a key. The coordinator waits for all regions while their answers agree, and
for half of them, rounded up, once two differ (coordinator.h:73-79). With two
regions both must answer and with three any two quorums meet. With four, two
differing answers are a quorum, quorums need not meet, and `ConflictsOrdered`
fails for four writers of a key; the run has three regions. A transaction whose
keys cannot be placed is dropped before the coordinator remembers it
(coordinator.cpp:64-67): `CommittedEverywhere` says that no acceptor hears of it
and no client is answered.

`DispatchClosed` is about what is dispatched after a handler, not about the order
within one. `FindSCCs` leaves `on_stack` of the root of a component set
(tarjan.cpp:48-61), and `Finalize` that of a vertex it puts back. A later search
takes such a vertex for one on its stack and may join transactions that are not
strongly connected; a component goes out by transaction id. With the
dependencies 1 -> 2 -> 3, 3 -> 4 and 4 -> 3, and the commits arriving in the
reverse order, a partition dispatches 3, then 1, then 2, although 1 depends on 2.
So the stronger reading, that a transaction follows everything outside its
component that it depends on, does not hold of this code.

## Runs

Four runs check everything that holds. Each puts several parts side by side:
`part` says which one a behaviour is about, and the others do not move. Within a
part, several instances are initial states. Deadlock checking is off because
every part ends when its bounded input is used up; that nothing is left
undone is stated by the properties named in the last column.

| Run | Parts and instances | Shows |
|---|---|---|
| `locking` | DDR lock manager: 4 transactions, 3 locks, 2 homes. Resolver: 3 transactions in opposite orders at 2 partitions, one in two parts. Scheduler: all admissible logs of 5 transactions on 2 keys, 2 workers, in three builds | exact counters, grants in request order, exclusion; resolvers work on a prefix and agree, dispatches legal; outcomes fixed by the logs. Completion: `AllComplete`, `CleanAtRest` |
| `pipeline` | batch log: 3 batches, 2 acks each. Log managers: 2 regions × 2 partitions with 2 generators, and with 2 replicas and 1 batch. Paxos: 3 replicas × 2 partitions. Orderer: 3 regions. Sequencer: 4 transactions, two configurations. Front end: 3 machines, 2 clients, every kind of request to the modules of Detock | exactly the complete prefix is let through; one shared log per region; one order of proposals; one order of multi-home transactions; timestamp order; one right answer per request. Completion: `NothingHeldBack`, `AllLearned`, `SameOrder`, `AllSent`, `NothingLost` |
| `execution` | workers: 2 and 3 partitions, every place of a deadlock and of an outdated master. Graph search: all graphs on 4 nodes, up to one incomplete. Janus schedulers: 7 dependency graphs on up to 3 partitions. Programs: 6 programs, 4 lists of keys, 2 stores. TPC-C: 8 deployments | same decision and same reads everywhere; exact components; no dispatch before all dependencies are known; programs as on one machine; TPC-C's books balance. Completion: `AllFinish`, `AllExecuted` |
| `storage_janus` | hash map: 3 keys, 3 threads, 4 sets of calls through a resize. Janus: 3 regions, 2 partitions, up to 3 transactions, on the fast and the slow path over one and two partitions, with a key that has no place | linearizable map, no lost wake-up; conflicting transactions ordered by their dependencies. Completion: `CommittedEverywhere` |

A property of an MC module joins what the modules of its parts state about one
question. `TypesAndChecks` of each run has the types of all tables and the
CHECKs and exceptions of the code, `CountersExact` the counters of all lock
managers, `BooksBalance` the consistency conditions of TPC-C. `GrantOrder`,
`MutualExclusion` and `LetsThroughExactly` are the definitions the theorems are
about, and so are `NoLostWakeup` of the latch and `Linearizable` of the hash map. The theorems about Paxos, the log
managers and the sequencer are about definitions that `pipeline` checks through
its instances of these modules, and its assumption `ProvedInstances` says that
the instances meet what those theorems assume.

The others each show one disagreement, on the smallest instance that has it:
`deadlock_exclusion`, `scheduler_remaster`, `scheduler_wakeup`, `log_nowhere`,
`sequencer_delay`, `worker_stale`, `janus_reads`, `tpcc_deliver`.

Bounds. A deadlock needs two transactions and two locks; three transactions are
the smallest number with a component that has a waiter outside it or a chain
with a middle, and four requests on one lock are the smallest case in which a
waiter is two writers behind its blocker. Two homes are enough for lock-only
parts to overtake each other and for a waiter to be listed twice. Four graph
nodes are the fewest with two separate cycles. The scheduler's logs have
transactions before, after and across a remaster, and two workers, so that one
can read while the other changes the metadata. The log manager is split into
two topologies because the forwarding paths need replicas, and the pairing of
slots and queues needs several batches, but no interaction needs both at once.
Two partitions are enough for data to reach a machine directly and through
another one. Three acceptors are the fewest of which one is not needed. Four
transactions in batches of two fill one batch, open the next, and leave it
empty. Two partitions already give a worker an early, a late and a missing
read; the third one is needed for a read of an abandoned run. Three keys
cross the hash map's growth threshold, two of them colliding before it. In the
Janus scenario with a conflict over two partitions, behaviours end when an answer
reaches the coordinator of the second transaction (`held` in `Bound`), and the
first one goes through its accept phase to the end. Symmetry is used
for the regions and transactions of Janus, which its steps never tell apart.

Fairness. For the resolver, weak fairness of each handler: the event loops and
the resolver's timer keep running and the links deliver everything they are
given (ZeroMQ over TCP, unbounded queues). Paxos and the sequencer can take only finitely many steps
under their bounds, so weak fairness of a step says that every message is
handled and every timer fires. Elsewhere completion is an invariant of the
states in which nothing is under way.

## Findings

`deadlock_exclusion`: resolving a deadlock can lose a wait for a transaction
outside the deadlock. With 3, 2, 1 queued for the write lock of one key,
transaction 1 waits for 2 and only 2 waits for 3. If 1 and 2 also wait for each
other elsewhere, the resolver drops the wait of 1 for 2 and chains 1 before 2:
now 1 waits for nobody, and runs while 3 still holds the lock. The comment of
`AcquireLocks` (ddr_lock_manager.h:106-108) says a transaction waits "for the
current holders to release".

`scheduler_remaster`: a worker marks a transaction with an outdated master
aborted, but `Execute` sets a remaster to COMMITTED without looking
(worker.cpp:267). Of two remasters of one key, the second changes the metadata
while a transaction with the right master executes. rma_lock_manager.h:63-66 says
that of two such transactions "one has an incorrect master and will be aborted".
The second remaster also leaves the counter as it was under another master, so a
transaction that waits in the SIMPLE or PER_KEY manager can then end the process
at the CHECK of remaster_manager.h:90-92.

`scheduler_wakeup`: the PER_KEY remaster manager holds a part back because of a
blocked key of another home but queues it only at the keys of its own
(per_key_remaster_manager.cpp:24-51). The remaster of that key does not wake it.

`log_nowhere`: with an empty entry in `replication_order` a region is said to
"not synchronously replicate to anywhere" (configuration.proto:185-188), but
every slot still waits for `replication_factor() - 1` acks
(log_manager.cpp:298) and the region's log never advances. A related point is
not stated as a property: a region acknowledges a batch when its order arrives
(log_manager.cpp:227), so synchronous replication covers the place of a batch
in the log (`OrderReplicated`) and not its data.

`sequencer_delay`: `SendBatches` returns at the first delayed batch
(batcher.cpp:232) and the batches behind it are cleared unsent. The positions
they had are never used, so the log managers wait for them. Without a limit on
the size of a batch there is only one batch in a round and the delay is
harmless (`pipeline`).

`worker_stale`: remote reads of the dispatch before a deadlock stay in the
transaction, and the procedures use the first entry of a key (worker.cpp:87).
With three partitions the second dispatch commits on a value of the first.

`janus_reads`: a Janus worker keeps empty entries for the keys of other
partitions in front of the reads it receives (janus/worker.cpp:288), so its
programs see missing values. `execution` checks the same property for the
Detock workers, where it holds.

`tpcc_deliver`: the generator numbers order lines from 0, Deliver from 1
(workload/tpcc.cpp:248, execution/tpcc/deliver.cpp:21): one line is never dated.

Two more are parts of what holds, because no comment or test says otherwise. With
one region and several replicas (examples/tpcc/tu_cluster_tpcc_calvin.conf), the
generators of all replicas but the first read items that were never loaded:
workload/tpcc.cpp:234 computes an item's warehouse from the replica and
load_tables.cpp:197-203 from the one region. An absent item is read like a
present one, so these orders commit. `WorkloadCommits` says that exactly these
rows are missing. The other is the order of Janus dispatches (see Janus above).

## Proofs

`DDRLockManagerProofs` proves, for any finite sets of transactions and locks:

- `TypeCorrect`: the counters, signed in the code, are never negative;
- `ExactCounters`: `num_waiting_for` equals the number of waited-by entries
  that will decrement it;
- `GrantsInOrder`: a transaction is not ready while an earlier conflicting
  request on a lock is outstanding;
- `Exclusion`: ready transactions do not conflict.

They follow from `Invariance`, that `IInv` is inductive. `GrantOrder` alone is
not: a new request looks only at the tail of the queue. `TailInv` says what the
tail holds (the last writer and the readers behind it). `OrderInv` says that a
blocked transaction waits for its blocker or for one that is itself blocked
behind the blocker, directly or through one more writer. `ArrivalInv` ties the
order of requests to the requests received, and `CountInv` makes the counters
usable. The assumptions are that transaction ids are positive, transactions and
locks are finite, and no transaction both reads and writes one key (a key has
one type in the code).

`BatchLogProofs` proves, for an order of any length, any number of acks and any
order of arrival:

- `LongestCompletePrefix`: what the log let through is the longest prefix of
  the order whose slots, data and acks have come;
- `DataIsPresent`: `NextBatch` finds the data it dereferences.

The inductive invariant ties every field of the log to what was received:
`slots` to the slots at or after `next`, `replication` to the acks still
missing or ahead, `batches` to the data not yet taken, and `out` with `ready` to
the order. Its last part, that the next slot is not ready, fails between an
input and the loop that follows it. `UpdateMatches` therefore shows that the
loop restores it and keeps the rest, and each operation only has to show the
rest. `GapExists` says that the loop has a place to stop. The assumption is that no
batch has two slots.

`HashMapProofs` proves, for any finite set of threads, `LatchMutualExclusion` (a
writer is alone) and `LatchNoLostWakeup` (nobody sleeps on a condition that
holds or that nobody is left to signal). The inductive `LatchInv` says that the
counter counts the readers inside, that `writer_entered` is set while a writer is
past its first loop, that there is at most one such writer, and that it writes
only when the readers have left; each step has a lemma. The assumption is that
there are fewer threads than the counter's limit. Every step of the map is
a step of the latch or leaves it alone (`MapUsesLatch`), so the map inherits the
latch's theorems (`MapMutualExclusion`).

For the map itself it proves, for any keys, values, hash function, initial size
and programs, `MapLinearizability` (the map implements `MapSpec`, through every
rehash), `MapWellFormed` (no key twice, every key where a lookup searches it, the
counter at least the number of keys and below the load) and `MapWalkUndisturbed`
(no list changes under a reader). The argument has three layers:

- the table as data: `RehashKeeps` says that the new array has the same nodes, each
  in the list of its key, `Inserted` and `Erased` what a call leaves in a
  well-formed table (`SegmentOK`), and `LoadGrows` that a table that grew may take
  another key;
- the inductive invariant `MapInv`: a call past `EnsureSegment` has the one segment
  and the latch that fits it (`CallsInv`), every segment is well formed and an unused
  one is empty (`ObjectsInv`), and a walk is in the list of its key and has passed
  other keys only (`WalksInv`), which needs the exclusion of the latch;
- the refinement: a lookup takes effect when its walk ends (`WalkRefines`), a write
  with the change of the table (`WriteRefines`), everything else is invisible
  (`StepRefines`).

`MapAssumption` only gives the constants their types. The folds of a rehash
are over data of any size: `Least` and `UpTo` give induction over a set of numbers,
and `FoldExists` that the function a fold of the module `Folds` chooses exists.

`PaxosProofs` proves, for any number of replicas and partitions, with and
without local synchronous replication, and any number of proposals:

- `TotalOrder`: the group implements `ProposalOrder`: proposals are put into one
  order, none more often than it was made, and learners are told only slots of
  that order, each slot once;
- `InSequence`: a learner is told the slots one after the other, so nothing in
  the code has to wait for an earlier commit;
- `MajorityBeforeCommit`: no learner is told a slot before a majority of the
  acceptors has accepted it.

The code keeps no such promise in one place: the leader sends a commit the moment
a count reaches the majority, whatever the count of the slot before. The
inductive invariant explains why the slots still come in order. `AcceptInv` and
`AnswerInv` say that requests and answers keep the order of the slots on each
link, so the acceptors that answered slot s have answered every slot before it;
`CountInv` says that the leader's counter is the number of these acceptors, and
`CommitInv` concludes that the committed slots are a prefix, and that each learner
was told, or has in its link, exactly this prefix. `ProposalInv` counts each
proposal in one place (own module, link to the leader, order), `RoutedInv` says
what each message claims and between whom it travels, and `InstanceInv` ties the
leader's table to the order. `PaxosProposalProofs` has this invariant, what a step
does to the links, and the steps of a proposal, `PaxosAnswerProofs` the steps
around an acceptor's answer. The assumption on links, first in first out without
loss, is the one of the model.

`LogManagerProofs` proves, for any number of regions, replicas and partitions,
any replication factor and any load, that the log managers implement `SharedLog`
(`OneOrderEverywhere`): every machine emits, for each home region, a growing
prefix of the order that region's Paxos decided, whatever the order in which
data, local orders, remote orders and acks come. The invariant `Tracks` says of each
batch log that its slots agree with the order and that emitted and ready batches
are the order's first `next`; `LocalTracks` says of each local log that
its heads count the generator's turns below `next`, which is why the batch it
names for a slot is the one every other region computes; `NetOK` says the same of
each message in flight. `UpdateTracks` and `LocalUpdateTracks` are the loops of
the two classes, `AdvanceStep` is the chain a handler ends with (drain the local
log, add slots, forward, drain the batch logs), and each kind of message has
a lemma. `TypeCorrect` follows from the invariant. The assumptions are the
configuration (at least one region, replica and partition, a replication factor
of at least 1) and that the load fits the bound `MaxSlot` on slots, which is
arbitrary.

`SequencerProofs` proves, for any transactions, any timestamps and both
configurations, that transactions are batched by timestamp except for those
that arrived after a later one was batched (`BatchedByTimestamp`), and that
a buffered transaction has a signal or a timer that will wake the batcher in
time (`BufferedIsWoken`). Both are inductive with `OneWayIn` (the two ways into
the batcher exclude each other), `Apart` and `OvertakenEarlier`. `OrderKept`
is the argument about a whole round: what `ProcessReadyFutureTxns` takes is a
prefix of the buffer in its order. `EarliestExists` says that the buffer has a
first transaction, for any set of timestamps.

The loops over logs and ready batches (`UpdateReadyBatches`, `AddSlots`, `Drain`,
`ProcessReadyFutureTxns`) are written by what they end with, not by recursion, so
that these theorems can be about the same definitions that TLC runs.

The exclusion of the latch, `WalkUndisturbed`, `DataPresent` and the inductive
invariants `IInv` are proved and not part of a run; the runs check what
follows from them. Everything else is model-checked only:

- liveness (`AllComplete`, `NothingHeldBack`, `AllLearned`, ...), which is beyond
  the prover;
- the resolver, the graph search, the Janus schedulers and the procedures, which
  recurse over graphs and tables, and the orderers' flattening of batches, and
  with it `SameOrder`: each of these loops would need an induction of its own, as
  a rehash did;
- the front end, the scheduler with its lock managers and the workers, whose
  properties are about complete runs or fold over the parts of a transaction;
- `OrderReplicated` of the log managers: a batch's counter of missing acks may go
  below zero while acks overtake the local order, and what it counts is spread
  over the messages in flight;
- that the log managers give no batch twice to a log (`InsertOnce`) and send whole
  batches only to a new replica (`WholeWhenFirst`).

## Not modelled

Messaging: sockets, pollers and module threads are taken as links that keep the
order and lose nothing, which is what ZeroMQ gives the code; the broker's
redirection of messages to workers is in `Worker`. Nothing is persisted, so
there are no restarts. The clock synchronizer computes with measured times:
`FrontEnd` lets latencies have any sign and `Sequencer` takes any timestamps.
MovR's procedures never run on a server: both workers choose between the
key-value and the TPC-C execution and give every other type, MOVR included, to
`NoopExecution` (scheduler_components/worker.cpp:34-44, janus/worker.cpp:34-44),
and `MovrExecution` is constructed nowhere. What is left of MovR, its loader and
its generator, fills tables and draws keys that no procedure reads. That the
graph search ends is not stated; its result is checked when it does.
Other workloads, clients, start-up, configuration parsing, metrics and the
administration tools hold no protocol state.
