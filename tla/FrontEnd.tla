------------------------------ MODULE FrontEnd ------------------------------
(***************************************************************************)
(* The front end of a region: on every machine (one for each partition) a  *)
(* server (module/server.cpp), which takes requests of clients and answers *)
(* them, and a forwarder (module/forwarder.cpp), which looks up the master *)
(* regions of a transaction's keys, in batches at the forwarders of other  *)
(* partitions, and sends the transaction on.  What happens between the     *)
(* forwarder and the workers that report a finished part to the            *)
(* coordinating server is left open here: every involved partition reports *)
(* once, with any status.                                                  *)
(***************************************************************************)
EXTENDS TxnUtils, Sequences, SequencesExt, FiniteSetsExt

CONSTANTS Partition, Region, LocalRegion, Key, Client,
          DefaultMaster,   \* metadata_initializer_: the master of a key that does not exist
          WindowSize,      \* avg_latency_window_size
          Latencies,       \* values a pong may report, may be negative: the clocks differ
          MaxPongs,        \* bound on the probes answered
          Scenarios        \* records [conf, request, master]: configuration, clients, storage

VARIABLES conf,          \* [regions, counterless, bypass, synchronized, shrink, leader,
                         \*  starting, probing, moves]: machines that start up, the pairs
                         \*  of a machine and a region that answers its probes, the
                         \*  keys that get another master meanwhile
          request,       \* what each client will send: [kind, at, ...]
          sent,          \* clients that sent it
          master,        \* master of each key in the storage of its partition, Unset if none
          server,        \* machine -> [txn_id_counter, pending_responses, finished_txns, offline]
          toForwarder,   \* machine -> messages of its server
          toModule,      \* requests for statistics to other modules: [module, at, id]
          forwarder,     \* machine -> [pending, lookup, batch_size, timer, latencies]
          net,           \* net[p][q]: messages between forwarders
          toServer,      \* messages to servers
          forwarded,     \* what forwarders sent on, in order: [txn, to, delay]
          answers,       \* client -> responses
          pongs,         \* history: what probes reported to machine p about region r
          reported       \* history: <<id, partition, status>> of finished parts

vars == <<conf, request, sent, master, server, toForwarder, toModule, forwarder, net,
          toServer, forwarded, answers, pongs, reported>>

EmptyLookup == [p \in Partition |-> [txns |-> <<>>, keys |-> {}]]

Init ==
  /\ \E sc \in Scenarios : conf = sc.conf /\ request = sc.request /\ master = sc.master
  /\ sent = {}
  /\ server = [p \in Partition |->
       [txn_id_counter |-> 0, pending_responses |-> <<>>, finished_txns |-> <<>>,
        offline |-> conf.starting \ {p}]]
  /\ toForwarder = [p \in Partition |-> <<>>]
  /\ toModule = {}
  /\ forwarder = [p \in Partition |->
       [pending |-> <<>>, lookup |-> EmptyLookup, batch_size |-> 0, timer |-> FALSE,
        latencies |-> [r \in Region |-> [sum |-> 0, buffer |-> <<>>]]]]
  /\ net = [p \in Partition |-> [q \in Partition |-> <<>>]]
  /\ toServer = {m \in [type : {"signal"}, from : conf.starting, to : Partition] : m.from # m.to}
  /\ forwarded = <<>>
  /\ answers = [c \in Client |-> <<>>]
  /\ pongs = [p \in Partition |-> [r \in Region |-> <<>>]]
  /\ reported = {}

Without(f, x) == [y \in DOMAIN f \ {x} |-> f[y]]

-----------------------------------------------------------------------------
(* The server *)

NextTxnId(p) == LET n == server[p].txn_id_counter + 1 IN [counter |-> n, id |-> <<p, n>>]

\* SendResponseToClient: to the client that is waiting for this id, if any.
Respond(sv, ans, id, res) ==
  IF id \notin DOMAIN sv.pending_responses THEN [sv |-> sv, answers |-> ans]
  ELSE [sv |-> [sv EXCEPT !.pending_responses = Without(@, id)],
        answers |-> [ans EXCEPT ![sv.pending_responses[id]] = Append(@, res)]]

NewTxn(id, r) ==
  [id |-> id, keys |-> r.keys, meta |-> [k \in r.keys |-> Unset], writes |-> r.writes,
   remaster |-> r.remaster, type |-> "UNKNOWN", home |-> Unset, regions |-> {}, partitions |-> {},
   active |-> {}, badKey |-> r.badKey]

AbortResponse(id) == [type |-> "txn", id |-> id, status |-> "ABORTED", keys |-> {}]

\* ProcessStatsRequest of a server: the request itself is among the pending.
ServerStats(sv) ==
  [type |-> "stats", of |-> "SERVER", txn_id_counter |-> sv.txn_id_counter,
   num_pending_responses |-> Cardinality(DOMAIN sv.pending_responses),
   num_partially_finished_txns |-> Cardinality(DOMAIN sv.finished_txns)]

\* OnCustomSocket.  The id is drawn and the client recorded for every kind of
\* request; the rate limiter may refuse a transaction.
ClientRequest(c, allowed) ==
  /\ c \notin sent
  /\ sent' = sent \cup {c}
  /\ LET r == request[c]
         p == r.at
         id == NextTxnId(p).id
         sv == [server[p] EXCEPT !.txn_id_counter = NextTxnId(p).counter,
                                 !.pending_responses = (id :> c) @@ @]
         Answer(res) == LET x == Respond(sv, answers, id, res)
                        IN  /\ server' = [server EXCEPT ![p] = x.sv] /\ answers' = x.answers
                            /\ UNCHANGED <<toForwarder, toModule>>
         Ask(msg) == /\ toForwarder' = [toForwarder EXCEPT ![p] = Append(@, msg)]
                     /\ server' = [server EXCEPT ![p] = sv]
                     /\ UNCHANGED <<answers, toModule>>
     IN  \/ /\ r.kind = "txn"
            /\ IF ~allowed \/ r.keys = {} \/ (r.remaster # Unset /\ conf.regions = 1)
                 THEN Answer(AbortResponse(id))
                 ELSE Ask([type |-> "forward", txn |-> NewTxn(id, r)])
         \/ r.kind = "stats" /\ r.module = "SERVER" /\ Answer(ServerStats(sv))
         \/ r.kind = "stats" /\ r.module = "FORWARDER" /\ Ask([type |-> "stats", id |-> id])
         \/ /\ r.kind = "stats" /\ r.module \in {"MHORDERER", "SEQUENCER", "SCHEDULER"}
            /\ toModule' = toModule \cup {[module |-> r.module, at |-> p, id |-> id]}
            /\ server' = [server EXCEPT ![p] = sv] /\ UNCHANGED <<answers, toForwarder>>
         \/ /\ r.kind = "stats" /\ r.module = "INVALID"
            /\ server' = [server EXCEPT ![p] = sv] /\ UNCHANGED <<answers, toForwarder, toModule>>
         \/ r.kind = "metrics" /\ Answer([type |-> "metrics"])
         \/ /\ r.kind = "unknown"
            /\ server' = [server EXCEPT ![p] = [sv EXCEPT !.pending_responses = Without(@, id)]]
            /\ UNCHANGED <<answers, toForwarder, toModule>>
  /\ UNCHANGED <<conf, request, master, forwarder, net, toServer, forwarded, pongs, reported>>

\* try_emplace of finished_txns_ with the size of involved_partitions.
Remaining(txn) == Cardinality(txn.partitions)

\* AddSubTxn: the first part is kept, the others are merged into it.
AddSubTxn(known, old, txn) ==
  IF known THEN [txn |-> MergeTransaction(old.txn, txn), remaining |-> old.remaining - 1]
           ELSE [txn |-> txn, remaining |-> Remaining(txn) - 1]

\* ProcessFinishedSubtxn: with the last part the client gets its answer.
ProcessFinishedSubtxn(p, msg) ==
  LET id == msg.txn.id
      known == id \in DOMAIN server[p].finished_txns
      old == server[p].finished_txns[id]
      new == AddSubTxn(known, old, msg.txn)
  IN  IF id \notin DOMAIN server[p].pending_responses
        THEN UNCHANGED <<server, answers>>
        ELSE IF new.remaining = 0
          THEN LET x == Respond([server[p] EXCEPT !.finished_txns = Without(@, id)], answers, id,
                                [type |-> "txn", id |-> id, status |-> new.txn.status, keys |-> new.txn.keys])
               IN  server' = [server EXCEPT ![p] = x.sv] /\ answers' = x.answers
          ELSE /\ server' = [server EXCEPT ![p].finished_txns = (id :> new) @@ @]
               /\ UNCHANGED answers

\* OnInternalResponseReceived: statistics of another module.
ReceiveStats(p, msg) ==
  LET x == Respond(server[p], answers, msg.id, msg.stats)
  IN  server' = [server EXCEPT ![p] = x.sv] /\ answers' = x.answers

\* OnInternalRequestReceived of a server.
ServerReceive(p, msg) ==
  /\ msg \in toServer /\ msg.to = p
  /\ toServer' = toServer \ {msg}
  /\ \/ /\ msg.type = "signal"
        /\ server' = [server EXCEPT ![p].offline = @ \ {msg.from}]
        /\ UNCHANGED answers
     \/ msg.type = "finished" /\ ProcessFinishedSubtxn(p, msg)
     \/ /\ msg.type = "stats"
        /\ ReceiveStats(p, msg)
  /\ UNCHANGED <<conf, request, toModule, sent, master, toForwarder, forwarder, net, forwarded, pongs, reported>>

-----------------------------------------------------------------------------
(* The forwarder *)

\* The master of a key of this partition, or the one a new key will get.
GetMaster(k) == IF master[k] = Unset THEN DefaultMaster ELSE master[k]

\* RollingWindow::Add.
Add(window, x) ==
  LET buffer == Append(window.buffer, x)
      sum == window.sum + x
  IN  IF Len(buffer) > WindowSize
        THEN [sum |-> sum - Head(buffer), buffer |-> Tail(buffer)]
        ELSE [sum |-> sum, buffer |-> buffer]

\* A quotient rounded towards zero, as the conversion of a float to int64_t.
Quotient(a, b) == IF a >= 0 THEN a \div b ELSE -((-a) \div b)

\* RollingWindow::avg as an int64_t.  Without a sample it is 0/0, which
\* converts to the smallest integer or to 0, depending on the machine.
Averages(window) ==
  IF window.buffer = <<>> THEN {-1000, 0} ELSE {Quotient(window.sum, Len(window.buffer))}

\* Forward with synchronized batching: how far in the future the transaction
\* is put, by the largest average latency to an involved region.
Delays(p, txn) ==
  {Max({0} \cup {a[r] : r \in txn.regions}) :
     a \in {a \in [txn.regions -> UNION {Averages(forwarder[p].latencies[r]) : r \in txn.regions}] :
              \A r \in txn.regions : a[r] \in Averages(forwarder[p].latencies[r])}}

\* Forward: where the transaction goes and with which delay.
Sends(p, txn) ==
  IF txn.type = "SINGLE_HOME"
    THEN {[txn |-> txn, to |-> {<<"sequencer", txn.home, q>>}, delay |-> {}] :
            q \in IF txn.home = LocalRegion THEN {p} ELSE txn.partitions}
    ELSE IF conf.bypass
      THEN {[txn |-> txn, to |-> {<<"sequencer", r, conf.leader>> : r \in txn.regions}, delay |-> d] :
              d \in IF conf.synchronized THEN {{x} : x \in Delays(p, txn)} ELSE {{}}}
      ELSE {[txn |-> txn, to |-> {<<"orderer", LocalRegion, IF conf.shrink THEN conf.leader ELSE p>>},
             delay |-> {}]}

\* The transaction as Forward completes it.
Complete(txn) ==
  PopulateInvolvedRegions(SetTransactionType(txn, conf.counterless), conf.counterless)

\* Mutant: the timer is set for every transaction of a batch but the first.
StartsBatchLater(f) == f.batch_size = 1

\* The first transaction of a batch sets the timer.
StartsBatch(f) == f.batch_size = 0

\* ProcessForwardTxn.  A key the sharder cannot place ends it.
ProcessForwardTxn(p, t) ==
  LET txn1 == PopulateInvolvedPartitions(t)
      local == {k \in t.keys : PartitionOf[k] = p}
      txn == [txn1 EXCEPT !.meta = [k \in t.keys |-> IF conf.regions = 1 THEN 0
                                                     ELSE IF k \in local THEN GetMaster(k) ELSE Unset]]
      f == forwarder[p]
      lookup == [q \in Partition |->
                   IF q \in txn.partitions \ {p}
                     THEN [txns |-> Append(f.lookup[q].txns, t.id),
                           keys |-> f.lookup[q].keys \cup {k \in t.keys : PartitionOf[k] = q}]
                     ELSE f.lookup[q]]
  IN  IF t.badKey THEN UNCHANGED <<forwarder, forwarded>>
      ELSE IF conf.regions = 1 \/ local = t.keys
        THEN /\ \E x \in Sends(p, Complete(txn)) : forwarded' = Append(forwarded, x)
             /\ UNCHANGED forwarder
        ELSE /\ forwarder' = [forwarder EXCEPT ![p] =
                  [f EXCEPT !.lookup = lookup, !.pending = (t.id :> txn) @@ @,
                            !.batch_size = @ + 1, !.timer = @ \/ StartsBatch(f)]]
             /\ UNCHANGED forwarded

\* ProcessStatsRequest of a forwarder.
ForwarderStats(f) ==
  [type |-> "stats", of |-> "FORWARDER", forw_batch_size |-> f.batch_size,
   forw_num_pending_txns |-> Cardinality(DOMAIN f.pending)]

\* What the server of the machine sent: a transaction, or a request for
\* statistics, which is answered at once.
ForwarderReceive(p) ==
  /\ toForwarder[p] # <<>>
  /\ toForwarder' = [toForwarder EXCEPT ![p] = Tail(@)]
  /\ LET msg == Head(toForwarder[p])
     IN  \/ msg.type = "forward" /\ ProcessForwardTxn(p, msg.txn) /\ UNCHANGED toServer
         \/ /\ msg.type = "stats"
            /\ toServer' = toServer \cup {[type |-> "stats", id |-> msg.id, to |-> p,
                                           stats |-> ForwarderStats(forwarder[p])]}
            /\ UNCHANGED <<forwarder, forwarded>>
  /\ UNCHANGED <<conf, request, toModule, sent, master, server, net, answers, pongs, reported>>

\* SendLookupMasterRequestBatch: the timed callback.
SendLookupMasterRequestBatch(p) ==
  /\ forwarder[p].timer
  /\ LET lookup == forwarder[p].lookup
     IN  net' = [net EXCEPT ![p] = [q \in Partition |->
                   IF lookup[q].txns = <<>> THEN @[q]
                   ELSE Append(@[q], [type |-> "lookup", txns |-> lookup[q].txns, keys |-> lookup[q].keys])]]
  /\ forwarder' = [forwarder EXCEPT ![p].lookup = EmptyLookup, ![p].batch_size = 0, ![p].timer = FALSE]
  /\ UNCHANGED <<conf, request, toModule, sent, master, server, toForwarder, toServer, forwarded, answers, pongs, reported>>

\* ProcessLookUpMasterRequest at p for the forwarder of q.
ProcessLookUpMasterRequest(p, q) ==
  /\ net[q][p] # <<>> /\ Head(net[q][p]).type = "lookup"
  /\ LET msg == Head(net[q][p])
         found == {k \in msg.keys : PartitionOf[k] = p}
     IN  net' = [net EXCEPT ![q][p] = Tail(@),
                            ![p][q] = Append(@, [type |-> "result", txns |-> msg.txns,
                                                 meta |-> [k \in found |-> GetMaster(k)]])]
  /\ UNCHANGED <<conf, request, toModule, sent, master, server, toForwarder, forwarder, toServer,
                 forwarded, answers, pongs, reported>>

\* UpdateMasterInfo: the answer completes the pending transactions it names;
\* those with all masters known are forwarded.
UpdateMasterInfo(p, q) ==
  /\ net[q][p] # <<>> /\ Head(net[q][p]).type = "result"
  /\ net' = [net EXCEPT ![q][p] = Tail(@)]
  /\ LET msg == Head(net[q][p])
         pending == forwarder[p].pending
         named == ToSet(msg.txns) \cap DOMAIN pending
         Filled(txn) == [txn EXCEPT !.meta =
                           [k \in txn.keys |-> IF @[k] = Unset /\ k \in DOMAIN msg.meta
                                                 THEN msg.meta[k] ELSE @[k]]]
         filled == [id \in DOMAIN pending |-> IF id \in named THEN Filled(pending[id]) ELSE pending[id]]
         done == {id \in named : Complete(filled[id]).type # "UNKNOWN"}
         order == SelectSeq(msg.txns, LAMBDA id : id \in done)
     IN  /\ \E choice \in [done -> UNION {Sends(p, Complete(filled[id])) : id \in done}] :
              /\ \A id \in done : choice[id] \in Sends(p, Complete(filled[id]))
              /\ forwarded' = forwarded \o [i \in DOMAIN order |-> choice[order[i]]]
         /\ forwarder' = [forwarder EXCEPT ![p].pending = [id \in DOMAIN filled \ done |-> filled[id]]]
  /\ UNCHANGED <<conf, request, toModule, sent, master, server, toForwarder, toServer, answers, pongs, reported>>

\* UpdateLatency: the answer of a sequencer of region r to a probe.
UpdateLatency(p, r, x) ==
  /\ <<p, r>> \in conf.probing
  /\ Len(pongs[p][r]) < MaxPongs
  /\ forwarder' = [forwarder EXCEPT ![p].latencies[r] = Add(@, x)]
  /\ pongs' = [pongs EXCEPT ![p][r] = Append(@, x)]
  /\ UNCHANGED <<conf, request, toModule, sent, master, server, toForwarder, net, toServer, forwarded, answers, reported>>

-----------------------------------------------------------------------------
(* The rest of the system *)

\* A request for statistics at another module of the machine.  The sequencer
\* passes it to its batcher; the batcher and the scheduler answer the server.
\* The multi-home orderer does not know the request and drops it.
ModuleStats(msg) ==
  LET Answered(of) == toServer \cup {[type |-> "stats", id |-> msg.id, to |-> msg.at,
                                      stats |-> [type |-> "stats", of |-> of]]}
      others == toModule \ {msg}
  IN  /\ msg \in toModule
      /\ \/ /\ msg.module = "SEQUENCER"
            /\ toModule' = others \cup {[msg EXCEPT !.module = "BATCHER"]}
            /\ UNCHANGED toServer
         \/ msg.module = "BATCHER" /\ toModule' = others /\ toServer' = Answered("SEQUENCER")
         \/ msg.module = "SCHEDULER" /\ toModule' = others /\ toServer' = Answered("SCHEDULER")
         \/ msg.module = "MHORDERER" /\ toModule' = others /\ UNCHANGED toServer
      /\ UNCHANGED <<conf, request, sent, master, server, toForwarder, forwarder, net, forwarded,
                     answers, pongs, reported>>

\* A remaster transaction changed the master of a key, or an insert created it.
Remaster(k, r) ==
  /\ <<k, r>> \in conf.moves
  /\ r # master[k]
  /\ master' = [master EXCEPT ![k] = r]
  /\ UNCHANGED <<conf, request, toModule, sent, server, toForwarder, forwarder, net, toServer, forwarded,
                 answers, pongs, reported>>

\* The worker of an involved partition finishes its part and reports it.
Finish(x, q, status, keys) ==
  /\ x \in ToSet(forwarded) /\ q \in x.txn.partitions \ {r[2] : r \in {r \in reported : r[1] = x.txn.id}}
  /\ reported' = reported \cup {<<x.txn.id, q, status>>}
  /\ toServer' = toServer \cup {[type |-> "finished", to |-> x.txn.id[1], from |-> q,
                                 txn |-> [id |-> x.txn.id, partitions |-> x.txn.partitions,
                                          status |-> status, keys |-> keys]]}
  /\ UNCHANGED <<conf, request, toModule, sent, master, server, toForwarder, forwarder, net, forwarded,
                 answers, pongs>>

Next ==
  \/ \E c \in Client : \E allowed \in BOOLEAN : ClientRequest(c, allowed)
  \/ \E p \in Partition :
       \/ \E msg \in toServer : ServerReceive(p, msg)
       \/ ForwarderReceive(p)
       \/ SendLookupMasterRequestBatch(p)
       \/ \E q \in Partition : ProcessLookUpMasterRequest(p, q) \/ UpdateMasterInfo(p, q)
       \/ \E r \in Region : \E x \in Latencies : UpdateLatency(p, r, x)
  \/ \E msg \in toModule : ModuleStats(msg)
  \/ \E k \in Key : \E r \in Region : Remaster(k, r)
  \/ \E x \in ToSet(forwarded) : \E q \in x.txn.partitions : \E status \in {"COMMITTED", "ABORTED"} :
       \E keys \in {x.txn.keys, {k \in x.txn.keys : PartitionOf[k] = q}} : Finish(x, q, status, keys)

Spec == Init /\ [][Next]_vars

-----------------------------------------------------------------------------
(* Properties *)

\* Types of the tables of servers and forwarders.
TypeOK ==
  /\ \A p \in Partition :
       /\ Range(server[p].pending_responses) \subseteq Client
       /\ forwarder[p].batch_size \in 0..Cardinality(Client)
       /\ \A id \in DOMAIN server[p].finished_txns :
            server[p].finished_txns[id].remaining \in 1..Cardinality(Partition)
  /\ \A i \in DOMAIN forwarded : forwarded[i].txn.type \in {"SINGLE_HOME", "MULTI_HOME_OR_LOCK_ONLY"}

\* A client never gets two answers, and the answer is to what it asked, of the
\* module it asked: ids are shared by transactions and requests for statistics.
AnsweredOnce ==
  \A c \in Client : answers[c] # <<>> =>
    /\ Len(answers[c]) = 1 /\ c \in sent
    /\ answers[c][1].type = request[c].kind
    /\ request[c].kind = "stats" => answers[c][1].of = request[c].module

\* "Committed" means that every involved partition committed, and the answer
\* has all keys; "aborted" after forwarding means that some partition aborted.
MergedAnswer ==
  \A c \in Client : \A i \in DOMAIN answers[c] : \A j \in DOMAIN forwarded :
    LET a == answers[c][i]
        txn == forwarded[j].txn
    IN  a.type = "txn" /\ a.id = txn.id =>
          IF a.status = "COMMITTED"
            THEN /\ \A q \in txn.partitions : <<txn.id, q, "COMMITTED">> \in reported
                 /\ a.keys = request[c].keys
            ELSE \E q \in txn.partitions : <<txn.id, q, "ABORTED">> \in reported

\* The parts a forwarded transaction is later split into (one lock-only
\* transaction for each involved region, then one part for each partition):
\* every key is locked by exactly one part, the one of its own home, and the
\* number of parts that reach a partition is what its scheduler will wait for.
\* (A remaster in the COUNTERLESS protocol is not counted right, see the
\* README.)
LockOnlyParts ==
  \A i \in DOMAIN forwarded :
    LET txn == forwarded[i].txn
        homes == IF txn.type = "SINGLE_HOME" THEN {txn.home} ELSE txn.regions
        Part(r, q) == GeneratePartitionedTxn(GenerateLockOnlyTxn(txn, r), q)
        At(q) == {r \in homes : Part(r, q) # Null}
    IN  ~IsRemaster(txn) =>
          /\ \A k \in txn.keys : Cardinality({r \in homes : txn.meta[k] = r /\ Part(r, PartitionOf[k]) # Null}) = 1
          /\ \A q \in txn.partitions : \A r \in At(q) : Part(r, q).regions = At(q)

\* All regions that must order a multi-home transaction are told of it: the
\* masters of its keys and, for a remaster, the new master.
RegionsTold ==
  \A i \in DOMAIN forwarded :
    LET txn == forwarded[i].txn
    IN  txn.type # "SINGLE_HOME" =>
          txn.regions = Masters(txn) \cup (IF IsRemaster(txn) THEN {txn.remaster} ELSE {})

\* Nothing is lost or left over when all is quiet: no pending lookup, no
\* partially finished transaction.  Without an answer are only the clients
\* whose request the code drops: one of an unknown type, statistics of an
\* unknown module or of the multi-home orderer, a transaction with a key the
\* sharder cannot place.  All but the first stay in pending_responses_ for ever.
Quiet ==
  /\ sent = Client /\ toServer = {} /\ toModule = {}
  /\ \A p \in Partition : toForwarder[p] = <<>> /\ ~forwarder[p].timer /\ \A q \in Partition : net[p][q] = <<>>
  /\ \A i \in DOMAIN forwarded : \A q \in forwarded[i].txn.partitions :
       \E s \in {"COMMITTED", "ABORTED"} : <<forwarded[i].txn.id, q, s>> \in reported

\* What the code drops without an answer, keeping the pending response.
Dropped(r) ==
  \/ r.kind = "stats" /\ r.module \in {"INVALID", "MHORDERER"}
  \/ r.kind = "txn" /\ r.badKey

NothingLost ==
  Quiet => /\ \A p \in Partition :
                /\ forwarder[p].pending = <<>> /\ forwarder[p].lookup = EmptyLookup
                /\ server[p].finished_txns = <<>> /\ server[p].offline = {}
           /\ \A c \in Client :
                IF \E p \in Partition : c \in Range(server[p].pending_responses)
                  THEN Dropped(request[c]) /\ answers[c] = <<>>
                  ELSE answers[c] # <<>> \/ request[c].kind = "unknown"

\* The latency a forwarder puts between now and the execution of a multi-home
\* transaction is the average of the last probes to the region: the window
\* holds them and no older one, and the sum kept by addition and subtraction is
\* theirs, negative differences of the clocks included.
AverageExact ==
  \A p \in Partition : \A r \in Region :
    LET window == forwarder[p].latencies[r]
        n == Len(pongs[p][r])
    IN  /\ window.buffer = SubSeq(pongs[p][r], Max({1, n - WindowSize + 1}), n)
        /\ window.sum = FoldLeft(LAMBDA a, b : a + b, 0, window.buffer)
=============================================================================
