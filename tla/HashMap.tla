------------------------------ MODULE HashMap ------------------------------
(***************************************************************************)
(* The table of the in-memory storage: a segment of ConcurrentHashMap      *)
(* (common/concurrent_hash_map.h) under its reader-writer latch, used by   *)
(* several threads.  Segments share nothing, so one is modelled; it is     *)
(* created by the first thread that needs it, or by one of several.  A     *)
(* linked list of nodes is a sequence of <<key, value>>; a reader walks it *)
(* node by node.                                                           *)
(***************************************************************************)
EXTENDS RWLatch, Sequences, Functions, FiniteSetsExt

CONSTANTS Key, Value, NotFound,
          Hash,             \* HashFn: key -> natural
          ShardBits, InitialBuckets,
          NoSegment,        \* the null pointer
          Programs          \* thread -> sequence of calls [kind, key, value]: the choices

CallRecord == [kind : {"Get", "InsertOrUpdate", "Erase"}, key : Key, value : Value]

ASSUME MapAssumption ==
  /\ Hash \in [Key -> Nat]
  /\ 2^ShardBits \in Nat \ {0} /\ InitialBuckets \in Nat \ {0}
  /\ NoSegment \notin Thread
  /\ Programs \subseteq [Thread -> Seq(CallRecord)]

VARIABLES segment,    \* the atomic pointer in segments_: NoSegment, or the creator of the segment
          object,     \* the segment each thread may have created: [buckets, size, load]
          op,         \* the call of each thread
          program     \* the calls each thread has yet to make

mapVars == <<reader_count, writer_entered, pc, asleep, segment, object, op, program>>

\* kLoadFactor is 1.05.
LoadFactorMaxSize(count) == (105 * count) \div 100

CreateBuckets(count) == [i \in 0..count - 1 |-> <<>>]

EmptySegment ==
  [buckets |-> CreateBuckets(InitialBuckets), size |-> 0, load |-> LoadFactorMaxSize(InitialBuckets)]

Count(seg) == Cardinality(DOMAIN seg.buckets)

GetIndex(nbuckets, hash) == (hash \div 2^ShardBits) % nbuckets

NoCall == [kind |-> "none", phase |-> "idle"]

HashInit ==
  /\ LatchInit
  /\ segment = NoSegment
  /\ object = [t \in Thread |-> EmptySegment]
  /\ op = [t \in Thread |-> NoCall]
  /\ program \in Programs

Call(t) ==
  /\ op[t].phase = "idle" /\ program[t] # <<>>
  /\ program' = [program EXCEPT ![t] = Tail(@)]
  /\ LET c == Head(program[t])
     IN  op' = [op EXCEPT ![t] = [kind |-> c.kind, key |-> c.key, value |-> c.value, phase |-> "load",
                                  seg |-> NoSegment, idx |-> 0, pos |-> 0, result |-> NotFound]]
  /\ UNCHANGED <<latch, segment, object>>

-----------------------------------------------------------------------------
(* EnsureSegment *)

\* The first load of the pointer.
LoadSegment(t) ==
  /\ op[t].phase = "load"
  /\ op' = [op EXCEPT ![t].seg = segment,
                      ![t].phase = IF segment = NoSegment THEN "create" ELSE "lock"]
  /\ UNCHANGED <<latch, segment, object, program>>

\* Mutant: the pointer is stored without a comparison.
CreateSegmentStores(t) ==
  /\ op[t].phase = "create"
  /\ segment' = t
  /\ op' = [op EXCEPT ![t].seg = t, ![t].phase = "lock"]
  /\ UNCHANGED <<latch, object, program>>

\* compare_exchange_strong: the loser deletes its segment and uses the other.
CreateSegment(t) ==
  /\ op[t].phase = "create"
  /\ segment' = IF segment = NoSegment THEN t ELSE segment
  /\ op' = [op EXCEPT ![t].seg = segment', ![t].phase = "lock"]
  /\ UNCHANGED <<latch, object, program>>

-----------------------------------------------------------------------------
(* Get *)

Bucket(seg, k) == seg.buckets[GetIndex(Count(seg), Hash[k])]

Lock(t) ==
  /\ op[t].phase = "lock"
  /\ IF op[t].kind = "Get" THEN RLock(t) ELSE WLock(t)
  /\ UNCHANGED <<segment, object, op, program>>

\* Get starts at the root of the bucket.
StartWalk(t) ==
  /\ op[t].phase = "lock" /\ pc[t] = "reading"
  /\ op' = [op EXCEPT ![t].phase = "walk", ![t].pos = 1,
                      ![t].idx = GetIndex(Count(object[op[t].seg]), Hash[op[t].key])]
  /\ UNCHANGED <<latch, segment, object, program>>

\* The next node of the list as it is now: without the latch it could have
\* been changed since the last one.
Walk(t) ==
  /\ op[t].phase = "walk"
  /\ LET bucket == object[op[t].seg].buckets[op[t].idx]
         node == bucket[op[t].pos]
         End(r) == op' = [op EXCEPT ![t].phase = "unlock", ![t].result = r]
     IN  \/ op[t].pos > Len(bucket) /\ End(NotFound)
         \/ op[t].pos <= Len(bucket) /\ node[1] = op[t].key /\ End(node[2])
         \/ /\ op[t].pos <= Len(bucket) /\ node[1] # op[t].key
            /\ op' = [op EXCEPT ![t].pos = @ + 1]
  /\ UNCHANGED <<latch, segment, object, program>>

Unlock(t) ==
  /\ op[t].phase = "unlock"
  /\ IF op[t].kind = "Get" THEN RUnlock(t) ELSE WUnlock(t)
  /\ op' = [op EXCEPT ![t] = NoCall]
  /\ UNCHANGED <<segment, object, program>>

Wake(t) == (Resume(t) \/ Spurious(t)) /\ UNCHANGED <<segment, object, op, program>>

-----------------------------------------------------------------------------
(* InsertOrUpdate and Erase, whose bodies run under the write latch *)

\* The search of a key in a list: 0 when it is not there.
Position(bucket, k) ==
  LET found == {i \in 1..Len(bucket) : bucket[i][1] = k}
  IN  IF found # {} THEN Min(found) ELSE 0

Unlink(bucket, i) == SubSeq(bucket, 1, i - 1) \o SubSeq(bucket, i + 1, Len(bucket))

\* Rehash: bucket by bucket, node by node, each one put in front of its new
\* list.
AllNodes(seg) ==
  MapThenFoldSet(LAMBDA bucket, nodes : nodes \o bucket, <<>>,
                 LAMBDA i : seg.buckets[i - 1], Max, 1..Count(seg))

Rehash(seg) ==
  LET count == 2 * Count(seg)
      nodes == AllNodes(seg)
      buckets == MapThenFoldSet(LAMBDA node, bs :
                                  [bs EXCEPT ![GetIndex(count, Hash[node[1]])] = <<node>> \o @],
                                CreateBuckets(count), LAMBDA i : nodes[i], Max, DOMAIN nodes)
  IN  [seg EXCEPT !.buckets = buckets, !.load = LoadFactorMaxSize(count)]

\* An existing node is replaced in its place, a new one is put in front and
\* counted; then the table may grow.
InsertOrUpdate(seg, k, v) ==
  LET idx == GetIndex(Count(seg), Hash[k])
      i == Position(seg.buckets[idx], k)
      new == IF i > 0 THEN [seg EXCEPT !.buckets[idx][i] = <<k, v>>]
             ELSE [seg EXCEPT !.buckets[idx] = <<<<k, v>>>> \o @, !.size = @ + 1]
  IN  IF new.size >= new.load THEN Rehash(new) ELSE new

\* The node is unlinked; size_ stays.
Erase(seg, k) ==
  LET idx == GetIndex(Count(seg), Hash[k])
      i == Position(seg.buckets[idx], k)
  IN  IF i > 0 THEN [seg EXCEPT !.buckets[idx] = Unlink(@, i)] ELSE seg

Write(t) ==
  /\ op[t].phase = "lock" /\ pc[t] = "writing"
  /\ LET s == op[t].seg
         existed == Position(Bucket(object[s], op[t].key), op[t].key) > 0
     IN  /\ object' = [object EXCEPT ![s] = IF op[t].kind = "Erase" THEN Erase(@, op[t].key)
                                            ELSE InsertOrUpdate(@, op[t].key, op[t].value)]
         /\ op' = [op EXCEPT ![t].phase = "unlock", ![t].result = existed]
  /\ UNCHANGED <<latch, segment, program>>

HashNext ==
  \E t \in Thread :
    \/ Call(t) \/ LoadSegment(t) \/ CreateSegment(t) \/ Lock(t) \/ StartWalk(t) \/ Walk(t) \/ Unlock(t)
    \/ Wake(t) \/ Write(t)

HashSpec == HashInit /\ [][HashNext]_mapVars

-----------------------------------------------------------------------------
(* Properties *)

Table == IF segment = NoSegment THEN EmptySegment ELSE object[segment]

Nodes == Range(AllNodes(Table))

Contents == [k \in {n[1] : n \in Nodes} |-> (CHOOSE n \in Nodes : n[1] = k)[2]]

\* Types of the segment and the calls.
HashTypeOK ==
  /\ segment \in Thread \cup {NoSegment}
  /\ \A t \in Thread : op[t].phase \in {"idle", "load", "create", "lock", "walk", "unlock"}
  /\ reader_count \in 0..Cardinality(Thread) /\ writer_entered \in BOOLEAN
  /\ asleep \subseteq {t \in Thread : pc[t] \in {"w_enter", "w_drain", "r_enter"}}

\* No key is stored twice, every key is in the bucket where a lookup searches
\* it, through all rehashing, and the counter that triggers the growth of the
\* table never falls behind the number of keys.
WellFormed ==
  /\ Cardinality({n[1] : n \in Nodes}) = Len(AllNodes(Table))
  /\ \A i \in DOMAIN Table.buckets : \A j \in DOMAIN Table.buckets[i] :
       GetIndex(Count(Table), Hash[Table.buckets[i][j][1]]) = i
  /\ Len(AllNodes(Table)) <= Table.size /\ Table.size < Table.load

\* The table a lookup walks is not changed under it by a write, a removal or a
\* rehash of another thread.
WalkUndisturbed ==
  [][\A t \in Thread : op[t].phase = "walk" => object' = object]_mapVars

AbstractCall(t) ==
  IF op[t].kind = "none" THEN [kind |-> "none"]
  ELSE [kind |-> op[t].kind, key |-> op[t].key, value |-> op[t].value,
        done |-> op[t].phase = "unlock", result |-> op[t].result]

Map == INSTANCE MapSpec WITH map <- Contents, call <- [t \in Thread |-> AbstractCall(t)]

\* Every call of the hash map takes effect at one moment between its call and
\* its return, a lookup when it ends its walk, as the abstract map of MapSpec
\* says, with lookups, insertions, erasures and rehashes of several threads
\* under way.
Linearizable == Map!Spec
=============================================================================
