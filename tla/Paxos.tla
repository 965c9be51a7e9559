-------------------------------- MODULE Paxos --------------------------------
(***************************************************************************)
(* The simulated multi-Paxos of one region (paxos/leader.cpp,              *)
(* paxos/acceptor.cpp, paxos/simulated_multi_paxos.cpp, module/            *)
(* consensus.cpp).  The leader never changes.  A machine is <<replica,     *)
(* partition>>; each proposes its own id, as the batcher does.  Links are  *)
(* FIFO.  Ballots are left out: the only machine that ever sends an accept *)
(* request has the lowest one, so no acceptor refuses.                     *)
(***************************************************************************)
EXTENDS Integers, Sequences, FiniteSets, Functions

CONSTANTS NumReplicas, NumPartitions,
          LocalSyncReplication,  \* the option sync_replication of the region
          MaxProposals           \* bound: proposals of each machine

Machine == (0 .. NumReplicas - 1) \X (0 .. NumPartitions - 1)

ConstantsOK ==
  /\ NumReplicas \in Nat \ {0} /\ NumPartitions \in Nat \ {0}
  /\ LocalSyncReplication \in BOOLEAN
  /\ MaxProposals \in [Machine -> Nat]

(* GetMembers *)

Cutoff(n) == ((n - 1) \div 2) * 2 + 1

Acceptors ==
  IF LocalSyncReplication THEN {<<rep, 0>> : rep \in 0 .. Cutoff(NumReplicas) - 1}
                          ELSE {<<0, part>> : part \in 0 .. Cutoff(NumPartitions) - 1}

Learners == {m \in Machine : m[1] = 0 \/ m[2] = 0}

Leader == <<0, 0>>

Majority == Cardinality(Acceptors) \div 2 + 1

VARIABLES channel,          \* messages in flight, per sender and receiver
          next_empty_slot, instances,  \* of each Leader object
          proposed,         \* proposals each machine made
          learned,          \* history: arguments of OnCommit at each learner
          assigned,         \* history: values in the order of their slots
          accepted          \* history: slots each acceptor accepted

vars == <<channel, next_empty_slot, instances, proposed, learned, assigned, accepted>>

Init ==
  /\ channel = [c \in Machine \X Machine |-> << >>]
  /\ next_empty_slot = [m \in Machine |-> 0]
  /\ instances = << >>
  /\ proposed = [m \in Machine |-> 0]
  /\ learned = [m \in Learners |-> {}]
  /\ assigned = << >>
  /\ accepted = [m \in Acceptors |-> {}]

\* The channels after m took the next message of `from' and sent msg to T.
TakeAndSend(from, m, T, msg) ==
  [c \in DOMAIN channel |->
     LET rest == IF c = <<from, m>> THEN Tail(channel[c]) ELSE channel[c]
     IN  IF c[1] = m /\ c[2] \in T THEN Append(rest, msg) ELSE rest]

Receives(from, m, type) ==
  channel[<<from, m>>] # << >> /\ Head(channel[<<from, m>>]).type = type

\* The batcher's proposal reaches the Paxos module of its own machine.
Propose(m) ==
  /\ proposed[m] < MaxProposals[m]
  /\ proposed' = [proposed EXCEPT ![m] = @ + 1]
  /\ channel' = [channel EXCEPT ![<<m, m>>] = Append(@, [type |-> "propose", value |-> m])]
  /\ UNCHANGED <<next_empty_slot, instances, learned, assigned, accepted>>

\* Mutant: every acceptor takes itself for the leader.
HandleProposeAnywhere(from, m) ==
  LET msg == Head(channel[<<from, m>>])
      slot == next_empty_slot[m]
  IN  /\ Receives(from, m, "propose")
      /\ \/ /\ m \in Acceptors
            /\ instances' = [s \in DOMAIN instances \cup {slot} |->
                 IF s = slot THEN [value |-> msg.value, num_accepts |-> 0, num_commits |-> 0]
                             ELSE instances[s]]
            /\ next_empty_slot' = [next_empty_slot EXCEPT ![m] = @ + 1]
            /\ assigned' = Append(assigned, msg.value)
            /\ channel' = TakeAndSend(from, m, Acceptors,
                            [type |-> "accept", slot |-> slot, value |-> msg.value])
         \/ /\ m \notin Acceptors
            /\ channel' = TakeAndSend(from, m, {Leader}, msg)
            /\ UNCHANGED <<next_empty_slot, instances, assigned>>
      /\ UNCHANGED <<proposed, learned, accepted>>

\* Only the elected leader starts an instance; the others forward to it.
HandlePropose(from, m) ==
  LET msg == Head(channel[<<from, m>>])
      slot == next_empty_slot[m]
  IN  /\ Receives(from, m, "propose")
      /\ \/ /\ m = Leader
            /\ instances' = [s \in DOMAIN instances \cup {slot} |->
                 IF s = slot THEN [value |-> msg.value, num_accepts |-> 0, num_commits |-> 0]
                             ELSE instances[s]]
            /\ next_empty_slot' = [next_empty_slot EXCEPT ![m] = @ + 1]
            /\ assigned' = Append(assigned, msg.value)
            /\ channel' = TakeAndSend(from, m, Acceptors,
                            [type |-> "accept", slot |-> slot, value |-> msg.value])
         \/ /\ m # Leader
            /\ channel' = TakeAndSend(from, m, {Leader}, msg)
            /\ UNCHANGED <<next_empty_slot, instances, assigned>>
      /\ UNCHANGED <<proposed, learned, accepted>>

\* Acceptor::ProcessAcceptRequest
ProcessAcceptRequest(from, m) ==
  LET msg == Head(channel[<<from, m>>])
  IN  /\ Receives(from, m, "accept")
      /\ accepted' = [accepted EXCEPT ![m] = @ \cup {msg.slot}]
      /\ channel' = TakeAndSend(from, m, {from}, [type |-> "accepted", slot |-> msg.slot])
      /\ UNCHANGED <<next_empty_slot, instances, proposed, learned, assigned>>

\* Mutant: only the acceptors are told.
HandleAcceptedToAcceptors(from, m) ==
  LET slot == Head(channel[<<from, m>>]).slot
      n == instances[slot].num_accepts + 1
  IN  /\ Receives(from, m, "accepted")
      /\ IF slot \in DOMAIN instances
           THEN /\ instances' = [instances EXCEPT ![slot].num_accepts = n]
                /\ channel' = TakeAndSend(from, m, IF n = Majority THEN Acceptors ELSE {},
                                [type |-> "commit", slot |-> slot, value |-> instances[slot].value])
           ELSE channel' = TakeAndSend(from, m, {}, << >>) /\ UNCHANGED instances
      /\ UNCHANGED <<next_empty_slot, proposed, learned, assigned, accepted>>

\* Leader::HandleResponse for an accept response: the majority-th one commits.
HandleAccepted(from, m) ==
  LET slot == Head(channel[<<from, m>>]).slot
      n == instances[slot].num_accepts + 1
  IN  /\ Receives(from, m, "accepted")
      /\ IF slot \in DOMAIN instances
           THEN /\ instances' = [instances EXCEPT ![slot].num_accepts = n]
                /\ channel' = TakeAndSend(from, m, IF n = Majority THEN Learners ELSE {},
                                [type |-> "commit", slot |-> slot, value |-> instances[slot].value])
           ELSE channel' = TakeAndSend(from, m, {}, << >>) /\ UNCHANGED instances
      /\ UNCHANGED <<next_empty_slot, proposed, learned, assigned, accepted>>

\* Leader::ProcessCommitRequest (OnCommit, next_empty_slot) and
\* Acceptor::ProcessCommitRequest (the answer).
HandleCommit(from, m) ==
  LET msg == Head(channel[<<from, m>>])
  IN  /\ Receives(from, m, "commit")
      /\ learned' = [learned EXCEPT ![m] = @ \cup {<<msg.slot, msg.value>>}]
      /\ next_empty_slot' = [next_empty_slot EXCEPT ![m] =
           IF msg.slot >= @ THEN msg.slot + 1 ELSE @]
      /\ channel' = TakeAndSend(from, m, {from}, [type |-> "committed", slot |-> msg.slot])
      /\ UNCHANGED <<instances, proposed, assigned, accepted>>

\* Leader::HandleResponse for a commit response.  The slot is read from the
\* accept part of the response, which is empty: it is always 0 (leader.cpp:81).
HandleCommitted(from, m) ==
  LET n == instances[0].num_commits + 1
  IN  /\ Receives(from, m, "committed")
      /\ instances' =
           IF 0 \notin DOMAIN instances THEN instances
           ELSE IF n = Cardinality(Acceptors) THEN Restrict(instances, DOMAIN instances \ {0})
           ELSE [instances EXCEPT ![0].num_commits = n]
      /\ channel' = TakeAndSend(from, m, {}, << >>)
      /\ UNCHANGED <<next_empty_slot, proposed, learned, assigned, accepted>>

Next ==
  \/ \E m \in Machine : Propose(m)
  \/ \E from, m \in Machine :
       \/ HandlePropose(from, m)
       \/ ProcessAcceptRequest(from, m)
       \/ HandleAccepted(from, m)
       \/ HandleCommit(from, m)
       \/ HandleCommitted(from, m)

\* Event loops keep running and links deliver: each message is handled.
Spec == Init /\ [][Next]_vars /\ WF_vars(Next)

-----------------------------------------------------------------------------
(* Properties *)

PO == INSTANCE ProposalOrder WITH Proposer <- Machine, Learner <- Learners, order <- assigned

\* The region's proposals end up in one order, each exactly once, and every
\* OnCommit reports a slot of it.
ImplementsProposalOrder == PO!Spec

\* OnCommit is called only for a slot a majority of the acceptors accepted.
MajorityAccepted ==
  \A m \in Learners : \A e \in learned[m] :
    2 * Cardinality({a \in Acceptors : e[1] \in accepted[a]}) > Cardinality(Acceptors)

\* A learner is told the slots in order and each once, although majorities of
\* several slots form at the same time (the log manager throws on a repeated
\* slot).
CommitsInSequence ==
  \A m \in Learners :
    LET n == Cardinality(learned[m])
        told == channel[<<Leader, m>>]
    IN  /\ {e[1] : e \in learned[m]} = 0 .. n - 1
        /\ \A i \in DOMAIN told : told[i].type = "commit" =>
             told[i].slot = n + Cardinality({j \in 1 .. i - 1 : told[j].type = "commit"})

\* Every proposal of every machine is eventually learned everywhere.
EverythingLearned ==
  \A m \in Learners : \A v \in Machine :
    Cardinality({e \in learned[m] : e[2] = v}) = MaxProposals[v]
AllLearned == <>[]EverythingLearned
=============================================================================
