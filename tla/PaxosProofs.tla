----------------------------- MODULE PaxosProofs -----------------------------
(***************************************************************************)
(* Theorems about Paxos, for any number of replicas and partitions: the    *)
(* group puts the proposals into one order, each exactly once              *)
(* (ImplementsProposalOrder), a learner is told the slots in sequence, and *)
(* only after a majority accepted them.                                    *)
(***************************************************************************)
EXTENDS PaxosAnswerProofs

-----------------------------------------------------------------------------
(* A commit reaching a learner and its answer. *)

\* A learner learning: the next slot of the order, which it did not know.
LEMMA CommitStep ==
  ASSUME IInv, NEW from \in Machine, NEW m \in Machine, HandleCommit(from, m)
  PROVE  /\ IInv'
         /\ m \in Learners
         /\ \E s \in 0 .. Len(assigned) - 1 :
              /\ <<s, assigned[s + 1]>> \notin learned[m]
              /\ learned' = [learned EXCEPT ![m] = @ \cup {<<s, assigned[s + 1]>>}]
<1> DEFINE D == {<<Leader, m>>}
           S == Links(m, {Leader})
           hd == Head(channel[<<from, m>>])
           slot == hd.slot
           msg == [type |-> "committed", slot |-> slot]
<1>0. ConstantsOK /\ TypeOK /\ RoutedInv /\ ProposalInv /\ InstanceInv /\ AcceptInv /\ AnswerInv
        /\ CountInv /\ CommitInv
  BY DEF IInv
<1>1. Leader \in Machine /\ Learners \subseteq Machine
  BY <1>0, Members
<1>2. /\ channel[<<from, m>>] # << >> /\ from = Leader /\ m \in Learners
      /\ hd \in Message /\ hd.type = "commit" /\ slot < Len(assigned) /\ hd.value = assigned[slot + 1]
  <2>1. Receives(from, m, "commit")
    BY Zenon DEF HandleCommit
  <2> QED BY <1>0, <2>1, HeadMessage
<1>3. /\ learned' = [learned EXCEPT ![m] = @ \cup {<<slot, hd.value>>}]
      /\ next_empty_slot' = [next_empty_slot EXCEPT ![m] = IF slot >= @ THEN slot + 1 ELSE @]
      /\ channel' = TakeAndSend(from, m, {Leader}, msg)
      /\ UNCHANGED <<instances, proposed, assigned, accepted>>
  BY <1>2 DEF HandleCommit
<1>4. slot \in Nat /\ Len(assigned) \in Nat /\ hd.value \in Machine
  BY <1>0, <1>2, SeqLen, Zenon DEF Message, TypeOK
<1>5. msg \in Message /\ msg.type = "committed"
  BY <1>4 DEF Message
<1>6. Delivers(D, S, msg)
  <2>1. Delivers({<<from, m>>}, S, msg)
    <3> HIDE DEF msg
    <3> QED BY <1>0, <1>2, <1>3, <1>5, HandlerDelivers, Zenon
  <2> QED BY <1>2, <2>1
<1>7. hd = Head(channel[<<Leader, m>>])
  BY <1>2, Zenon
<1>8. /\ \A c \in D : Head(channel[c]).type = "commit"
      /\ \A l \in Learners : learned'[l] = IF l = m THEN learned[m] \cup {<<slot, hd.value>>} ELSE learned[l]
  <2>1. \A c \in D : Head(channel[c]).type = "commit"
    BY <1>2, <1>7, Zenon
  <2> HIDE DEF slot, hd
  <2> QED BY <1>0, <1>3, <2>1 DEF TypeOK
<1> HIDE DEF msg, hd, slot
<1>9. TypeOK'
  <2>1. learned' \in [Learners -> SUBSET (Nat \X Machine)]
    <3> DEFINE Known == SUBSET (Nat \X Machine)
    <3>1. learned \in [Learners -> Known]
      BY <1>0 DEF TypeOK
    <3>2. learned[m] \cup {<<slot, hd.value>>} \in Known
      BY <1>2, <1>4, <3>1
    <3> HIDE DEF Known
    <3>3. learned' \in [Learners -> Known]
      BY <1>3, <3>1, <3>2, Zenon
    <3> QED BY <3>3 DEF Known
  <2>2. next_empty_slot' \in [Machine -> Nat]
    BY <1>0, <1>3, <1>4, SMTT(30) DEF TypeOK
  <2> QED BY <1>0, <1>3, <1>6, <2>1, <2>2, Zenon DEF TypeOK, Delivers
<1>10. RoutedInv'
  <2>1. ASSUME NEW c \in S PROVE Routed(c, msg, assigned', accepted', learned')
    BY <1>2, <1>5, <1>8, Zenon DEF Routed, Links
  <2>2. \A l \in Learners : learned[l] # {} => learned'[l] # {}
    BY <1>8
  <2>3. /\ Len(assigned') \in Nat /\ Len(assigned) <= Len(assigned')
        /\ \A i \in 1 .. Len(assigned) : assigned'[i] = assigned[i]
        /\ \A a \in Acceptors : accepted[a] \subseteq accepted'[a]
    BY <1>3, <1>4, SMTT(30)
  <2> HIDE DEF S, D
  <2> QED BY <1>0, <1>6, <2>1, <2>2, <2>3, RoutedStep
<1>11. /\ \A c \in D : Head(channel[c]).type \notin {"propose", "accept", "accepted"}
       /\ msg.type \notin {"propose", "accept", "accepted", "commit"}
  BY <1>5, <1>8
<1>12. ProposalInv' /\ AcceptInv' /\ AnswerInv' /\ \A s : Acked(s)' = Acked(s)
  <2> HIDE DEF S, D
  <2>1. ProposalInv'
    BY <1>0, <1>3, <1>6, <1>11, ProposalFrame, Zenon
  <2>2. AcceptInv'
    BY <1>0, <1>3, <1>6, <1>11, AcceptFrame, Zenon
  <2>3. AnswerInv' /\ \A s : Acked(s)' = Acked(s)
    BY <1>0, <1>3, <1>6, <1>11, AnswerFrame, Zenon
  <2> QED BY <2>1, <2>2, <2>3, Zenon
<1>13. InstanceInv' /\ CountInv' /\ ConstantsOK'
  <2>1. next_empty_slot'[Leader] = next_empty_slot[Leader]
    BY <1>0, <1>1, <1>2, <1>3, <1>4, SMTT(30) DEF InstanceInv, TypeOK
  <2> QED BY <1>0, <1>3, <1>12, <2>1, Zenon DEF InstanceInv, CountInv, ConstantsOK
<1>14. PICK k \in 0 .. Len(assigned) : CommittedUpTo(k) /\ \A l \in Learners : ToldUpTo(l, k)
  BY <1>0 DEF CommitInv
<1>15. ToldUpTo(m, k)' /\ slot = Cardinality(learned[m])
  <2>1. k \in Nat /\ ToldUpTo(m, k)
    BY <1>2, <1>14, SMTT(30)
  <2>2. <<Leader, m>> \in D /\ msg.type # "commit" /\ assigned' = assigned
    BY <1>3, <1>11
  <2>3. slot = Head(channel[<<Leader, m>>]).slot
    BY <1>7 DEF slot
  <2>4. /\ Head(channel[<<Leader, m>>]).type = "commit"
        /\ Head(channel[<<Leader, m>>]).value = assigned[Head(channel[<<Leader, m>>]).slot + 1]
        /\ learned'[m] = learned[m] \cup {<<Head(channel[<<Leader, m>>]).slot,
                                            Head(channel[<<Leader, m>>]).value>>}
    BY <1>2, <1>7, <1>8, <2>3
  <2> HIDE DEF S, D
  <2>5. m \in Learners
    BY <1>2
  <2>6. ToldUpTo(m, k)' /\ HeadIsNext(m)
    BY <1>0, <1>6, <2>1, <2>2, <2>4, <2>5, ToldTake, ZenonT(40)
  <2> QED BY <2>3, <2>6 DEF HeadIsNext
<1>16. CommitInv'
  <2>1. ASSUME NEW l \in Learners, l # m PROVE ToldUpTo(l, k)'
    <3>1. <<Leader, l>> \notin D /\ msg.type # "commit" /\ learned'[l] = learned[l] /\ ToldUpTo(l, k)
      BY <1>8, <1>11, <1>14, <2>1, Zenon
    <3>2. \A i \in 1 .. Len(assigned) : assigned'[i] = assigned[i]
      BY <1>3
    <3> HIDE DEF S, D
    <3> QED BY <1>0, <1>6, <1>14, <3>1, <3>2, ToldFrame, Zenon
  <2>2. CommittedUpTo(k)'
    BY <1>3, <1>12, <1>14 DEF CommittedUpTo
  <2>3. \A l \in Learners : ToldUpTo(l, k)'
    BY <1>15, <2>1
  <2> QED BY <1>3, <2>2, <2>3, Zenon DEF CommitInv
<1>17. IInv'
  BY <1>9, <1>10, <1>12, <1>13, <1>16, Zenon DEF IInv
<1>18. <<slot, hd.value>> \notin learned[m]
  <2>1. /\ Cardinality(learned[m]) \in Nat
        /\ learned[m] = {<<s, assigned[s + 1]>> : s \in 0 .. Cardinality(learned[m]) - 1}
    BY <1>2, <1>14, SMTT(30) DEF ToldUpTo
  <2> QED BY <1>15, <2>1, SMTT(30)
<1>19. slot \in 0 .. Len(assigned) - 1
  BY <1>2, <1>4
<1> QED
  BY <1>2, <1>3, <1>17, <1>18, <1>19, Zenon

\* A commit response reaching the leader: the instance it may remove, that of
\* slot 0, is committed.
LEMMA CommittedStep ==
  ASSUME IInv, NEW from \in Machine, NEW m \in Machine, HandleCommitted(from, m)
  PROVE  IInv'
<1> DEFINE D == {<<from, m>>}
           msg == << >>
           n == instances[0].num_commits + 1
<1>0. ConstantsOK /\ TypeOK /\ RoutedInv /\ ProposalInv /\ InstanceInv /\ AcceptInv /\ AnswerInv
        /\ CountInv /\ CommitInv
  BY DEF IInv
<1>1. /\ channel[<<from, m>>] # << >> /\ Head(channel[<<from, m>>]).type = "committed"
      /\ from \in Learners /\ learned[from] # {}
  <2>1. Receives(from, m, "committed")
    BY DEF HandleCommitted
  <2> QED BY <1>0, <2>1, HeadMessage
<1>2. /\ instances' = IF 0 \notin DOMAIN instances THEN instances
                      ELSE IF n = Cardinality(Acceptors)
                             THEN Restrict(instances, DOMAIN instances \ {0})
                             ELSE [instances EXCEPT ![0].num_commits = n]
      /\ channel' = TakeAndSend(from, m, {}, msg)
      /\ UNCHANGED <<next_empty_slot, proposed, learned, assigned, accepted>>
  BY DEF HandleCommitted
<1>3. Delivers(D, {}, msg)
  <2>1. Links(m, {}) = {}
    BY DEF Links
  <2>2. Delivers(D, Links(m, {}), msg)
    <3> HIDE DEF msg
    <3> QED BY <1>0, <1>1, <1>2, HandlerDelivers
  <2> QED BY <2>1, <2>2
<1>4. \A c \in D : Head(channel[c]).type = "committed"
  BY <1>1
<1> HIDE DEF msg
<1>5. /\ instances' = [s \in DOMAIN instances' |-> instances'[s]]
      /\ DOMAIN instances' \subseteq DOMAIN instances
      /\ \A s \in DOMAIN instances : s # 0 => s \in DOMAIN instances'
      /\ \A s \in DOMAIN instances' :
           /\ instances'[s] \in Instance
           /\ instances'[s].value = instances[s].value
           /\ instances'[s].num_accepts = instances[s].num_accepts
  <2>1. /\ instances = [s \in DOMAIN instances |-> instances[s]]
        /\ \A s \in DOMAIN instances : instances[s] \in Instance
    BY <1>0 DEF TypeOK
  <2>2. CASE 0 \notin DOMAIN instances
    <3>1. instances' = instances
      BY <1>2, <2>2
    <3> QED BY <2>1, <3>1
  <2>3. CASE 0 \in DOMAIN instances /\ n = Cardinality(Acceptors)
    <3>1. instances' = [s \in DOMAIN instances \ {0} |-> instances[s]]
      BY <1>2, <2>3 DEF Restrict
    <3> QED BY <2>1, <3>1
  <2>4. CASE 0 \in DOMAIN instances /\ n # Cardinality(Acceptors)
    <3> DEFINE new == [instances[0] EXCEPT !.num_commits = n]
    <3>1. n \in Nat
      BY <2>1, <2>4 DEF Instance
    <3> HIDE DEF n
    <3>2. instances' = [instances EXCEPT ![0] = new]
      BY <1>2, <2>4
    <3>3. new \in Instance /\ new.value = instances[0].value /\ new.num_accepts = instances[0].num_accepts
      BY <2>1, <2>4, <3>1 DEF Instance
    <3> HIDE DEF new
    <3>4. /\ DOMAIN instances' = DOMAIN instances
          /\ instances' = [s \in DOMAIN instances |-> IF s = 0 THEN new ELSE instances[s]]
      BY <2>1, <3>2, Zenon
    <3> QED BY <2>1, <3>3, <3>4
  <2> QED BY <2>2, <2>3, <2>4
<1>6. Len(assigned) \in Nat
  BY <1>0, SeqLen DEF TypeOK
<1>7. TypeOK'
  BY <1>0, <1>2, <1>3, <1>5, Zenon DEF TypeOK, Delivers
<1>8. /\ \A c \in D : Head(channel[c]).type \notin {"propose", "accept", "accepted", "commit"}
  BY <1>4
<1> HIDE DEF D
<1>9. RoutedInv'
  <2>1. TypeOK /\ RoutedInv /\ UNCHANGED <<assigned, accepted, learned>>
    BY <1>0, <1>2
  <2>2. \A c \in {} : Routed(c, << >>, assigned, accepted, learned)
    OBVIOUS
  <2> QED BY <1>3, <2>1, <2>2, RoutedKept
<1>10. ProposalInv'
  BY <1>0, <1>2, <1>3, <1>8, ProposalFrame
<1>11. AcceptInv'
  BY <1>0, <1>2, <1>3, <1>8, AcceptFrame
<1>12. AnswerInv' /\ \A s : Acked(s)' = Acked(s)
  BY <1>0, <1>2, <1>3, <1>8, AnswerFrame
<1>13. InstanceInv' /\ ConstantsOK'
  BY <1>0, <1>2, <1>5, Zenon DEF InstanceInv, ConstantsOK
<1>14. CountInv'
  BY <1>0, <1>5, <1>12 DEF CountInv
<1>15. CommitInv'
  <2>1. PICK k \in 0 .. Len(assigned) : CommittedUpTo(k) /\ \A l \in Learners : ToldUpTo(l, k)
    BY <1>0 DEF CommitInv
  <2>2. \A l \in Learners : ToldUpTo(l, k)'
    BY <1>0, <1>2, <1>3, <1>8, <2>1, TellsNothing, Zenon
  <2>3. k > 0
    <3>1. /\ Cardinality(learned[from]) \in Nat
          /\ Cardinality(learned[from]) + Count(channel[<<Leader, from>>], Commits) = k
          /\ learned[from] = {<<s, assigned[s + 1]>> : s \in 0 .. Cardinality(learned[from]) - 1}
      BY <1>1, <2>1, SMTT(30) DEF ToldUpTo
    <3>2. Cardinality(learned[from]) > 0
      BY <1>1, <3>1
    <3>3. Count(channel[<<Leader, from>>], Commits) \in Nat
      <4>1. channel[<<Leader, from>>] \in Seq(Message)
        BY <1>0, Members DEF TypeOK, Pair
      <4> QED BY <4>1, CountType, Zenon
    <3> QED BY <3>1, <3>2, <3>3, SMTT(30)
  <2>4. CommittedUpTo(k)'
    <3> SUFFICES ASSUME NEW s \in 0 .. Len(assigned) - 1
                 PROVE  /\ s < k <=> Cardinality(Acked(s)) >= Majority
                        /\ s >= k => s \in DOMAIN instances'
      BY <1>2, <1>12, Zenon DEF CommittedUpTo
    <3>1. s >= k => s # 0
      BY <2>3
    <3> QED BY <1>5, <2>1, <3>1 DEF CommittedUpTo
  <2> QED BY <1>2, <2>2, <2>4 DEF CommitInv
<1> QED
  BY <1>7, <1>9, <1>10, <1>11, <1>12, <1>13, <1>14, <1>15, Zenon DEF IInv

-----------------------------------------------------------------------------
(* The theorems *)

\* Nothing is in flight and nothing is ordered at first.
LEMMA InitIInv ==
  ASSUME ConstantsOK, Init
  PROVE  IInv
<1>1. \A c \in Pair : channel[c] = << >>
  BY DEF Init, Pair
<1>2. Len(<< >>) = 0 /\ Cardinality({}) = 0
  BY FS_EmptySet
<1>3. TypeOK
  <2>1. channel \in [Pair -> Seq(Message)]
    BY DEF Init, Pair
  <2> QED BY <2>1, Members DEF TypeOK, Init
<1>4. RoutedInv
  BY <1>1, <1>2 DEF RoutedInv
<1>5. \A E : Count(<< >>, E) = 0
  <2>1. \A E : {i \in 1 .. Len(<< >>) : << >>[i] \in E} = {}
    BY <1>2
  <2> QED BY <1>2, <2>1 DEF Count
<1>6. ProposalInv
  <2>1. \A v \in Machine : <<v, v>> \in Pair /\ <<v, Leader>> \in Pair
    BY Members DEF Pair
  <2>2. \A v \in Machine : proposed[v] = 0 /\ channel[<<v, v>>] = << >> /\ channel[<<v, Leader>>] = << >>
    BY <1>1, <2>1, Zenon DEF Init
  <2>3. \A v \in Machine : /\ Count(assigned, {v}) = 0
                           /\ Count(channel[<<v, v>>], ProposalsOf(v)) = 0
                           /\ Count(channel[<<v, Leader>>], ProposalsOf(v)) = 0
    BY <1>5, <2>2, Zenon DEF Init
  <2>4. ASSUME NEW v \in Machine
        PROVE  proposed[v] = Count(assigned, {v}) + Count(channel[<<v, v>>], ProposalsOf(v))
                 + IF v = Leader THEN 0 ELSE Count(channel[<<v, Leader>>], ProposalsOf(v))
    <3> DEFINE a == Count(assigned, {v})
               x == Count(channel[<<v, v>>], ProposalsOf(v))
               y == Count(channel[<<v, Leader>>], ProposalsOf(v))
    <3>1. a = 0 /\ x = 0 /\ y = 0 /\ proposed[v] = 0
      BY <2>2, <2>3
    <3> HIDE DEF a, x, y
    <3>2. proposed[v] = a + x + IF v = Leader THEN 0 ELSE y
      BY <3>1
    <3> QED BY <3>2 DEF a, x, y
  <2> QED BY <2>4, Zenon DEF ProposalInv
<1>7. InstanceInv /\ CountInv
  BY <1>2, Members, SMTT(30) DEF InstanceInv, CountInv, Init
<1>8. AcceptInv
  <2>1. \A a \in Acceptors : channel[<<Leader, a>>] = << >> /\ accepted[a] = {}
    BY <1>1, Members DEF Pair, Init
  <2> QED BY <1>2, <2>1 DEF AcceptInv, Increasing, About, Init
<1>9. AnswerInv
  <2>1. \A a \in Acceptors : channel[<<a, Leader>>] = << >> /\ accepted[a] = {}
    BY <1>1, Members DEF Pair, Init
  <2> QED BY <1>2, <2>1 DEF AnswerInv, Increasing, Has
<1>10. CommitInv
  <2>1. CommittedUpTo(0)
    BY <1>2 DEF CommittedUpTo, Init
  <2>2. ASSUME NEW l \in Learners PROVE ToldUpTo(l, 0)
    <3>1. channel[<<Leader, l>>] = << >> /\ learned[l] = {}
      BY <1>1, Members DEF Pair, Init
    <3> QED BY <1>2, <1>5, <3>1 DEF ToldUpTo
  <2> QED BY <1>2, <2>1, <2>2 DEF CommitInv, Init
<1> QED
  BY <1>3, <1>4, <1>6, <1>7, <1>8, <1>9, <1>10 DEF IInv

\* Every step of the group preserves the invariant.
LEMMA StepIInv ==
  ASSUME IInv, [Next]_vars
  PROVE  IInv'
<1>1. ASSUME NEW m \in Machine, Propose(m) PROVE IInv'
  BY <1>1, ProposeStep
<1>2. ASSUME NEW from \in Machine, NEW m \in Machine, HandlePropose(from, m) PROVE IInv'
  <2>1. CASE m = Leader
    BY <1>2, <2>1, StartStep
  <2>2. CASE m # Leader
    BY <1>2, <2>2, ForwardStep
  <2> QED BY <2>1, <2>2
<1>3. ASSUME NEW from \in Machine, NEW m \in Machine, ProcessAcceptRequest(from, m) PROVE IInv'
  BY <1>3, AcceptStep
<1>4. ASSUME NEW from \in Machine, NEW m \in Machine, HandleAccepted(from, m) PROVE IInv'
  <2>1. PICK slot : slot = Head(channel[<<from, m>>]).slot
    OBVIOUS
  <2>2. CASE slot \in DOMAIN instances
    BY <1>4, <2>1, <2>2, CountedStep
  <2>3. CASE slot \notin DOMAIN instances
    BY <1>4, <2>1, <2>3, LateStep
  <2> QED BY <2>2, <2>3
<1>5. ASSUME NEW from \in Machine, NEW m \in Machine, HandleCommit(from, m) PROVE IInv'
  BY <1>5, CommitStep
<1>6. ASSUME NEW from \in Machine, NEW m \in Machine, HandleCommitted(from, m) PROVE IInv'
  BY <1>6, CommittedStep
<1>7. CASE UNCHANGED vars
  <2>1. UNCHANGED <<channel, next_empty_slot, instances, proposed, learned, assigned, accepted>>
    BY <1>7 DEF vars
  <2>2. (ConstantsOK /\ TypeOK)' <=> ConstantsOK /\ TypeOK
    BY <2>1, Zenon DEF ConstantsOK, TypeOK
  <2>3. (RoutedInv /\ ProposalInv /\ InstanceInv)' <=> RoutedInv /\ ProposalInv /\ InstanceInv
    BY <2>1, Zenon DEF RoutedInv, ProposalInv, InstanceInv
  <2>4. AcceptInv' <=> AcceptInv
    BY <2>1 DEF AcceptInv
  <2>5. \A a, s : Has(a, s)' <=> Has(a, s)
    BY <2>1, Zenon DEF Has
  <2>6. (AnswerInv' <=> AnswerInv) /\ \A s : Acked(s)' = Acked(s)
    BY <2>1, <2>5 DEF AnswerInv, Acked
  <2>7. CountInv' <=> CountInv
    BY <2>1, <2>6 DEF CountInv
  <2>8. \A k : (CommittedUpTo(k)' <=> CommittedUpTo(k)) /\ \A l \in Learners : ToldUpTo(l, k)' <=> ToldUpTo(l, k)
    BY <2>1, <2>6 DEF CommittedUpTo, ToldUpTo
  <2>9. CommitInv' <=> CommitInv
    BY <2>1, <2>8 DEF CommitInv
  <2> QED BY <2>2, <2>3, <2>4, <2>6, <2>7, <2>9 DEF IInv
<1> QED
  BY <1>1, <1>2, <1>3, <1>4, <1>5, <1>6, <1>7 DEF Next

\* The invariant holds of every behaviour of the group.
THEOREM Invariance == ConstantsOK /\ Spec => []IInv
<1>1. ConstantsOK /\ Init => IInv
  BY InitIInv
<1>2. IInv /\ [Next]_vars => IInv'
  BY StepIInv
<1> QED
  BY <1>1, <1>2, PTL DEF Spec

\* The region's proposals end up in one order, each exactly once: what the
\* leader puts into the order was proposed and is not in it yet, and OnCommit
\* reports a slot of the order that the learner did not know, at every machine
\* and however the messages interleave.
THEOREM TotalOrder == ConstantsOK /\ Spec => ImplementsProposalOrder
<1>1. Init => PO!Init
  BY DEF Init, PO!Init
<1>2. IInv /\ [Next]_vars => [PO!Next]_PO!vars
  <2> SUFFICES ASSUME IInv, [Next]_vars
               PROVE  [PO!Next]_PO!vars
    OBVIOUS
  <2>0. ConstantsOK /\ TypeOK /\ RoutedInv /\ ProposalInv
    BY DEF IInv
  <2>1. ASSUME NEW m \in Machine, Propose(m) PROVE [PO!Next]_PO!vars
    BY <2>1, Zenon DEF Propose, PO!Next, PO!Propose
  <2>2. ASSUME NEW from \in Machine, NEW m \in Machine, HandlePropose(from, m) PROVE [PO!Next]_PO!vars
    <3>1. CASE m = Leader
      <4> DEFINE c == <<from, Leader>>
      <4>1. Receives(from, Leader, "propose") /\ Leader \in Machine
        BY <2>0, <2>2, <3>1, Members DEF HandlePropose
      <4>2. c \in Pair /\ channel[c] # << >> /\ Head(channel[c]) = [type |-> "propose", value |-> from]
        <5>1. /\ c \in Pair /\ channel[c] # << >> /\ Head(channel[c]) \in Message
              /\ Head(channel[c]).type = "propose" /\ Head(channel[c]).value = from
          BY <2>0, <4>1, HeadMessage, SMTT(30)
        <5> QED BY <5>1 DEF Message
      <4>3. assigned' = Append(assigned, from) /\ UNCHANGED <<proposed, learned>>
        BY <2>2, <3>1, <4>2 DEF HandlePropose
      <4>4. Count(channel[c], ProposalsOf(from)) > 0
        <5> HIDE DEF c
        <5>1. channel[c] \in Seq(Message)
          BY <2>0, <4>2 DEF TypeOK
        <5>2. 1 \in 1 .. Len(channel[c]) /\ channel[c][1] = Head(channel[c])
          BY <4>2, <5>1, SeqEmpty, SeqLen, SMTT(30)
        <5>3. channel[c][1] \in ProposalsOf(from)
          BY <4>2, <5>2 DEF ProposalsOf
        <5> QED BY <5>1, <5>2, <5>3, CountPositive
      <4>5. \A d \in Pair : Count(channel[d], ProposalsOf(from)) \in Nat
        <5>1. \A d \in Pair : channel[d] \in Seq(Message)
          BY <2>0 DEF TypeOK
        <5> QED BY <5>1, CountType, Zenon
      <4>6. Count(assigned, {from}) \in Nat
        <5>1. assigned \in Seq(Machine)
          BY <2>0 DEF TypeOK
        <5> QED BY <5>1, CountType, Zenon
      <4>7. Count(assigned, {from}) < proposed[from]
        <5>1. <<from, from>> \in Pair /\ <<from, Leader>> \in Pair
          BY <4>1 DEF Pair
        <5>2. proposed[from] = Count(assigned, {from}) + Count(channel[<<from, from>>], ProposalsOf(from))
                + IF from = Leader THEN 0 ELSE Count(channel[<<from, Leader>>], ProposalsOf(from))
          BY <2>0 DEF ProposalInv
        <5> DEFINE a == Count(assigned, {from})
                   x == Count(channel[<<from, from>>], ProposalsOf(from))
                   y == Count(channel[<<from, Leader>>], ProposalsOf(from))
        <5>3. a \in Nat /\ x \in Nat /\ y \in Nat /\ y > 0 /\ (from = Leader => x = y)
          BY <4>4, <4>5, <4>6, <5>1
        <5>4. proposed[from] = a + x + IF from = Leader THEN 0 ELSE y
          BY <5>2
        <5> HIDE DEF a, x, y
        <5>5. a < proposed[from]
          BY <5>3, <5>4
        <5> QED BY <5>5 DEF a
      <4>8. PO!Ordered(from) = Count(assigned, {from})
        <5>1. DOMAIN assigned = 1 .. Len(assigned)
          BY <2>0, SeqLen DEF TypeOK
        <5>2. {i \in DOMAIN assigned : assigned[i] = from} =
                {i \in 1 .. Len(assigned) : assigned[i] \in {from}}
          BY <5>1
        <5> QED BY <5>2, Zenon DEF PO!Ordered, Count, PO!Cardinality, Cardinality
      <4>9. PO!Decide(from)
        BY <4>3, <4>7, <4>8 DEF PO!Decide
      <4> QED BY <4>9 DEF PO!Next
    <3>2. CASE m # Leader
      BY <2>2, <3>2 DEF HandlePropose, PO!vars
    <3> QED BY <3>1, <3>2
  <2>3. ASSUME NEW from \in Machine, NEW m \in Machine,
               \/ ProcessAcceptRequest(from, m) \/ HandleAccepted(from, m) \/ HandleCommitted(from, m)
        PROVE  [PO!Next]_PO!vars
    BY <2>3 DEF ProcessAcceptRequest, HandleAccepted, HandleCommitted, PO!vars
  <2>4. ASSUME NEW from \in Machine, NEW m \in Machine, HandleCommit(from, m) PROVE [PO!Next]_PO!vars
    <3>1. m \in Learners
      BY <2>4, CommitStep
    <3>2. PICK s \in 0 .. Len(assigned) - 1 :
                 /\ <<s, assigned[s + 1]>> \notin learned[m]
                 /\ learned' = [learned EXCEPT ![m] = @ \cup {<<s, assigned[s + 1]>>}]
      BY <2>4, CommitStep, Zenon
    <3>3. UNCHANGED <<proposed, assigned>>
      BY <2>4 DEF HandleCommit
    <3>4. PO!Learn(m, s)
      BY <3>2, <3>3 DEF PO!Learn
    <3> QED BY <3>1, <3>2, <3>4 DEF PO!Next
  <2>5. CASE UNCHANGED vars
    BY <2>5 DEF vars, PO!vars
  <2> QED BY <2>1, <2>2, <2>3, <2>4, <2>5 DEF Next
<1> QED
  BY <1>1, <1>2, Invariance, PTL DEF Spec, ImplementsProposalOrder, PO!Spec

\* A learner is told the slots in order and each once, although the majorities
\* of several slots form at the same time.
THEOREM InSequence == ConstantsOK /\ Spec => []CommitsInSequence
<1>1. IInv => CommitsInSequence
  <2> SUFFICES ASSUME IInv, NEW m \in Learners
               PROVE  LET n == Cardinality(learned[m])
                          told == channel[<<Leader, m>>]
                      IN  /\ {e[1] : e \in learned[m]} = 0 .. n - 1
                          /\ \A i \in DOMAIN told : told[i].type = "commit" =>
                               told[i].slot = n + Cardinality({j \in 1 .. i - 1 : told[j].type = "commit"})
    BY DEF CommitsInSequence
  <2> DEFINE n == Cardinality(learned[m])
             told == channel[<<Leader, m>>]
  <2>1. PICK k \in 0 .. Len(assigned) : ToldUpTo(m, k)
    BY DEF IInv, CommitInv
  <2>2. learned[m] = {<<s, assigned[s + 1]>> : s \in 0 .. n - 1}
    BY <2>1, Zenon DEF ToldUpTo
  <2>3. {e[1] : e \in learned[m]} = 0 .. n - 1
    <3> HIDE DEF n
    <3>1. ASSUME NEW e \in learned[m] PROVE e[1] \in 0 .. n - 1
      BY <2>2
    <3>2. ASSUME NEW s \in 0 .. n - 1 PROVE \E e \in learned[m] : e[1] = s
      <4>1. <<s, assigned[s + 1]>> \in learned[m] /\ <<s, assigned[s + 1]>>[1] = s
        BY <2>2
      <4> QED BY <4>1
    <3> QED BY <3>1, <3>2
  <2>4. told \in Seq(Message)
    BY Members DEF IInv, TypeOK, Pair
  <2>5. \A i \in 1 .. Len(told) : told[i].type = "commit" =>
          told[i].slot = n + Count(SubSeq(told, 1, i - 1), Commits)
    BY <2>1 DEF ToldUpTo
  <2> HIDE DEF told, n
  <2>6. DOMAIN told = 1 .. Len(told) /\ Len(told) \in Nat
    BY <2>4, SeqLen
  <2>7. ASSUME NEW i \in 1 .. Len(told)
        PROVE  Count(SubSeq(told, 1, i - 1), Commits) = Cardinality({j \in 1 .. i - 1 : told[j].type = "commit"})
    <3> DEFINE q == SubSeq(told, 1, i - 1)
    <3>1. \A j \in 1 .. i - 1 : j \in 1 .. Len(told) /\ told[j] \in Message
      BY <2>4, <2>6, SeqLen
    <3>2. Len(q) = i - 1 /\ \A j \in 1 .. i - 1 : q[j] = told[j]
      BY <2>4, <2>6, <3>1, SeqPrefix
    <3> HIDE DEF q
    <3>3. {j \in 1 .. Len(q) : q[j] \in Commits} = {j \in 1 .. i - 1 : told[j].type = "commit"}
      BY <3>1, <3>2 DEF Commits
    <3> QED BY <3>3, Zenon DEF Count, q
  <2>8. \A i \in DOMAIN told : told[i].type = "commit" =>
          told[i].slot = n + Cardinality({j \in 1 .. i - 1 : told[j].type = "commit"})
    BY <2>5, <2>6, <2>7
  <2> QED BY <2>3, <2>8 DEF told, n
<1> QED
  BY <1>1, Invariance, PTL

\* OnCommit is called only for a slot that a majority of the acceptors accepted.
THEOREM MajorityBeforeCommit == ConstantsOK /\ Spec => []MajorityAccepted
<1>1. IInv => MajorityAccepted
  <2> SUFFICES ASSUME IInv, NEW m \in Learners, NEW e \in learned[m]
               PROVE  2 * Cardinality({a \in Acceptors : e[1] \in accepted[a]}) > Cardinality(Acceptors)
    BY DEF MajorityAccepted
  <2>0. ConstantsOK /\ TypeOK
    BY DEF IInv
  <2> DEFINE A == {a \in Acceptors : e[1] \in accepted[a]}
             n == Cardinality(learned[m])
  <2>1. PICK k \in 0 .. Len(assigned) : CommittedUpTo(k) /\ ToldUpTo(m, k)
    BY DEF IInv, CommitInv
  <2>2. /\ n \in Nat /\ n + Count(channel[<<Leader, m>>], Commits) = k
        /\ learned[m] = {<<s, assigned[s + 1]>> : s \in 0 .. n - 1}
    BY <2>1 DEF ToldUpTo
  <2>3. Count(channel[<<Leader, m>>], Commits) \in Nat /\ Len(assigned) \in Nat
    <3>1. channel[<<Leader, m>>] \in Seq(Message)
      BY <2>0, Members DEF TypeOK, Pair
    <3> QED BY <2>0, <3>1, CountType, SeqLen, Zenon DEF TypeOK
  <2>4. e[1] \in 0 .. Len(assigned) - 1 /\ e[1] < k
    <3> HIDE DEF n
    <3> QED BY <2>2, <2>3
  <2>5. Cardinality(Acked(e[1])) >= Majority
    BY <2>1, <2>4 DEF CommittedUpTo
  <2>6. Acked(e[1]) \subseteq A /\ A \subseteq Acceptors
    BY DEF Acked, Has
  <2> HIDE DEF A
  <2>7. IsFiniteSet(Acceptors) /\ Majority \in Nat /\ 2 * Majority > Cardinality(Acceptors)
          /\ Cardinality(Acceptors) \in Nat
    BY <2>0, Members
  <2>8. IsFiniteSet(A) /\ Cardinality(A) \in Nat
    BY <2>6, <2>7, FS_Subset, FS_CardinalityType, Zenon
  <2>9. Cardinality(Acked(e[1])) <= Cardinality(A) /\ Cardinality(Acked(e[1])) \in Nat
    BY <2>6, <2>8, FS_Subset, FS_CardinalityType
  <2>10. 2 * Cardinality(A) > Cardinality(Acceptors)
    BY <2>5, <2>7, <2>8, <2>9
  <2> QED BY <2>10 DEF A
<1> QED
  BY <1>1, Invariance, PTL
=============================================================================
