-------------------------- MODULE PaxosAnswerProofs ---------------------------
(***************************************************************************)
(* The steps of the acceptors' answers preserve the inductive invariant of *)
(* Paxos: an acceptor accepts, and the leader counts the answer or gets it *)
(* late.                                                                   *)
(***************************************************************************)
EXTENDS PaxosProposalProofs

\* An acceptor accepting: its next slot, and no answer reaches the leader yet.
LEMMA AcceptStep ==
  ASSUME IInv, NEW from \in Machine, NEW m \in Machine, ProcessAcceptRequest(from, m)
  PROVE  IInv'
<1> DEFINE D == {<<Leader, m>>}
           S == Links(m, {Leader})
           hd == Head(channel[<<from, m>>])
           slot == hd.slot
           msg == [type |-> "accepted", slot |-> slot]
<1>0. ConstantsOK /\ TypeOK /\ RoutedInv /\ ProposalInv /\ InstanceInv /\ AcceptInv /\ AnswerInv
        /\ CountInv /\ CommitInv
  BY DEF IInv
<1>1. Leader \in Machine /\ Acceptors \subseteq Machine
  BY <1>0, Members
<1>2. /\ channel[<<from, m>>] # << >> /\ from = Leader /\ m \in Acceptors
      /\ hd \in Message /\ hd.type = "accept" /\ slot < Len(assigned)
  <2>1. Receives(from, m, "accept")
    BY DEF ProcessAcceptRequest
  <2> QED BY <1>0, <2>1, HeadMessage
<1>3. /\ accepted' = [accepted EXCEPT ![m] = @ \cup {slot}]
      /\ channel' = TakeAndSend(from, m, {Leader}, msg)
      /\ UNCHANGED <<next_empty_slot, instances, proposed, learned, assigned>>
  BY <1>2 DEF ProcessAcceptRequest
<1>4. slot \in Nat /\ Len(assigned) \in Nat
  BY <1>0, <1>2, SeqLen DEF Message, TypeOK
<1>5. msg \in Message /\ msg.type = "accepted" /\ msg.slot = slot
  BY <1>4 DEF Message
<1>6. Delivers(D, S, msg)
  <2>1. Delivers({<<from, m>>}, S, msg)
    <3> HIDE DEF msg
    <3> QED BY <1>0, <1>2, <1>3, <1>5, HandlerDelivers, Zenon
  <2> QED BY <1>2, <2>1
<1>7. hd = Head(channel[<<Leader, m>>]) /\ <<Leader, m>> \in Pair /\ <<m, Leader>> \in Pair
  BY <1>1, <1>2 DEF Pair
<1>8. \A a \in Acceptors : accepted'[a] = IF a = m THEN accepted[m] \cup {slot} ELSE accepted[a]
  <2> HIDE DEF slot
  <2> QED BY <1>0, <1>3 DEF TypeOK
<1>9. accepted' \in [Acceptors -> SUBSET Nat]
  <2> HIDE DEF slot
  <2> QED BY <1>0, <1>3, <1>4, Zenon DEF TypeOK
<1> HIDE DEF msg, hd, slot
<1>10. TypeOK'
  BY <1>0, <1>3, <1>6, <1>9, Zenon DEF TypeOK, Delivers
<1>11. RoutedInv'
  <2>1. ASSUME NEW c \in S PROVE Routed(c, msg, assigned', accepted', learned')
    BY <1>2, <1>5, <1>8 DEF Routed, Links
  <2>2. \A a \in Acceptors : accepted[a] \subseteq accepted'[a]
    BY <1>8
  <2>3. /\ Len(assigned') \in Nat /\ Len(assigned) <= Len(assigned')
        /\ \A i \in 1 .. Len(assigned) : assigned'[i] = assigned[i]
        /\ \A l \in Learners : learned[l] # {} => learned'[l] # {}
    BY <1>3, <1>4
  <2> HIDE DEF S, D
  <2> QED BY <1>0, <1>6, <2>1, <2>2, <2>3, RoutedStep, Zenon
<1>12. /\ \A c \in D : Head(channel[c]).type \notin {"propose", "commit"}
       /\ msg.type \notin {"propose", "commit"}
  BY <1>2, <1>5, <1>7
<1>13. ProposalInv'
  <2> HIDE DEF S, D
  <2> QED BY <1>0, <1>3, <1>6, <1>12, ProposalFrame
<1>14. /\ Increasing(channel[<<Leader, m>>], "accept")
       /\ \A s \in Nat : About(channel[<<Leader, m>>], "accept", s) => \A t \in accepted[m] : t < s
       /\ accepted[m] \subseteq 0 .. Len(assigned) - 1
       /\ \A s \in 0 .. Len(assigned) - 1 :
            s \in accepted[m] \/ About(channel[<<Leader, m>>], "accept", s)
  BY <1>0, <1>2 DEF AcceptInv
<1>15. /\ Increasing(channel'[<<Leader, m>>], "accept")
       /\ \A s : About(channel'[<<Leader, m>>], "accept", s) <=>
                   About(channel[<<Leader, m>>], "accept", s) /\ s # slot
       /\ About(channel[<<Leader, m>>], "accept", slot)
       /\ \A s : About(channel'[<<Leader, m>>], "accept", s) => s > slot
  <2> DEFINE c == <<Leader, m>>
             e == IF c \in S THEN 1 ELSE 0
             old == channel[c]
             now == channel'[c]
  <2>1. old \in Seq(Message) /\ now \in Seq(Message) /\ Moves(old, now, 1, e, msg)
    <3>1. c \in Pair /\ c \in D
      BY <1>7
    <3> HIDE DEF c, S, D
    <3> QED BY <1>0, <1>6, <3>1, DeliversMoves
  <2>2. Head(old).type = "accept" /\ Increasing(old, "accept") /\ Head(old).slot = slot
    BY <1>2, <1>7, <1>14 DEF slot
  <2> HIDE DEF e, old, now
  <2>3. \A i \in 1 .. Len(old) : old[i].type = "accept" => old[i].slot \in Nat
    <3>1. \A i \in 1 .. Len(old) : old[i] \in Message
      BY <2>1, SeqLen
    <3> QED BY <3>1 DEF Message
  <2>4. e = 1 => msg.type # "accept"
    BY <1>5
  <2>5. Increasing(now, "accept")
    BY <2>1, <2>2, <2>3, <2>4, MovesTake
  <2>6. \A s : About(now, "accept", s) <=> About(old, "accept", s) /\ s # slot
    BY <2>1, <2>2, <2>3, <2>4, MovesTake, Zenon
  <2>7. About(old, "accept", slot)
    BY <2>1, <2>2, <2>3, <2>4, MovesTake
  <2>8. \A s : About(now, "accept", s) => s > slot
    BY <2>1, <2>2, <2>3, <2>4, MovesTake, Zenon
  <2> QED BY <2>5, <2>6, <2>7, <2>8 DEF old, now
<1>16. AcceptInv'
  <2> SUFFICES ASSUME NEW a \in Acceptors
               PROVE  /\ Increasing(channel'[<<Leader, a>>], "accept")
                      /\ \A s \in Nat : About(channel'[<<Leader, a>>], "accept", s) =>
                           \A t \in accepted'[a] : t < s
                      /\ accepted'[a] \subseteq 0 .. Len(assigned') - 1
                      /\ \A s \in 0 .. Len(assigned') - 1 :
                           s \in accepted'[a] \/ About(channel'[<<Leader, a>>], "accept", s)
    BY DEF AcceptInv
  <2>1. CASE a = m
    <3>1. accepted'[a] = accepted[m] \cup {slot} /\ Len(assigned') = Len(assigned)
      BY <1>3, <1>8, <2>1
    <3>2. accepted'[a] \subseteq 0 .. Len(assigned) - 1
      BY <1>2, <1>4, <1>14, <3>1, SMTT(30)
    <3>3. \A s \in Nat : About(channel'[<<Leader, m>>], "accept", s) => \A t \in accepted'[a] : t < s
      BY <1>4, <1>14, <1>15, <3>1, SMTT(30)
    <3>4. \A s \in 0 .. Len(assigned) - 1 :
            s \in accepted'[a] \/ About(channel'[<<Leader, m>>], "accept", s)
      BY <1>14, <1>15, <3>1, SMTT(30)
    <3> QED BY <1>15, <2>1, <3>1, <3>2, <3>3, <3>4, Zenon
  <2>2. CASE a # m
    <3> DEFINE c == <<Leader, a>>
    <3>1. c \in Pair /\ c \notin D /\ msg.type # "accept"
      BY <1>1, <1>5, <2>2, Zenon DEF Pair
    <3> HIDE DEF c, S, D
    <3>2. /\ \A s : About(channel'[c], "accept", s) <=> About(channel[c], "accept", s)
          /\ Increasing(channel[c], "accept") => Increasing(channel'[c], "accept")
      BY <1>0, <1>6, <3>1, DeliversOther
    <3>3. accepted'[a] = accepted[a] /\ Len(assigned') = Len(assigned)
      BY <1>3, <1>8, <2>2
    <3> QED BY <1>0, <3>2, <3>3 DEF AcceptInv, c
  <2> QED BY <2>1, <2>2
<1>17. slot \notin accepted[m] /\ \A t \in accepted[m] : t \in Nat /\ t < slot
  BY <1>4, <1>14, <1>15, SMTT(30)
<1>18. /\ \A s : About(channel'[<<m, Leader>>], "accepted", s) <=>
                   About(channel[<<m, Leader>>], "accepted", s) \/ s = slot
       /\ Increasing(channel'[<<m, Leader>>], "accepted")
  <2> DEFINE c == <<m, Leader>>
             d == IF c \in D THEN 1 ELSE 0
             old == channel[c]
             now == channel'[c]
  <2>1. old \in Seq(Message) /\ now \in Seq(Message) /\ Moves(old, now, d, 1, msg)
    <3>1. c \in Pair /\ c \in S
      BY <1>7 DEF Links
    <3> HIDE DEF c, S, D
    <3> QED BY <1>0, <1>6, <3>1, DeliversMoves
  <2>2. d = 1 => Head(old).type # "accepted"
    BY <1>2, <1>7
  <2>3. Increasing(old, "accepted")
    BY <1>0, <1>2 DEF AnswerInv
  <2>4. \A s : About(old, "accepted", s) => s < msg.slot
    <3>1. \A i \in 1 .. Len(old) : old[i].type = "accepted" => old[i].slot \in accepted[m]
      <4>1. c \in Pair
        BY <1>7
      <4>2. \A i \in 1 .. Len(old) : Routed(c, old[i], assigned, accepted, learned)
        <5> HIDE DEF c
        <5> QED BY <1>0, <4>1 DEF RoutedInv
      <4> QED BY <4>2 DEF Routed
    <3> HIDE DEF old
    <3> QED BY <1>5, <1>17, <3>1, Zenon DEF About
  <2> HIDE DEF d, old, now
  <2>5. \A s : About(now, "accepted", s) <=> About(old, "accepted", s) \/ s = msg.slot
    BY <1>5, <2>1, <2>2, <2>3, <2>4, MovesSend
  <2>6. Increasing(now, "accepted")
    BY <1>5, <2>1, <2>2, <2>3, <2>4, MovesSend
  <2> QED BY <1>5, <2>5, <2>6 DEF old, now
<1>19. ASSUME NEW a \in Acceptors
       PROVE  /\ \A s : Has(a, s)' <=> Has(a, s)
              /\ Increasing(channel'[<<a, Leader>>], "accepted")
  <2>1. CASE a = m
    <3>1. \A s : s \in accepted'[a] <=> s \in accepted[m] \/ s = slot
      BY <1>8, <2>1
    <3> QED BY <1>17, <1>18, <2>1, <3>1 DEF Has
  <2>2. CASE a # m
    <3> DEFINE c == <<a, Leader>>
    <3>1. c \in Pair /\ c \notin S
      BY <1>1, <2>2 DEF Pair, Links
    <3>2. c \in D => Head(channel[c]).type # "accepted"
      BY <1>2, <1>7
    <3>3. Increasing(channel[c], "accepted")
      BY <1>0 DEF AnswerInv
    <3> HIDE DEF c, S, D
    <3>4. /\ \A s : About(channel'[c], "accepted", s) <=> About(channel[c], "accepted", s)
          /\ Increasing(channel'[c], "accepted")
      BY <1>0, <1>6, <3>1, <3>2, <3>3, DeliversOther, Zenon
    <3>5. accepted'[a] = accepted[a]
      BY <1>8, <2>2
    <3> QED BY <3>4, <3>5, Zenon DEF Has, c
  <2> QED BY <2>1, <2>2
<1>20. AnswerInv'
  BY <1>0, <1>19 DEF AnswerInv
<1>21. \A s : Acked(s)' = Acked(s)
  BY <1>19, Zenon DEF Acked
<1>22. CommitInv'
  <2>1. PICK k \in 0 .. Len(assigned) : CommittedUpTo(k) /\ \A l \in Learners : ToldUpTo(l, k)
    BY <1>0 DEF CommitInv
  <2>2. \A l \in Learners : ToldUpTo(l, k)'
    <3> HIDE DEF S, D
    <3> QED BY <1>0, <1>3, <1>6, <1>12, <2>1, TellsNothing
  <2>3. CommittedUpTo(k)'
    BY <1>3, <1>21, <2>1 DEF CommittedUpTo
  <2> QED BY <1>3, <2>2, <2>3 DEF CommitInv
<1>23. InstanceInv' /\ CountInv' /\ ConstantsOK'
  BY <1>0, <1>3, <1>21, Zenon DEF InstanceInv, CountInv, ConstantsOK
<1> QED
  BY <1>10, <1>11, <1>13, <1>16, <1>20, <1>22, <1>23 DEF IInv

\* An answer reaching the leader: the acceptor is one more that the leader
\* knows of, for this slot only, and it knew the acceptor's earlier answers.
LEMMA AnswerTaken ==
  ASSUME ConstantsOK, TypeOK, RoutedInv, AcceptInv, AnswerInv, NEW from \in Acceptors, NEW slot,
         Receives(from, Leader, "accepted"), slot = Head(channel[<<from, Leader>>]).slot,
         NEW S, NEW msg, Delivers({<<from, Leader>>}, S, msg), S = {} \/ msg.type # "accepted",
         accepted' = accepted, assigned' = assigned
  PROVE  /\ AnswerInv'
         /\ slot \in 0 .. Len(assigned) - 1 /\ from \notin Acked(slot)
         /\ Acked(slot)' = Acked(slot) \cup {from}
         /\ \A s : s # slot => Acked(s)' = Acked(s)
<1> DEFINE D == {<<from, Leader>>}
           c == <<from, Leader>>
           old == channel[c]
           now == channel'[c]
           e == IF c \in S THEN 1 ELSE 0
<1>1. from \in Machine /\ Leader \in Machine /\ Acceptors \subseteq Machine
  BY Members
<1>2. /\ c \in Pair /\ Head(old) \in Message /\ Head(old).type = "accepted" /\ Head(old).slot = slot
      /\ slot \in accepted[from]
  BY <1>1, HeadMessage, ZenonT(40)
<1>3. old \in Seq(Message) /\ now \in Seq(Message) /\ Moves(old, now, 1, e, msg)
  <2>1. c \in D
    OBVIOUS
  <2> HIDE DEF c
  <2> QED BY <1>2, <2>1, DeliversMoves
<1>4. Increasing(old, "accepted")
  BY DEF AnswerInv
<1>5. e = 1 => msg.type # "accepted"
  OBVIOUS
<1>6. accepted[from] \subseteq 0 .. Len(assigned) - 1 /\ Len(assigned) \in Nat
  BY SeqLen, Zenon DEF AcceptInv, TypeOK
<1>7. slot \in 0 .. Len(assigned) - 1 /\ slot \in Nat
  BY <1>2, <1>6, SMTT(30)
<1> HIDE DEF e, old, now
<1>8. \A i \in 1 .. Len(old) : old[i].type = "accepted" => old[i].slot \in Nat
  <2>1. \A i \in 1 .. Len(old) : old[i] \in Message
    BY <1>3, SeqLen
  <2> QED BY <2>1 DEF Message
<1>9. /\ \A s : About(now, "accepted", s) <=> About(old, "accepted", s) /\ s # Head(old).slot
      /\ About(old, "accepted", Head(old).slot)
      /\ \A s : About(now, "accepted", s) => s > Head(old).slot
      /\ Increasing(now, "accepted")
  <2>1. Head(old).type = "accepted"
    BY <1>2
  <2> QED BY <1>3, <1>4, <1>5, <1>8, <2>1, MovesTake, Zenon
<1>a. Head(old).slot = slot
  BY <1>2
<1>10. \A s : About(now, "accepted", s) <=> About(old, "accepted", s) /\ s # slot
  BY <1>9, <1>a
<1>11. About(old, "accepted", slot)
  BY <1>9, <1>a
<1>12. \A s : About(now, "accepted", s) => s > slot
  BY <1>9, <1>a
<1>13. /\ ~Has(from, slot)
       /\ \A s : Has(from, s)' <=> Has(from, s) \/ s = slot
  BY <1>2, <1>10, <1>11 DEF Has, old, now
<1>14. ASSUME NEW a \in Acceptors, a # from
       PROVE  /\ \A s : Has(a, s)' <=> Has(a, s)
              /\ Increasing(channel'[<<a, Leader>>], "accepted")
  <2> DEFINE b == <<a, Leader>>
  <2>1. b \in Pair /\ b \notin D
    BY <1>1, <1>14 DEF Pair
  <2>2. Increasing(channel[b], "accepted")
    BY DEF AnswerInv
  <2> HIDE DEF b, D
  <2>3. Delivers(D, S, msg)
    BY DEF D
  <2>4. b \in S => msg.type # "accepted"
    OBVIOUS
  <2>5. /\ \A s : About(channel'[b], "accepted", s) <=> About(channel[b], "accepted", s)
        /\ Increasing(channel'[b], "accepted")
    BY <2>1, <2>2, <2>3, <2>4, DeliversOther
  <2> QED BY <2>5, Zenon DEF Has, b
<1>15. \A s : s # slot => Acked(s)' = Acked(s)
  BY <1>13, <1>14, Zenon DEF Acked
<1>16. Acked(slot)' = Acked(slot) \cup {from} /\ from \notin Acked(slot)
  BY <1>13, <1>14, Zenon DEF Acked
<1>17. ASSUME NEW t \in 0 .. slot - 1 PROVE Has(from, t)'
  <2>1. t \in accepted[from]
    <3>1. t \in 0 .. Len(assigned) - 1 /\ t < slot /\ t \in Nat
      BY <1>6, <1>7, SMTT(30)
    <3>2. About(channel[<<Leader, from>>], "accept", t) => slot < t
      BY <1>2, <3>1, Zenon DEF AcceptInv
    <3>3. t \in accepted[from] \/ About(channel[<<Leader, from>>], "accept", t)
      BY <3>1 DEF AcceptInv
    <3> QED BY <1>7, <3>1, <3>2, <3>3, SMTT(30)
  <2>2. ~About(now, "accepted", t)
    BY <1>7, <1>12, SMTT(30)
  <2> QED BY <2>1, <2>2, Zenon DEF Has, now
<1>18. AnswerInv'
  <2> SUFFICES ASSUME NEW a \in Acceptors
               PROVE  /\ Increasing(channel'[<<a, Leader>>], "accepted")
                      /\ \A s \in Nat : \A t \in 0 .. s - 1 : Has(a, s)' => Has(a, t)'
    BY DEF AnswerInv
  <2>1. \A s \in Nat : \A t \in 0 .. s - 1 : Has(a, s) => Has(a, t)
    BY Zenon DEF AnswerInv
  <2>2. CASE a # from
    BY <1>14, <2>1, <2>2, Zenon
  <2>3. CASE a = from
    BY <1>9, <1>13, <1>17, <2>1, <2>3 DEF now
  <2> QED BY <2>2, <2>3
<1> QED
  BY <1>7, <1>15, <1>16, <1>18, SMTT(30)

\* An answer whose instance is there: the leader counts it and, when it is the
\* majority-th, tells the learners the next slot.
LEMMA CountedStep ==
  ASSUME IInv, NEW from \in Machine, NEW m \in Machine, HandleAccepted(from, m),
         NEW slot \in DOMAIN instances, slot = Head(channel[<<from, m>>]).slot
  PROVE  IInv'
<1> DEFINE hd == Head(channel[<<from, m>>])
           n == instances[slot].num_accepts + 1
           T == IF n = Majority THEN Learners ELSE {}
           D == {<<from, Leader>>}
           S == Links(Leader, T)
           msg == [type |-> "commit", slot |-> slot, value |-> instances[slot].value]
<1>0. ConstantsOK /\ TypeOK /\ RoutedInv /\ ProposalInv /\ InstanceInv /\ AcceptInv /\ AnswerInv
        /\ CountInv /\ CommitInv
  BY DEF IInv
<1>1. Leader \in Machine /\ Learners \subseteq Machine /\ Acceptors \subseteq Machine
  BY <1>0, Members
<1>2. Receives(from, m, "accepted")
  BY DEF HandleAccepted
<1>3. /\ channel[<<from, m>>] # << >> /\ m = Leader /\ from \in Acceptors
      /\ hd \in Message /\ hd.type = "accepted" /\ slot \in accepted[from]
  <2>1. TypeOK /\ RoutedInv
    BY <1>0, Zenon
  <2>2. "accepted" \in {"accepted", "committed"}
    OBVIOUS
  <2>3. channel[<<from, m>>] # << >> /\ hd \in Message /\ hd.type = "accepted"
    BY <1>2, <2>1, HeadMessage, Zenon
  <2>4. m = Leader
    BY <1>2, <2>1, <2>2, HeadMessage, ZenonT(40)
  <2>5. from \in Acceptors /\ hd.slot \in accepted[from]
    BY <1>2, <2>1, HeadMessage, Zenon
  <2> QED BY <2>3, <2>4, <2>5, Zenon
<1>4. /\ instances' = [instances EXCEPT ![slot].num_accepts = n]
      /\ channel' = TakeAndSend(from, Leader, T, msg)
      /\ UNCHANGED <<next_empty_slot, proposed, learned, assigned, accepted>>
  BY <1>3 DEF HandleAccepted
<1>5. slot \in DOMAIN instances /\ instances[slot] \in Instance /\ instances[slot].num_accepts \in Nat
  BY <1>0, SMTT(30) DEF TypeOK, Instance
<1>6. /\ slot \in Nat /\ Len(assigned) \in Nat /\ slot < Len(assigned)
      /\ instances[slot].value = assigned[slot + 1] /\ instances[slot].value \in Machine
  <2>1. Len(assigned) \in Nat
    BY <1>0, SeqLen DEF TypeOK
  <2>2. DOMAIN instances \subseteq 0 .. Len(assigned) - 1 /\ instances[slot].value = assigned[slot + 1]
    BY <1>0 DEF InstanceInv
  <2> QED BY <1>5, <2>1, <2>2, SMTT(30) DEF Instance
<1>7. msg \in Message /\ msg.type = "commit" /\ msg.slot = slot /\ msg.value = assigned[slot + 1]
  BY <1>6 DEF Message
<1>8. Delivers(D, S, msg)
  <2> HIDE DEF msg, T
  <2> QED BY <1>0, <1>1, <1>3, <1>4, <1>7, HandlerDelivers
<1>9. hd = Head(channel[<<from, Leader>>]) /\ Receives(from, Leader, "accepted")
  BY <1>2, <1>3
<1>10. /\ DOMAIN instances' = DOMAIN instances
       /\ instances' = [s \in DOMAIN instances' |-> instances'[s]]
       /\ \A s \in DOMAIN instances : s # slot => instances'[s] = instances[s]
       /\ instances'[slot] = [instances[slot] EXCEPT !.num_accepts = n]
  <2> HIDE DEF n
  <2>1. instances = [s \in DOMAIN instances |-> instances[s]]
    BY <1>0 DEF TypeOK
  <2> QED BY <1>4, <1>5, <2>1, Zenon
<1>11. /\ instances'[slot] \in Instance /\ instances'[slot].value = assigned[slot + 1]
       /\ instances'[slot].num_accepts = n /\ n \in Nat
  BY <1>5, <1>6, <1>10, SMTT(30) DEF Instance
<1>12. \A c \in D : Head(channel[c]).type = "accepted"
  BY <1>3, <1>9
<1>13. T = {} \/ (T = Learners /\ n = Majority)
  OBVIOUS
<1> HIDE DEF msg, hd, n, T
<1>14. TypeOK'
  BY <1>0, <1>4, <1>8, <1>10, <1>11, ZenonT(40) DEF TypeOK, Delivers
<1>15. RoutedInv'
  <2>1. ASSUME NEW c \in S PROVE Routed(c, msg, assigned, accepted, learned)
    BY <1>6, <1>7, <1>13 DEF Routed, Links
  <2>2. UNCHANGED <<assigned, accepted, learned>>
    BY <1>4
  <2> HIDE DEF S, D
  <2> QED BY <1>0, <1>8, <2>1, <2>2, RoutedKept, Zenon
<1>16. InstanceInv'
  BY <1>0, <1>4, <1>10, <1>11, SMTT(30) DEF InstanceInv
<1>17. ProposalInv' /\ AcceptInv'
  <2>1. /\ \A c \in D : Head(channel[c]).type # "propose" /\ Head(channel[c]).type # "accept"
        /\ msg.type # "propose" /\ msg.type # "accept"
    BY <1>7, <1>12
  <2> HIDE DEF S, D
  <2>2. ProposalInv'
    BY <1>0, <1>4, <1>8, <2>1, ProposalFrame
  <2>3. AcceptInv'
    BY <1>0, <1>4, <1>8, <2>1, AcceptFrame
  <2> QED BY <2>2, <2>3
<1>18. /\ AnswerInv'
       /\ from \notin Acked(slot)
       /\ Acked(slot)' = Acked(slot) \cup {from}
       /\ \A s : s # slot => Acked(s)' = Acked(s)
  <2>1. msg.type # "accepted" /\ slot = Head(channel[<<from, Leader>>]).slot
    BY <1>7, <1>9 DEF hd
  <2>2. accepted' = accepted /\ assigned' = assigned
    BY <1>4, Zenon
  <2> HIDE DEF S
  <2>3. AnswerInv'
    BY <1>0, <1>3, <1>8, <1>9, <2>1, <2>2, AnswerTaken, Zenon
  <2>4. from \notin Acked(slot) /\ Acked(slot)' = Acked(slot) \cup {from}
    BY <1>0, <1>3, <1>8, <1>9, <2>1, <2>2, AnswerTaken, Zenon
  <2>5. \A s : s # slot => Acked(s)' = Acked(s)
    BY <1>0, <1>3, <1>8, <1>9, <2>1, <2>2, AnswerTaken, Zenon
  <2> QED BY <2>3, <2>4, <2>5
<1>19. \A s : IsFiniteSet(Acked(s)) /\ Cardinality(Acked(s)) \in Nat
  <2>1. \A s : Acked(s) \subseteq Acceptors
    BY DEF Acked
  <2> QED BY <1>0, <2>1, Members, FS_Subset, FS_CardinalityType
<1>20. Cardinality(Acked(slot)') = n /\ Cardinality(Acked(slot)) = n - 1
  <2>1. Cardinality(Acked(slot)) = instances[slot].num_accepts
    BY <1>0, <1>5 DEF CountInv
  <2>2. Cardinality(Acked(slot) \cup {from}) = Cardinality(Acked(slot)) + 1
    BY <1>18, <1>19, FS_AddElement, Zenon
  <2>3. Cardinality(Acked(slot)') = Cardinality(Acked(slot) \cup {from})
    BY <1>18
  <2> QED BY <1>5, <2>1, <2>2, <2>3 DEF n
<1>21. CountInv'
  <2> SUFFICES ASSUME NEW s \in DOMAIN instances
               PROVE  instances'[s].num_accepts = Cardinality(Acked(s)')
    BY <1>10 DEF CountInv
  <2>1. CASE s = slot
    BY <1>11, <1>20, <2>1
  <2>2. CASE s # slot
    BY <1>0, <1>10, <1>18, <2>2, SMTT(30) DEF CountInv
  <2> QED BY <2>1, <2>2
<1>22. PICK k \in 0 .. Len(assigned) : CommittedUpTo(k) /\ \A l \in Learners : ToldUpTo(l, k)
  BY <1>0 DEF CommitInv
<1>23. Majority \in Nat
  BY <1>0, Members
<1>24. /\ \A s \in 0 .. Len(assigned) - 1 : s < k <=> Cardinality(Acked(s)) >= Majority
       /\ \A s \in 0 .. Len(assigned) - 1 : s >= k => s \in DOMAIN instances
  BY <1>22 DEF CommittedUpTo
<1>25. CASE n = Majority
  <2>1. slot >= k
    BY <1>6, <1>11, <1>20, <1>23, <1>24, <1>25, SMTT(30)
  <2>2. ~(slot > k)
    <3> SUFFICES ASSUME slot > k PROVE FALSE
      OBVIOUS
    <3>1. k \in 0 .. slot - 1 /\ k \in 0 .. Len(assigned) - 1
      BY <1>6
    <3>2. \A a \in Acceptors : Has(a, slot)' => Has(a, k)'
      BY <1>6, <1>18, <3>1, Zenon DEF AnswerInv
    <3>3. Acked(slot)' \subseteq Acked(k)'
      BY <3>2 DEF Acked
    <3>4. Acked(k)' = Acked(k)
      BY <1>6, <1>18
    <3>5. Cardinality(Acked(slot)') <= Cardinality(Acked(k))
      BY <1>19, <3>3, <3>4, FS_Subset
    <3>6. ~(k < k) /\ (k < k <=> Cardinality(Acked(k)) >= Majority)
      BY <1>24, <3>1
    <3> QED BY <1>11, <1>19, <1>20, <1>23, <1>25, <3>5, <3>6
  <2>3. slot = k /\ k + 1 \in 0 .. Len(assigned) /\ k \in Nat
    BY <1>6, <2>1, <2>2
  <2>4. CommittedUpTo(k + 1)'
    <3> SUFFICES ASSUME NEW s \in 0 .. Len(assigned) - 1
                 PROVE  /\ s < k + 1 <=> Cardinality(Acked(s)') >= Majority
                        /\ s >= k + 1 => s \in DOMAIN instances
      BY <1>4, <1>10 DEF CommittedUpTo
    <3>1. CASE s = slot
      BY <1>6, <1>11, <1>20, <1>25, <2>3, <3>1, SMTT(30)
    <3>2. CASE s # slot
      <4>1. Cardinality(Acked(s)') = Cardinality(Acked(s))
        BY <1>18, <3>2
      <4> QED BY <1>24, <2>3, <3>2, <4>1
    <3> QED BY <3>1, <3>2
  <2>5. ASSUME NEW l \in Learners PROVE ToldUpTo(l, k + 1)'
    <3>1. <<Leader, l>> \in S
      BY <1>1, <1>25 DEF T, Links, Pair
    <3>2. <<Leader, l>> \in D => Head(channel[<<Leader, l>>]).type # "commit"
      BY <1>12
    <3>3. msg.type = "commit" /\ msg.slot = k /\ learned' = learned /\ assigned' = assigned
      BY <1>4, <1>7, <2>3
    <3>4. ToldUpTo(l, k)
      BY <1>22
    <3> HIDE DEF S, D
    <3> QED BY <1>0, <1>8, <2>3, <3>1, <3>2, <3>3, <3>4, ToldSend, Zenon
  <2> QED
    <3>1. CommitInv'
      BY <1>4, <2>3, <2>4, <2>5, Zenon DEF CommitInv
    <3> QED BY <1>0, <1>14, <1>15, <1>16, <1>17, <1>18, <1>21, <3>1, Zenon DEF IInv, ConstantsOK
<1>26. CASE n # Majority
  <2>1. S = {}
    BY <1>26 DEF T, Links
  <2>2. \A c \in D : Head(channel[c]).type # "commit"
    BY <1>12
  <2>3. \A l \in Learners : ToldUpTo(l, k)'
    <3> HIDE DEF S, D
    <3> QED BY <1>0, <1>4, <1>8, <1>22, <2>1, <2>2, TellsNothing, Zenon
  <2>4. CommittedUpTo(k)'
    <3> SUFFICES ASSUME NEW s \in 0 .. Len(assigned) - 1
                 PROVE  /\ s < k <=> Cardinality(Acked(s)') >= Majority
                        /\ s >= k => s \in DOMAIN instances
      BY <1>4, <1>10 DEF CommittedUpTo
    <3>1. CASE s = slot
      <4>1. Cardinality(Acked(s)') = n /\ Cardinality(Acked(s)) = n - 1
        BY <1>20, <3>1
      <4> QED BY <1>11, <1>23, <1>24, <1>26, <4>1
    <3>2. CASE s # slot
      <4>1. Cardinality(Acked(s)') = Cardinality(Acked(s))
        BY <1>18, <3>2
      <4> QED BY <1>24, <4>1
    <3> QED BY <3>1, <3>2
  <2> QED
    <3>1. CommitInv'
      BY <1>4, <2>3, <2>4 DEF CommitInv
    <3> QED BY <1>0, <1>14, <1>15, <1>16, <1>17, <1>18, <1>21, <3>1 DEF IInv, ConstantsOK
<1> QED
  BY <1>25, <1>26

\* An answer whose instance is gone: it changes nothing but the channel, since
\* only a committed slot has no instance.
LEMMA LateStep ==
  ASSUME IInv, NEW from \in Machine, NEW m \in Machine, HandleAccepted(from, m),
         NEW slot, slot \notin DOMAIN instances, slot = Head(channel[<<from, m>>]).slot
  PROVE  IInv'
<1> DEFINE hd == Head(channel[<<from, m>>])
           D == {<<from, Leader>>}
           msg == << >>
<1>0. ConstantsOK /\ TypeOK /\ RoutedInv /\ ProposalInv /\ InstanceInv /\ AcceptInv /\ AnswerInv
        /\ CountInv /\ CommitInv
  BY DEF IInv
<1>1. Receives(from, m, "accepted")
  BY DEF HandleAccepted
<1>2. channel[<<from, m>>] # << >> /\ m = Leader /\ from \in Acceptors /\ hd.type = "accepted"
  BY <1>0, <1>1, HeadMessage
<1>3. /\ channel' = TakeAndSend(from, Leader, {}, msg)
      /\ UNCHANGED <<instances, next_empty_slot, proposed, learned, assigned, accepted>>
  BY <1>2 DEF HandleAccepted
<1>4. Delivers(D, {}, msg)
  <2>1. Links(Leader, {}) = {}
    BY DEF Links
  <2>2. Delivers(D, Links(Leader, {}), msg)
    <3> HIDE DEF msg
    <3> QED BY <1>0, <1>2, <1>3, HandlerDelivers
  <2> QED BY <2>1, <2>2, SMTT(30)
<1>5. /\ \A c \in D : Head(channel[c]).type = "accepted"
      /\ slot = Head(channel[<<from, Leader>>]).slot /\ Receives(from, Leader, "accepted")
  BY <1>1, <1>2
<1> HIDE DEF msg
<1>6. Len(assigned) \in Nat
  BY <1>0, SeqLen DEF TypeOK
<1>7. TypeOK'
  BY <1>0, <1>3, <1>4, Zenon DEF TypeOK, Delivers
<1>8. RoutedInv'
  <2>1. TypeOK /\ RoutedInv /\ UNCHANGED <<assigned, accepted, learned>>
    BY <1>0, <1>3
  <2>2. \A c \in {} : Routed(c, msg, assigned, accepted, learned)
    OBVIOUS
  <2> HIDE DEF D
  <2> QED BY <1>4, <2>1, <2>2, RoutedKept, SMTT(30)
<1>9. ProposalInv' /\ AcceptInv'
  <2>1. \A c \in D : Head(channel[c]).type # "propose" /\ Head(channel[c]).type # "accept"
    BY <1>5
  <2> HIDE DEF D
  <2>2. ProposalInv'
    BY <1>0, <1>3, <1>4, <2>1, ProposalFrame, Zenon
  <2>3. AcceptInv'
    BY <1>0, <1>3, <1>4, <2>1, AcceptFrame, Zenon
  <2> QED BY <2>2, <2>3
<1>10. AnswerInv' /\ slot \in 0 .. Len(assigned) - 1
  BY <1>0, <1>2, <1>3, <1>4, <1>5, AnswerTaken, Zenon
<1>11. from \notin Acked(slot) /\ Acked(slot)' = Acked(slot) \cup {from}
  BY <1>0, <1>2, <1>3, <1>4, <1>5, AnswerTaken, Zenon
<1>12. \A s : s # slot => Acked(s)' = Acked(s)
  BY <1>0, <1>2, <1>3, <1>4, <1>5, AnswerTaken, ZenonT(40)
<1>13. IsFiniteSet(Acked(slot)) /\ Cardinality(Acked(slot)) \in Nat
  <2>1. Acked(slot) \subseteq Acceptors
    BY DEF Acked
  <2> QED BY <1>0, <2>1, Members, FS_Subset, FS_CardinalityType
<1>14. Cardinality(Acked(slot)') = Cardinality(Acked(slot)) + 1
  <2>1. Cardinality(Acked(slot) \cup {from}) = Cardinality(Acked(slot)) + 1
    BY <1>11, <1>13, FS_AddElement, Zenon
  <2> QED BY <1>11, <2>1
<1>15. InstanceInv' /\ ConstantsOK'
  BY <1>0, <1>3, ZenonT(40) DEF InstanceInv, ConstantsOK
<1>16. CountInv'
  <2>1. \A s \in DOMAIN instances : Acked(s)' = Acked(s)
    BY <1>12
  <2> QED BY <1>0, <1>3, <2>1, ZenonT(40) DEF CountInv
<1>17. CommitInv'
  <2>1. PICK k \in 0 .. Len(assigned) : CommittedUpTo(k) /\ \A l \in Learners : ToldUpTo(l, k)
    BY <1>0 DEF CommitInv
  <2>2. \A l \in Learners : ToldUpTo(l, k)'
    <3>1. \A c \in D : Head(channel[c]).type # "commit"
      BY <1>5
    <3> HIDE DEF D
    <3> QED BY <1>0, <1>3, <1>4, <2>1, <3>1, TellsNothing
  <2>3. CommittedUpTo(k)'
    <3> SUFFICES ASSUME NEW s \in 0 .. Len(assigned) - 1
                 PROVE  /\ s < k <=> Cardinality(Acked(s)') >= Majority
                        /\ s >= k => s \in DOMAIN instances
      BY <1>3 DEF CommittedUpTo
    <3>1. CASE s = slot
      <4>1. s < k /\ Cardinality(Acked(slot)) >= Majority
        BY <2>1, <3>1 DEF CommittedUpTo
      <4>2. Majority \in Nat
        BY <1>0, Members
      <4>3. Cardinality(Acked(s)') = Cardinality(Acked(slot)) + 1
        BY <1>14, <3>1
      <4> QED BY <1>13, <4>1, <4>2, <4>3
    <3>2. CASE s # slot
      <4>1. Cardinality(Acked(s)') = Cardinality(Acked(s))
        BY <1>12, <3>2
      <4> QED BY <2>1, <4>1 DEF CommittedUpTo
    <3> QED BY <3>1, <3>2
  <2> QED BY <1>3, <2>2, <2>3 DEF CommitInv
<1> QED
  BY <1>7, <1>8, <1>9, <1>10, <1>15, <1>16, <1>17 DEF IInv
=============================================================================
