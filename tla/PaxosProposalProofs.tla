------------------------- MODULE PaxosProposalProofs --------------------------
(***************************************************************************)
(* The inductive invariant of Paxos, what a step does to the links, and    *)
(* that the steps of a proposal preserve the invariant: it is made, starts *)
(* an instance, or is forwarded to the leader.                             *)
(***************************************************************************)
EXTENDS Paxos, FiniteSetTheorems, TLAPS

-----------------------------------------------------------------------------
(* The inductive invariant *)

Pair == Machine \X Machine

Message ==
  [type : {"propose"}, value : Machine]
    \cup [type : {"accept", "commit"}, slot : Nat, value : Machine]
    \cup [type : {"accepted", "committed"}, slot : Nat]

Instance == [value : Machine, num_accepts : Nat, num_commits : Nat]

TypeOK ==
  /\ channel \in [Pair -> Seq(Message)]
  /\ next_empty_slot \in [Machine -> Nat]
  /\ instances = [s \in DOMAIN instances |-> instances[s]]
  /\ DOMAIN instances \subseteq Nat
  /\ \A s \in DOMAIN instances : instances[s] \in Instance
  /\ proposed \in [Machine -> Nat]
  /\ learned \in [Learners -> SUBSET (Nat \X Machine)]
  /\ assigned \in Seq(Machine)
  /\ accepted \in [Acceptors -> SUBSET Nat]

\* Between whom a message travels, and what it says of the order, of the slots
\* an acceptor accepted and of what a learner was told.
Routed(c, msg, asg, acc, lrn) ==
  /\ msg.type = "propose" => msg.value = c[1] /\ c[2] \in {c[1], Leader}
  /\ msg.type \in {"accept", "commit"} =>
       c[1] = Leader /\ msg.slot < Len(asg) /\ msg.value = asg[msg.slot + 1]
  /\ msg.type = "accept" => c[2] \in Acceptors
  /\ msg.type = "commit" => c[2] \in Learners
  /\ msg.type \in {"accepted", "committed"} => c[2] = Leader
  /\ msg.type = "accepted" => c[1] \in Acceptors /\ msg.slot \in acc[c[1]]
  /\ msg.type = "committed" => c[1] \in Learners /\ lrn[c[1]] # {}

RoutedInv ==
  \A c \in Pair : \A i \in 1 .. Len(channel[c]) :
    Routed(c, channel[c][i], assigned, accepted, learned)

\* How many of the messages of a channel are in a set.
Count(s, E) == Cardinality({i \in 1 .. Len(s) : s[i] \in E})

\* A proposal is in flight to the own Paxos module, in flight to the leader, or
\* in the order.
ProposalsOf(v) == {[type |-> "propose", value |-> v]}

ProposalInv ==
  \A v \in Machine :
    proposed[v] = Count(assigned, {v}) + Count(channel[<<v, v>>], ProposalsOf(v))
                    + IF v = Leader THEN 0 ELSE Count(channel[<<v, Leader>>], ProposalsOf(v))

\* The leader's table.
InstanceInv ==
  /\ next_empty_slot[Leader] = Len(assigned)
  /\ DOMAIN instances \subseteq 0 .. Len(assigned) - 1
  /\ \A s \in DOMAIN instances : instances[s].value = assigned[s + 1]

\* Sequence q has a message of this type about slot s.
About(q, type, s) == \E i \in 1 .. Len(q) : q[i].type = type /\ q[i].slot = s

\* The messages of this type are in the order of their slots, each slot once.
Increasing(q, type) ==
  \A i, j \in 1 .. Len(q) :
    q[i].type = type /\ q[j].type = type /\ i < j => q[i].slot < q[j].slot

\* Accept requests reach an acceptor in the order of the slots, and it
\* accepts all of them.
AcceptInv ==
  \A a \in Acceptors :
    /\ Increasing(channel[<<Leader, a>>], "accept")
    /\ \A s \in Nat : About(channel[<<Leader, a>>], "accept", s) => \A t \in accepted[a] : t < s
    /\ accepted[a] \subseteq 0 .. Len(assigned) - 1
    /\ \A s \in 0 .. Len(assigned) - 1 :
         s \in accepted[a] \/ About(channel[<<Leader, a>>], "accept", s)

\* The leader has the answer of acceptor a for slot s.
Has(a, s) == s \in accepted[a] /\ ~About(channel[<<a, Leader>>], "accepted", s)

Acked(s) == {a \in Acceptors : Has(a, s)}

\* Answers reach the leader in the order of the slots as well.
AnswerInv ==
  \A a \in Acceptors :
    /\ Increasing(channel[<<a, Leader>>], "accepted")
    /\ \A s \in Nat : \A t \in 0 .. s - 1 : Has(a, s) => Has(a, t)

\* The leader counts the answers of the instances it has.
CountInv == \A s \in DOMAIN instances : instances[s].num_accepts = Cardinality(Acked(s))

Commits == {msg \in Message : msg.type = "commit"}

\* The slots below k are committed: a majority accepted them.
CommittedUpTo(k) ==
  \A s \in 0 .. Len(assigned) - 1 :
    /\ s < k <=> Cardinality(Acked(s)) >= Majority
    /\ s >= k => s \in DOMAIN instances

\* Learner m was told the slots below k in order, or is being told.
ToldUpTo(m, k) ==
  /\ Cardinality(learned[m]) \in Nat
  /\ Cardinality(learned[m]) + Count(channel[<<Leader, m>>], Commits) = k
  /\ learned[m] = {<<s, assigned[s + 1]>> : s \in 0 .. Cardinality(learned[m]) - 1}
  /\ \A i \in 1 .. Len(channel[<<Leader, m>>]) : channel[<<Leader, m>>][i].type = "commit" =>
       channel[<<Leader, m>>][i].slot =
         Cardinality(learned[m]) + Count(SubSeq(channel[<<Leader, m>>], 1, i - 1), Commits)

\* The message at the head of the leader's channel to m is about the slot m learns next.
HeadIsNext(m) == Head(channel[<<Leader, m>>]).slot = Cardinality(learned[m])

CommitInv ==
  \E k \in 0 .. Len(assigned) : CommittedUpTo(k) /\ \A m \in Learners : ToldUpTo(m, k)

IInv ==
  /\ ConstantsOK
  /\ TypeOK
  /\ RoutedInv
  /\ ProposalInv
  /\ InstanceInv
  /\ AcceptInv
  /\ AnswerInv
  /\ CountInv
  /\ CommitInv

-----------------------------------------------------------------------------
(* Sequences and functions *)

\* The elements of a sequence.
LEMMA SeqLen ==
  ASSUME NEW S, NEW s \in Seq(S)
  PROVE  Len(s) \in Nat /\ DOMAIN s = 1 .. Len(s) /\ \A i \in 1 .. Len(s) : s[i] \in S
OBVIOUS

\* A sequence is determined by its elements.
LEMMA SeqExt ==
  ASSUME NEW S, NEW s \in Seq(S), NEW t \in Seq(S),
         Len(s) = Len(t), \A i \in 1 .. Len(s) : s[i] = t[i]
  PROVE  s = t
OBVIOUS

\* The empty sequence is the one of length 0.
LEMMA SeqEmpty ==
  ASSUME NEW S
  PROVE  << >> \in Seq(S) /\ Len(<< >>) = 0 /\ \A s \in Seq(S) : s # << >> => Len(s) \in Nat \ {0}
OBVIOUS

\* A message is sent at the end of a sequence.
LEMMA SeqAppend ==
  ASSUME NEW S, NEW s \in Seq(S), NEW e \in S
  PROVE  /\ Append(s, e) \in Seq(S) /\ Len(Append(s, e)) = Len(s) + 1
         /\ \A i \in 1 .. Len(s) : Append(s, e)[i] = s[i]
         /\ Append(s, e)[Len(s) + 1] = e
OBVIOUS

\* A message is taken from the front.
LEMMA SeqTail ==
  ASSUME NEW S, NEW s \in Seq(S), s # << >>
  PROVE  /\ Head(s) \in S /\ Tail(s) \in Seq(S) /\ Len(Tail(s)) = Len(s) - 1
         /\ \A i \in 1 .. Len(Tail(s)) : Tail(s)[i] = s[i + 1]
OBVIOUS

\* The first n elements.
LEMMA SeqPrefix ==
  ASSUME NEW S, NEW s \in Seq(S)
  PROVE  /\ \A n \in 0 .. Len(s) : /\ SubSeq(s, 1, n) \in Seq(S) /\ Len(SubSeq(s, 1, n)) = n
                                   /\ \A i \in 1 .. n : SubSeq(s, 1, n)[i] = s[i]
         /\ SubSeq(s, 1, Len(s)) = s
OBVIOUS

\* A function onto a set.
LEMMA OntoIsSurjection ==
  ASSUME NEW A, NEW B, NEW f \in [A -> B], \A y \in B : \E x \in A : f[x] = y
  PROVE  f \in Surjection(A, B)
BY DEF Surjection

\* A function that is one to one as well.
LEMMA OneToOneOnto ==
  ASSUME NEW A, NEW B, NEW f \in [A -> B], \A x, y \in A : f[x] = f[y] => x = y,
         \A y \in B : \E x \in A : f[x] = y
  PROVE  ExistsBijection(A, B)
<1>1. f \in Bijection(A, B)
  <2>1. f \in Injection(A, B)
    BY DEF Injection, IsInjective
  <2> QED BY <2>1, OntoIsSurjection DEF Bijection
<1> QED BY <1>1 DEF ExistsBijection

-----------------------------------------------------------------------------
(* Counting in a sequence *)

\* The positions of a sequence that hold an element of a set are finitely many.
LEMMA CountType ==
  ASSUME NEW S, NEW s \in Seq(S), NEW E
  PROVE  /\ IsFiniteSet({i \in 1 .. Len(s) : s[i] \in E})
         /\ Count(s, E) \in Nat
<1>1. IsFiniteSet(1 .. Len(s))
  BY FS_Interval
<1>2. IsFiniteSet({i \in 1 .. Len(s) : s[i] \in E})
  BY <1>1, FS_Subset
<1> QED
  BY <1>2, FS_CardinalityType DEF Count

\* An element sent is counted.
LEMMA CountAppend ==
  ASSUME NEW S, NEW s \in Seq(S), NEW e \in S, NEW E
  PROVE  Count(Append(s, e), E) = Count(s, E) + IF e \in E THEN 1 ELSE 0
<1> DEFINE A == {i \in 1 .. Len(s) : s[i] \in E}
           B == {i \in 1 .. Len(Append(s, e)) : Append(s, e)[i] \in E}
<1>1. B = IF e \in E THEN A \cup {Len(s) + 1} ELSE A
  BY SeqAppend
<1>2. IsFiniteSet(A) /\ Len(s) + 1 \notin A
  <2>1. IsFiniteSet(A)
    BY CountType, SMTT(30)
  <2>2. Len(s) \in Nat
    BY SeqLen
  <2> QED BY <2>1, <2>2
<1>3. Cardinality(A) \in Nat
  BY <1>2, FS_CardinalityType
<1> QED
  <2> HIDE DEF A, B
  <2>1. Cardinality(A \cup {Len(s) + 1}) = Cardinality(A) + 1
    BY <1>2, FS_AddElement, Zenon
  <2>2. Count(s, E) = Cardinality(A) /\ Count(Append(s, e), E) = Cardinality(B)
    BY DEF Count, A, B
  <2> QED BY <1>1, <1>3, <2>1, <2>2

\* An element received is no longer counted.
LEMMA CountTail ==
  ASSUME NEW S, NEW s \in Seq(S), s # << >>, NEW E
  PROVE  Count(s, E) = Count(Tail(s), E) + IF Head(s) \in E THEN 1 ELSE 0
<1> DEFINE A == {i \in 1 .. Len(Tail(s)) : Tail(s)[i] \in E}
           B == {i \in 2 .. Len(s) : s[i] \in E}
           C == {i \in 1 .. Len(s) : s[i] \in E}
           f == [i \in A |-> i + 1]
<1>1. Len(s) \in Nat \ {0} /\ Head(s) = s[1]
  BY SeqEmpty, SeqLen
<1>2. Tail(s) \in Seq(S) /\ Len(Tail(s)) = Len(s) - 1 /\ \A i \in 1 .. Len(s) - 1 : Tail(s)[i] = s[i + 1]
  BY SeqTail
<1>3. ExistsBijection(A, B)
  <2>1. f \in [A -> B]
    BY <1>1, <1>2
  <2>2. \A x, y \in A : f[x] = f[y] => x = y
    OBVIOUS
  <2>3. \A y \in B : \E x \in A : f[x] = y
    <3> SUFFICES ASSUME NEW y \in B PROVE \E x \in A : f[x] = y
      BY Zenon
    <3>1. y - 1 \in A
      BY <1>1, <1>2
    <3>2. f[y - 1] = y
      BY <3>1
    <3> QED BY <3>1, <3>2, Zenon
  <2> HIDE DEF A, B, f
  <2> QED BY <2>1, <2>2, <2>3, OneToOneOnto
<1>4. IsFiniteSet(A) /\ Cardinality(A) = Count(Tail(s), E)
  BY <1>2, CountType, Zenon DEF Count
<1>5. IsFiniteSet(B) /\ Cardinality(B) = Cardinality(A)
  <2> HIDE DEF A, B, f
  <2> QED BY <1>3, <1>4, FS_Bijection
<1>6. C = (IF Head(s) \in E THEN B \cup {1} ELSE B) /\ 1 \notin B
  BY <1>1
<1>7. Cardinality(B) \in Nat
  BY <1>5, FS_CardinalityType
<1> QED
  <2> HIDE DEF A, B, C
  <2>1. Cardinality(B \cup {1}) = Cardinality(B) + 1
    BY <1>5, <1>6, FS_AddElement, Zenon
  <2>2. Count(s, E) = Cardinality(C)
    BY DEF Count, C
  <2> QED BY <1>4, <1>5, <1>6, <1>7, <2>1, <2>2

\* Counting finds nothing exactly when nothing is there.
LEMMA CountPositive ==
  ASSUME NEW S, NEW s \in Seq(S), NEW E, NEW i \in 1 .. Len(s), s[i] \in E
  PROVE  Count(s, E) > 0
<1> DEFINE A == {j \in 1 .. Len(s) : s[j] \in E}
<1>1. IsFiniteSet(A) /\ A # {}
  BY CountType, Zenon
<1> HIDE DEF A
<1>2. Cardinality(A) # 0 /\ Cardinality(A) \in Nat
  BY <1>1, FS_EmptySet, FS_CardinalityType
<1> QED
  BY <1>2 DEF Count, A

-----------------------------------------------------------------------------
(* The group *)

\* GetMembers: the leader is an acceptor, every acceptor is a learner.
LEMMA Members ==
  ASSUME ConstantsOK
  PROVE  /\ Leader \in Acceptors /\ Acceptors \subseteq Learners /\ Learners \subseteq Machine
         /\ IsFiniteSet(Acceptors)
         /\ Cardinality(Acceptors) \in Nat \ {0}
         /\ Majority \in Nat \ {0}
         /\ 2 * Majority > Cardinality(Acceptors)
<1>1. \A n \in Nat \ {0} : Cutoff(n) \in 1 .. n
  BY DEF Cutoff
<1>2. Leader \in Acceptors /\ Acceptors \subseteq Learners /\ Learners \subseteq Machine
  BY <1>1 DEF ConstantsOK, Leader, Acceptors, Learners, Machine
<1>3. IsFiniteSet(Acceptors)
  <2> DEFINE n == IF LocalSyncReplication THEN Cutoff(NumReplicas) ELSE Cutoff(NumPartitions)
             f == [x \in 0 .. n - 1 |-> IF LocalSyncReplication THEN <<x, 0>> ELSE <<0, x>>]
  <2>1. n \in Nat
    BY <1>1 DEF ConstantsOK
  <2>2. IsFiniteSet(0 .. n - 1)
    <3> HIDE DEF n
    <3> QED BY <2>1, FS_Interval
  <2>3. f \in [0 .. n - 1 -> Acceptors] /\ \A a \in Acceptors : \E x \in 0 .. n - 1 : f[x] = a
    BY DEF Acceptors
  <2>4. f \in Surjection(0 .. n - 1, Acceptors)
    <3> HIDE DEF f, n
    <3> QED BY <2>3, OntoIsSurjection, Zenon
  <2> HIDE DEF f, n
  <2> QED BY <2>2, <2>4, FS_Surjection
<1>4. Cardinality(Acceptors) \in Nat \ {0}
  BY <1>2, <1>3, FS_EmptySet, FS_CardinalityType
<1> QED
  BY <1>2, <1>3, <1>4 DEF Majority

-----------------------------------------------------------------------------
(* Channels *)

\* The first d messages of a channel were taken, and msg was sent e times.
Moves(old, new, d, e, msg) ==
  /\ d \in {0, 1} /\ e \in {0, 1} /\ d <= Len(old)
  /\ Len(new) = Len(old) - d + e
  /\ \A i \in 1 .. Len(old) - d : new[i] = old[i + d]
  /\ e = 1 => new[Len(new)] = msg

Taken(from, m, c) == IF c = <<from, m>> THEN 1 ELSE 0

Sent(m, T, c) == IF c[1] = m /\ c[2] \in T THEN 1 ELSE 0

\* What a handler does to the channels.
LEMMA TakeAndSendMoves ==
  ASSUME channel \in [Pair -> Seq(Message)], NEW from \in Machine, NEW m \in Machine,
         channel[<<from, m>>] # << >>, NEW T, NEW msg, T = {} \/ msg \in Message
  PROVE  /\ TakeAndSend(from, m, T, msg) \in [Pair -> Seq(Message)]
         /\ \A c \in Pair : Moves(channel[c], TakeAndSend(from, m, T, msg)[c], Taken(from, m, c),
                                  Sent(m, T, c), msg)
<1> DEFINE new == TakeAndSend(from, m, T, msg)
<1>1. DOMAIN channel = Pair /\ <<from, m>> \in Pair
  BY DEF Pair
<1>2. ASSUME NEW c \in Pair
      PROVE  /\ new[c] \in Seq(Message)
             /\ Moves(channel[c], new[c], Taken(from, m, c), Sent(m, T, c), msg)
  <2> DEFINE rest == IF c = <<from, m>> THEN Tail(channel[c]) ELSE channel[c]
  <2>1. new[c] = IF c[1] = m /\ c[2] \in T THEN Append(rest, msg) ELSE rest
    BY <1>1 DEF TakeAndSend
  <2>2. channel[c] \in Seq(Message) /\ Len(channel[c]) \in Nat
    BY SeqLen
  <2>3. c = <<from, m>> => Len(channel[c]) > 0
    BY <2>2, SeqEmpty
  <2>4. /\ rest \in Seq(Message)
        /\ Len(rest) = Len(channel[c]) - Taken(from, m, c)
        /\ \A i \in 1 .. Len(rest) : rest[i] = channel[c][i + Taken(from, m, c)]
    <3>1. CASE c = <<from, m>>
      BY <2>2, <2>3, <3>1, SeqTail DEF Taken
    <3>2. CASE c # <<from, m>>
      BY <2>2, <3>2 DEF Taken
    <3> QED BY <3>1, <3>2
  <2> HIDE DEF rest
  <2>5. CASE c[1] = m /\ c[2] \in T
    <3>1. msg \in Message
      BY <2>5
    <3>2. /\ new[c] \in Seq(Message)
          /\ Len(new[c]) = Len(rest) + 1
          /\ \A i \in 1 .. Len(rest) : new[c][i] = rest[i]
          /\ new[c][Len(rest) + 1] = msg
      BY <2>1, <2>4, <2>5, <3>1, SeqAppend
    <3> HIDE DEF new
    <3> QED BY <2>2, <2>3, <2>4, <2>5, <3>2 DEF Moves, Taken, Sent
  <2>6. CASE ~(c[1] = m /\ c[2] \in T)
    <3>1. new[c] = rest
      BY <2>1, <2>6
    <3> HIDE DEF new
    <3> QED BY <2>2, <2>3, <2>4, <2>6, <3>1 DEF Moves, Taken, Sent
  <2> QED BY <2>5, <2>6
<1>3. new = [c \in Pair |-> new[c]]
  BY <1>1 DEF TakeAndSend
<1> QED
  BY <1>2, <1>3

\* Where the messages of a channel are after a step.
LEMMA MovesElements ==
  ASSUME NEW old \in Seq(Message), NEW new \in Seq(Message), NEW d, NEW e, NEW msg,
         Moves(old, new, d, e, msg)
  PROVE  /\ \A i \in 1 .. Len(new) :
              \/ i + d \in 1 .. Len(old) /\ new[i] = old[i + d]
              \/ e = 1 /\ i = Len(new) /\ new[i] = msg
         /\ \A j \in 1 + d .. Len(old) : j - d \in 1 .. Len(new) /\ new[j - d] = old[j]
         /\ d = 1 => old # << >> /\ Head(old) = old[1]
<1>1. Len(old) \in Nat /\ Len(new) \in Nat
  BY SeqLen
<1>2. ASSUME NEW i \in 1 .. Len(new)
      PROVE  \/ i + d \in 1 .. Len(old) /\ new[i] = old[i + d]
             \/ e = 1 /\ i = Len(new) /\ new[i] = msg
  <2>1. CASE i <= Len(old) - d
    BY <1>1, <2>1 DEF Moves
  <2>2. CASE i > Len(old) - d
    BY <1>1, <2>2, SMTT(30) DEF Moves
  <2> QED BY <1>1, <2>1, <2>2 DEF Moves
<1>3. ASSUME NEW j \in 1 + d .. Len(old)
      PROVE  j - d \in 1 .. Len(new) /\ new[j - d] = old[j]
  <2>1. d \in {0, 1} /\ e \in {0, 1} /\ Len(new) = Len(old) - d + e
    BY DEF Moves
  <2>2. j - d \in 1 .. Len(old) - d /\ j - d \in 1 .. Len(new) /\ (j - d) + d = j
    BY <1>1, <2>1
  <2> QED BY <2>2 DEF Moves
<1>4. d = 1 => old # << >> /\ Head(old) = old[1]
  <2>1. d = 1 => Len(old) > 0
    BY <1>1 DEF Moves
  <2> QED BY <2>1, SeqEmpty
<1> QED
  BY <1>2, <1>3, <1>4

\* The first n messages after a step are the first n + d before it, less the
\* one that was taken.
LEMMA MovesPrefix ==
  ASSUME NEW old \in Seq(Message), NEW new \in Seq(Message), NEW d, NEW e, NEW msg,
         Moves(old, new, d, e, msg), NEW n \in 0 .. Len(old) - d, NEW E
  PROVE  Count(SubSeq(old, 1, n + d), E) =
           Count(SubSeq(new, 1, n), E) + IF d = 1 /\ Head(old) \in E THEN 1 ELSE 0
<1>1. Len(old) \in Nat /\ Len(new) \in Nat /\ d \in {0, 1} /\ d <= Len(old) /\ n <= Len(new)
  BY SeqLen DEF Moves
<1>2. /\ \A i \in 1 .. n : new[i] \in Message
      /\ \A i \in 1 .. n + d : old[i] \in Message
  BY <1>1, SeqLen
<1>3. /\ SubSeq(new, 1, n) \in Seq(Message)
      /\ Len(SubSeq(new, 1, n)) = n
      /\ \A i \in 1 .. n : SubSeq(new, 1, n)[i] = new[i]
  BY <1>1, <1>2, SeqPrefix
<1>4. /\ SubSeq(old, 1, n + d) \in Seq(Message)
      /\ Len(SubSeq(old, 1, n + d)) = n + d
      /\ \A i \in 1 .. n + d : SubSeq(old, 1, n + d)[i] = old[i]
  BY <1>1, <1>2, SeqPrefix
<1>5. \A i \in 1 .. n : new[i] = old[i + d]
  BY <1>1 DEF Moves
<1>6. CASE d = 0
  <2>1. SubSeq(new, 1, n) = SubSeq(old, 1, n + d)
    BY <1>1, <1>3, <1>4, <1>5, <1>6, SeqExt
  <2> DEFINE a == Count(SubSeq(new, 1, n), E)
             b == Count(SubSeq(old, 1, n + d), E)
  <2>2. a \in Nat
    BY <1>3, CountType, Zenon
  <2>3. a = b
    BY <2>1, Zenon
  <2> HIDE DEF a, b
  <2>4. b = a + IF d = 1 /\ Head(old) \in E THEN 1 ELSE 0
    BY <1>6, <2>2, <2>3
  <2> QED BY <2>4 DEF a, b
<1>7. CASE d = 1
  <2> DEFINE s == SubSeq(old, 1, n + d)
  <2>1. s # << >> /\ Head(s) = old[1] /\ Head(old) = old[1]
    BY <1>1, <1>4, <1>7, SeqEmpty
  <2>2. /\ Tail(s) \in Seq(Message)
        /\ Len(Tail(s)) = n
        /\ \A i \in 1 .. n : Tail(s)[i] = s[i + 1]
    <3> HIDE DEF s
    <3> QED BY <1>1, <1>4, <1>7, <2>1, SeqTail DEF s
  <2>3. Tail(s) = SubSeq(new, 1, n)
    <3>1. \A i \in 1 .. n : Tail(s)[i] = SubSeq(new, 1, n)[i]
      BY <1>1, <1>3, <1>4, <1>5, <1>7, <2>2
    <3> HIDE DEF s
    <3> QED BY <1>3, <2>2, <3>1, SeqExt
  <2>4. Count(s, E) = Count(Tail(s), E) + IF Head(s) \in E THEN 1 ELSE 0
    <3> HIDE DEF s
    <3> QED BY <1>4, <2>1, CountTail, Zenon DEF s
  <2> QED BY <1>7, <2>1, <2>3, <2>4, Zenon
<1> QED
  BY <1>1, <1>6, <1>7

\* What is counted of a channel after a step.
LEMMA MovesCount ==
  ASSUME NEW old \in Seq(Message), NEW new \in Seq(Message), NEW d, NEW e, NEW msg,
         e = 1 => msg \in Message,
         Moves(old, new, d, e, msg), NEW E
  PROVE  /\ Count(old, E) \in Nat /\ Count(new, E) \in Nat
         /\ Count(new, E) = Count(old, E) - (IF d = 1 /\ Head(old) \in E THEN 1 ELSE 0)
                                          + (IF e = 1 /\ msg \in E THEN 1 ELSE 0)
<1> DEFINE n == Len(old) - d
<1>1. Len(old) \in Nat /\ Len(new) \in Nat /\ n \in 0 .. Len(old) - d /\ n <= Len(new) /\ n \in Nat
  BY SeqLen DEF Moves
<1>2. Count(SubSeq(old, 1, n + d), E) =
        Count(SubSeq(new, 1, n), E) + IF d = 1 /\ Head(old) \in E THEN 1 ELSE 0
  BY <1>1, MovesPrefix
<1>3. SubSeq(old, 1, n + d) = old
  BY <1>1, SeqPrefix DEF Moves
<1>4. Count(old, E) \in Nat /\ Count(new, E) \in Nat
  BY CountType, Zenon
<1>5. /\ SubSeq(new, 1, n) \in Seq(Message)
      /\ Len(SubSeq(new, 1, n)) = n
      /\ \A i \in 1 .. n : SubSeq(new, 1, n)[i] = new[i]
  <2>1. \A i \in 1 .. n : new[i] \in Message
    BY <1>1, SeqLen
  <2> HIDE DEF n
  <2> QED BY <1>1, <2>1, SeqPrefix
<1> DEFINE kept == Count(SubSeq(new, 1, n), E)
<1>6. kept \in Nat /\ Count(old, E) = kept + IF d = 1 /\ Head(old) \in E THEN 1 ELSE 0
  <2>1. kept \in Nat
    BY <1>5, CountType, Zenon
  <2>2. Count(old, E) = kept + IF d = 1 /\ Head(old) \in E THEN 1 ELSE 0
    BY <1>2, <1>3, Zenon
  <2> QED BY <2>1, <2>2
<1> HIDE DEF kept
<1>7. CASE e = 1
  <2>1. msg \in Message /\ new[n + 1] = msg /\ Len(new) = n + 1
    BY <1>1, <1>7 DEF Moves
  <2> HIDE DEF n
  <2>2. new = Append(SubSeq(new, 1, n), msg)
    <3> DEFINE t == Append(SubSeq(new, 1, n), msg)
    <3>1. /\ t \in Seq(Message) /\ Len(t) = n + 1
          /\ \A i \in 1 .. n : t[i] = SubSeq(new, 1, n)[i]
          /\ t[n + 1] = msg
      BY <1>5, <2>1, SeqAppend
    <3>2. \A i \in 1 .. n + 1 : t[i] = new[i]
      <4> HIDE DEF t
      <4> QED BY <1>1, <1>5, <2>1, <3>1
    <3> HIDE DEF t
    <3> QED BY <2>1, <3>1, <3>2, SeqExt DEF t
  <2>3. Count(Append(SubSeq(new, 1, n), msg), E) = kept + IF msg \in E THEN 1 ELSE 0
    <3> DEFINE s == SubSeq(new, 1, n)
    <3>1. s \in Seq(Message) /\ kept = Count(s, E)
      BY <1>5 DEF kept
    <3> HIDE DEF s
    <3>2. Count(Append(s, msg), E) = Count(s, E) + IF msg \in E THEN 1 ELSE 0
      BY <2>1, <3>1, CountAppend
    <3> QED BY <3>1, <3>2 DEF s
  <2>4. Count(new, E) = kept + IF msg \in E THEN 1 ELSE 0
    BY <2>2, <2>3, Zenon
  <2> QED BY <1>4, <1>6, <1>7, <2>4
<1>8. CASE e = 0
  <2>1. Len(new) = n
    BY <1>1, <1>8 DEF Moves
  <2>2. SubSeq(new, 1, n) = new
    BY <2>1, SeqPrefix
  <2>3. Count(new, E) = kept
    BY <2>2, Zenon DEF kept
  <2> QED BY <1>4, <1>6, <1>8, <2>3
<1> QED
  BY <1>4, <1>7, <1>8 DEF Moves

\* One message was taken from each channel of D and msg sent on each of S.
Delivers(D, S, msg) ==
  /\ channel' \in [Pair -> Seq(Message)]
  /\ S = {} \/ msg \in Message
  /\ \A c \in Pair : Moves(channel[c], channel'[c], IF c \in D THEN 1 ELSE 0, IF c \in S THEN 1 ELSE 0, msg)

\* A step that takes and sends other messages.
LEMMA MovesOther ==
  ASSUME NEW old \in Seq(Message), NEW new \in Seq(Message), NEW d, NEW e, NEW msg,
         Moves(old, new, d, e, msg), NEW type,
         d = 1 => Head(old).type # type, e = 1 => msg.type # type
  PROVE  /\ \A s : About(new, type, s) <=> About(old, type, s)
         /\ Increasing(old, type) => Increasing(new, type)
<1>1. /\ \A i \in 1 .. Len(new) :
           \/ i + d \in 1 .. Len(old) /\ new[i] = old[i + d]
           \/ e = 1 /\ i = Len(new) /\ new[i] = msg
      /\ \A j \in 1 + d .. Len(old) : j - d \in 1 .. Len(new) /\ new[j - d] = old[j]
      /\ d = 1 => Head(old) = old[1]
  <2>1. \A i \in 1 .. Len(new) :
           \/ i + d \in 1 .. Len(old) /\ new[i] = old[i + d]
           \/ e = 1 /\ i = Len(new) /\ new[i] = msg
    BY MovesElements
  <2>2. \A j \in 1 + d .. Len(old) : j - d \in 1 .. Len(new) /\ new[j - d] = old[j]
    BY MovesElements
  <2> QED BY <2>1, <2>2, MovesElements
<1>2. d \in {0, 1} /\ Len(old) \in Nat /\ Len(new) \in Nat
  BY SeqLen DEF Moves
<1>3. ASSUME NEW i \in 1 .. Len(new), new[i].type = type
      PROVE  i + d \in 1 .. Len(old) /\ new[i] = old[i + d]
  BY <1>1, <1>3
<1>4. ASSUME NEW j \in 1 .. Len(old), old[j].type = type
      PROVE  j - d \in 1 .. Len(new) /\ new[j - d] = old[j]
  <2>1. d = 1 => j # 1
    BY <1>1, <1>4
  <2>2. j \in 1 + d .. Len(old)
    BY <1>2, <2>1
  <2> QED BY <1>1, <2>2
<1>5. \A s : About(new, type, s) <=> About(old, type, s)
  BY <1>3, <1>4, SMTT(30) DEF About
<1>6. ASSUME Increasing(old, type), NEW i \in 1 .. Len(new), NEW j \in 1 .. Len(new),
             new[i].type = type, new[j].type = type, i < j
      PROVE  new[i].slot < new[j].slot
  <2>1. i + d < j + d
    BY <1>2, <1>6
  <2> QED BY <1>3, <1>6, <2>1, SMTT(30) DEF Increasing
<1> QED
  BY <1>5, <1>6 DEF Increasing

\* A step that takes a message of this type.
LEMMA MovesTake ==
  ASSUME NEW old \in Seq(Message), NEW new \in Seq(Message), NEW e, NEW msg,
         Moves(old, new, 1, e, msg), NEW type, Head(old).type = type, Increasing(old, type),
         \A i \in 1 .. Len(old) : old[i].type = type => old[i].slot \in Nat,
         e = 1 => msg.type # type
  PROVE  /\ \A s : About(new, type, s) <=> About(old, type, s) /\ s # Head(old).slot
         /\ About(old, type, Head(old).slot) /\ Head(old).slot \in Nat
         /\ \A s : About(new, type, s) => s > Head(old).slot
         /\ Increasing(new, type)
<1>1. /\ \A i \in 1 .. Len(new) :
           \/ i + 1 \in 1 .. Len(old) /\ new[i] = old[i + 1]
           \/ e = 1 /\ i = Len(new) /\ new[i] = msg
      /\ \A j \in 2 .. Len(old) : j - 1 \in 1 .. Len(new) /\ new[j - 1] = old[j]
      /\ Head(old) = old[1]
  BY MovesElements, SMTT(30)
<1>2. Len(old) \in Nat \ {0} /\ Len(new) \in Nat
  BY SeqLen DEF Moves
<1>3. ASSUME NEW i \in 1 .. Len(new), new[i].type = type
      PROVE  i + 1 \in 1 .. Len(old) /\ new[i] = old[i + 1] /\ new[i].slot > Head(old).slot
  <2>1. i + 1 \in 1 .. Len(old) /\ new[i] = old[i + 1]
    BY <1>1, <1>3
  <2>2. 1 \in 1 .. Len(old) /\ 1 < i + 1
    BY <1>2
  <2>3. old[1].slot < old[i + 1].slot /\ old[1].slot \in Nat /\ old[i + 1].slot \in Nat
    BY <1>1, <1>3, <2>1, <2>2 DEF Increasing
  <2> QED BY <1>1, <2>1, <2>3
<1>4. About(old, type, Head(old).slot) /\ Head(old).slot \in Nat
  BY <1>1, <1>2 DEF About
<1>5. \A s : About(new, type, s) => About(old, type, s) /\ s > Head(old).slot
  BY <1>3 DEF About
<1>6. ASSUME NEW s, About(old, type, s), s # Head(old).slot
      PROVE  About(new, type, s)
  <2>1. PICK j \in 1 .. Len(old) : old[j].type = type /\ old[j].slot = s
    BY <1>6 DEF About
  <2>2. j \in 2 .. Len(old)
    BY <1>1, <1>2, <1>6, <2>1
  <2> QED BY <1>1, <2>1, <2>2, SMTT(30) DEF About
<1>7. ASSUME NEW i \in 1 .. Len(new), NEW j \in 1 .. Len(new),
             new[i].type = type, new[j].type = type, i < j
      PROVE  new[i].slot < new[j].slot
  <2>1. i + 1 < j + 1
    BY <1>2, <1>7
  <2> QED BY <1>3, <1>7, <2>1, SMTT(30) DEF Increasing
<1>8. \A s : About(new, type, s) => s # Head(old).slot
  BY <1>4, <1>5
<1> QED
  BY <1>4, <1>5, <1>6, <1>7, <1>8 DEF Increasing

\* A step that sends a message of this type, about a later slot than those of
\* the messages before it.
LEMMA MovesSend ==
  ASSUME NEW old \in Seq(Message), NEW new \in Seq(Message), NEW d, NEW msg,
         Moves(old, new, d, 1, msg), NEW type, msg.type = type, Increasing(old, type),
         d = 1 => Head(old).type # type,
         \A s : About(old, type, s) => s < msg.slot
  PROVE  /\ \A s : About(new, type, s) <=> About(old, type, s) \/ s = msg.slot
         /\ Increasing(new, type)
<1>1. /\ \A i \in 1 .. Len(new) :
           \/ i + d \in 1 .. Len(old) /\ new[i] = old[i + d]
           \/ i = Len(new) /\ new[i] = msg
      /\ \A j \in 1 + d .. Len(old) : j - d \in 1 .. Len(new) /\ new[j - d] = old[j]
      /\ d = 1 => Head(old) = old[1]
  BY MovesElements
<1>2. d \in {0, 1} /\ Len(old) \in Nat /\ Len(new) \in Nat \ {0} /\ new[Len(new)] = msg
  BY SeqLen DEF Moves
<1>3. ASSUME NEW j \in 1 .. Len(old), old[j].type = type
      PROVE  j - d \in 1 .. Len(new) /\ new[j - d] = old[j]
  <2>1. d = 1 => j # 1
    BY <1>1, <1>3
  <2>2. j \in 1 + d .. Len(old)
    BY <1>2, <2>1
  <2> QED BY <1>1, <2>2
<1>4. \A s : About(new, type, s) => About(old, type, s) \/ s = msg.slot
  BY <1>1 DEF About
<1>5. \A s : About(old, type, s) => About(new, type, s)
  BY <1>3 DEF About
<1>6. About(new, type, msg.slot)
  BY <1>2 DEF About
<1>7. ASSUME NEW i \in 1 .. Len(new), NEW j \in 1 .. Len(new),
             new[i].type = type, new[j].type = type, i < j
      PROVE  new[i].slot < new[j].slot
  <2>1. i + d \in 1 .. Len(old) /\ new[i] = old[i + d]
    BY <1>1, <1>2, <1>7, SMTT(30)
  <2>2. CASE j + d \in 1 .. Len(old) /\ new[j] = old[j + d]
    <3>1. i + d < j + d
      BY <1>2, <1>7
    <3> QED BY <1>7, <2>1, <2>2, <3>1 DEF Increasing
  <2>3. CASE new[j] = msg
    <3>1. About(old, type, new[i].slot)
      BY <1>7, <2>1 DEF About
    <3> QED BY <2>3, <3>1
  <2> QED BY <1>1, <2>2, <2>3
<1> QED
  BY <1>4, <1>5, <1>6, <1>7 DEF Increasing

-----------------------------------------------------------------------------
(* What a step leaves alone *)

\* Messages stay true: the order only grows at its end, acceptors and learners
\* forget nothing.
LEMMA RoutedStep ==
  ASSUME TypeOK, RoutedInv, NEW D, NEW S, NEW msg, Delivers(D, S, msg),
         Len(assigned') \in Nat, Len(assigned) <= Len(assigned'),
         \A i \in 1 .. Len(assigned) : assigned'[i] = assigned[i],
         \A a \in Acceptors : accepted[a] \subseteq accepted'[a],
         \A m \in Learners : learned[m] # {} => learned'[m] # {},
         \A c \in S : c \in Pair => Routed(c, msg, assigned', accepted', learned')
  PROVE  RoutedInv'
<1> SUFFICES ASSUME NEW c \in Pair, NEW i \in 1 .. Len(channel'[c])
             PROVE  Routed(c, channel'[c][i], assigned', accepted', learned')
  BY DEF RoutedInv
<1> DEFINE d == IF c \in D THEN 1 ELSE 0
           e == IF c \in S THEN 1 ELSE 0
           old == channel[c]
           new == channel'[c]
<1>1. /\ old \in Seq(Message) /\ new \in Seq(Message)
      /\ Moves(old, new, d, e, msg)
  BY DEF TypeOK, Delivers
<1>2. \A j \in 1 .. Len(old) : old[j] \in Message /\ Routed(c, old[j], assigned, accepted, learned)
  BY <1>1, SeqLen DEF RoutedInv
<1>3. e = 1 => Routed(c, msg, assigned', accepted', learned')
  OBVIOUS
<1> HIDE DEF d, e, old, new
<1>4. \/ i + d \in 1 .. Len(old) /\ new[i] = old[i + d]
      \/ e = 1 /\ new[i] = msg
  BY <1>1, MovesElements DEF new
<1>5. ASSUME NEW x \in Message, Routed(c, x, assigned, accepted, learned)
      PROVE  Routed(c, x, assigned', accepted', learned')
  <2>1. Len(assigned) \in Nat
    BY SeqLen DEF TypeOK
  <2>2. x.type \in {"accept", "commit"} => x.slot \in Nat
    BY DEF Message
  <2>3. x.type \in {"accept", "commit"} => x.slot < Len(assigned') /\ x.value = assigned'[x.slot + 1]
    BY <1>5, <2>1, <2>2, SMTT(30) DEF Routed
  <2> QED BY <1>5, <2>3 DEF Routed
<1>6. new[i] = channel'[c][i]
  BY DEF new
<1> QED
  BY <1>2, <1>3, <1>4, <1>5, <1>6

\* The same when the order and what acceptors and learners know stay.
LEMMA RoutedKept ==
  ASSUME TypeOK, RoutedInv, NEW D, NEW S, NEW msg, Delivers(D, S, msg),
         UNCHANGED <<assigned, accepted, learned>>,
         \A c \in S : Routed(c, msg, assigned, accepted, learned)
  PROVE  RoutedInv'
<1>1. Len(assigned) \in Nat
  BY SeqLen DEF TypeOK
<1> QED
  BY <1>1, RoutedStep

\* What Delivers says of one channel.
LEMMA DeliversMoves ==
  ASSUME TypeOK, NEW D, NEW S, NEW msg, Delivers(D, S, msg), NEW c \in Pair
  PROVE  /\ channel[c] \in Seq(Message) /\ channel'[c] \in Seq(Message)
         /\ Moves(channel[c], channel'[c], IF c \in D THEN 1 ELSE 0, IF c \in S THEN 1 ELSE 0, msg)
BY DEF TypeOK, Delivers

\* A type that is neither taken nor sent, on one channel.
LEMMA DeliversOther ==
  ASSUME TypeOK, NEW D, NEW S, NEW msg, Delivers(D, S, msg), NEW type, NEW c \in Pair,
         c \in D => Head(channel[c]).type # type, c \in S => msg.type # type
  PROVE  /\ \A s : About(channel'[c], type, s) <=> About(channel[c], type, s)
         /\ Increasing(channel[c], type) => Increasing(channel'[c], type)
<1> DEFINE d == IF c \in D THEN 1 ELSE 0
           e == IF c \in S THEN 1 ELSE 0
<1>1. /\ channel[c] \in Seq(Message) /\ channel'[c] \in Seq(Message)
      /\ Moves(channel[c], channel'[c], d, e, msg)
  BY DeliversMoves
<1>2. (d = 1 => Head(channel[c]).type # type) /\ (e = 1 => msg.type # type)
  OBVIOUS
<1> HIDE DEF d, e
<1> QED
  BY <1>1, <1>2, MovesOther

\* The accept requests of the acceptors.
LEMMA AcceptFrame ==
  ASSUME ConstantsOK, TypeOK, AcceptInv, NEW D, NEW S, NEW msg, Delivers(D, S, msg),
         \A c \in D : Head(channel[c]).type # "accept", S = {} \/ msg.type # "accept",
         accepted' = accepted, Len(assigned') = Len(assigned)
  PROVE  AcceptInv'
<1>1. \A a \in Acceptors : <<Leader, a>> \in Pair
  BY Members DEF Pair
<1>2. \A a \in Acceptors :
        /\ \A s : About(channel'[<<Leader, a>>], "accept", s) <=> About(channel[<<Leader, a>>], "accept", s)
        /\ Increasing(channel[<<Leader, a>>], "accept") => Increasing(channel'[<<Leader, a>>], "accept")
  BY <1>1, DeliversOther
<1> QED
  BY <1>2, Zenon DEF AcceptInv

\* The answers of the acceptors.
LEMMA AnswerFrame ==
  ASSUME ConstantsOK, TypeOK, AnswerInv, NEW D, NEW S, NEW msg, Delivers(D, S, msg),
         \A c \in D : Head(channel[c]).type # "accepted", S = {} \/ msg.type # "accepted",
         accepted' = accepted
  PROVE  AnswerInv' /\ \A s : Acked(s)' = Acked(s)
<1>1. \A a \in Acceptors : <<a, Leader>> \in Pair
  BY Members DEF Pair
<1>2. \A a \in Acceptors :
        /\ \A s : About(channel'[<<a, Leader>>], "accepted", s) <=> About(channel[<<a, Leader>>], "accepted", s)
        /\ Increasing(channel[<<a, Leader>>], "accepted") => Increasing(channel'[<<a, Leader>>], "accepted")
  BY <1>1, DeliversOther
<1>3. \A a \in Acceptors : \A s : Has(a, s)' <=> Has(a, s)
  BY <1>2 DEF Has
<1>4. \A s : Acked(s)' = Acked(s)
  BY <1>3 DEF Acked
<1> QED
  BY <1>2, <1>3, <1>4 DEF AnswerInv

\* What is counted of one channel.
LEMMA DeliversCount ==
  ASSUME TypeOK, NEW D, NEW S, NEW msg, Delivers(D, S, msg), NEW c \in Pair, NEW E
  PROVE  /\ Count(channel[c], E) \in Nat /\ Count(channel'[c], E) \in Nat
         /\ Count(channel'[c], E) = Count(channel[c], E)
              - (IF c \in D /\ Head(channel[c]) \in E THEN 1 ELSE 0) + (IF c \in S /\ msg \in E THEN 1 ELSE 0)
<1> DEFINE d == IF c \in D THEN 1 ELSE 0
           e == IF c \in S THEN 1 ELSE 0
<1>1. /\ channel[c] \in Seq(Message) /\ channel'[c] \in Seq(Message)
      /\ Moves(channel[c], channel'[c], d, e, msg)
  BY DeliversMoves
<1>2. /\ e = 1 => msg \in Message
      /\ d = 1 <=> c \in D
      /\ e = 1 <=> c \in S
  BY DEF Delivers
<1> HIDE DEF d, e
<1>3. /\ Count(channel[c], E) \in Nat /\ Count(channel'[c], E) \in Nat
      /\ Count(channel'[c], E) = Count(channel[c], E)
           - (IF d = 1 /\ Head(channel[c]) \in E THEN 1 ELSE 0) + (IF e = 1 /\ msg \in E THEN 1 ELSE 0)
  BY <1>1, <1>2, MovesCount
<1> QED
  BY <1>2, <1>3

\* The proposals on their way to the leader.
LEMMA ProposalFrame ==
  ASSUME ConstantsOK, TypeOK, ProposalInv, NEW D, NEW S, NEW msg, Delivers(D, S, msg),
         \A c \in D : Head(channel[c]).type # "propose", S = {} \/ msg.type # "propose",
         proposed' = proposed, assigned' = assigned
  PROVE  ProposalInv'
<1>1. \A v \in Machine : <<v, v>> \in Pair /\ <<v, Leader>> \in Pair
  BY Members DEF Pair
<1>2. ASSUME NEW v \in Machine, NEW c \in Pair
      PROVE  Count(channel'[c], ProposalsOf(v)) = Count(channel[c], ProposalsOf(v))
  <2> DEFINE E == ProposalsOf(v)
  <2>1. /\ c \in D => Head(channel[c]) \notin E
        /\ c \in S => msg \notin E
    BY DEF ProposalsOf
  <2> HIDE DEF E
  <2>2. /\ Count(channel[c], E) \in Nat
        /\ Count(channel'[c], E) = Count(channel[c], E)
              - (IF c \in D /\ Head(channel[c]) \in E THEN 1 ELSE 0) + (IF c \in S /\ msg \in E THEN 1 ELSE 0)
    BY DeliversCount
  <2>3. Count(channel'[c], E) = Count(channel[c], E)
    BY <2>1, <2>2
  <2> QED BY <2>3 DEF E
<1> QED
  BY <1>1, <1>2, Zenon DEF ProposalInv

\* What a learner was told.
LEMMA ToldFrame ==
  ASSUME ConstantsOK, TypeOK, NEW D, NEW S, NEW msg, Delivers(D, S, msg), NEW m \in Learners,
         <<Leader, m>> \in D => Head(channel[<<Leader, m>>]).type # "commit",
         <<Leader, m>> \in S => msg.type # "commit",
         learned'[m] = learned[m], \A i \in 1 .. Len(assigned) : assigned'[i] = assigned[i],
         NEW k \in 0 .. Len(assigned), ToldUpTo(m, k)
  PROVE  ToldUpTo(m, k)'
<1> DEFINE c == <<Leader, m>>
           d == IF c \in D THEN 1 ELSE 0
           e == IF c \in S THEN 1 ELSE 0
           old == channel[c]
           new == channel'[c]
           n == Cardinality(learned[m])
<1>0. c \in Pair
  BY Members DEF Pair
<1>1. /\ old \in Seq(Message) /\ new \in Seq(Message)
      /\ Moves(old, new, d, e, msg)
  <2> HIDE DEF c
  <2> QED BY <1>0, DeliversMoves
<1>2. /\ d = 1 => Head(old).type # "commit"
      /\ e = 1 => msg.type # "commit" /\ msg \in Message
  BY DEF Delivers
<1>3. /\ n \in Nat /\ n + Count(old, Commits) = k
      /\ learned[m] = {<<s, assigned[s + 1]>> : s \in 0 .. n - 1}
      /\ \A i \in 1 .. Len(old) : old[i].type = "commit" =>
           old[i].slot = n + Count(SubSeq(old, 1, i - 1), Commits)
  BY SMTT(30) DEF ToldUpTo
<1> HIDE DEF d, e, old, new, n
<1>4. d \in {0, 1} /\ Len(old) \in Nat /\ Len(new) \in Nat /\ Len(new) = Len(old) - d + e /\ e \in {0, 1}
  BY <1>1, SeqLen DEF Moves
<1>5. Count(new, Commits) = Count(old, Commits) /\ Count(old, Commits) \in Nat
  <2>1. /\ Count(old, Commits) \in Nat
        /\ Count(new, Commits) = Count(old, Commits)
             - (IF d = 1 /\ Head(old) \in Commits THEN 1 ELSE 0) + (IF e = 1 /\ msg \in Commits THEN 1 ELSE 0)
    BY <1>1, <1>2, MovesCount
  <2> QED BY <1>2, <2>1 DEF Commits
<1>6. ASSUME NEW i \in 1 .. Len(new), new[i].type = "commit"
      PROVE  new[i].slot = n + Count(SubSeq(new, 1, i - 1), Commits)
  <2>1. i + d \in 1 .. Len(old) /\ new[i] = old[i + d]
    BY <1>1, <1>2, <1>6, MovesElements
  <2>2. i - 1 \in 0 .. Len(old) - d
    BY <1>4, <2>1, SMTT(30)
  <2>3. Count(SubSeq(old, 1, (i - 1) + d), Commits) =
          Count(SubSeq(new, 1, i - 1), Commits) + IF d = 1 /\ Head(old) \in Commits THEN 1 ELSE 0
    BY <1>1, <2>2, MovesPrefix
  <2>4. SubSeq(new, 1, i - 1) \in Seq(Message)
    BY <1>1, <1>4, SeqLen, SeqPrefix, SMTT(30)
  <2>5. Count(SubSeq(new, 1, i - 1), Commits) \in Nat
    BY <2>4, CountType, Zenon
  <2>6. ~(d = 1 /\ Head(old) \in Commits)
    BY <1>2 DEF Commits
  <2>7. (i - 1) + d = (i + d) - 1
    BY <1>4
  <2>8. new[i].slot = n + Count(SubSeq(old, 1, (i + d) - 1), Commits)
    BY <1>3, <1>6, <2>1, SMTT(30)
  <2> DEFINE x == Count(SubSeq(new, 1, i - 1), Commits)
             y == Count(SubSeq(old, 1, (i - 1) + d), Commits)
  <2>9. new[i].slot = n + y
    BY <2>7, <2>8
  <2>10. y = x + IF d = 1 /\ Head(old) \in Commits THEN 1 ELSE 0
    BY <2>3
  <2>11. x \in Nat
    BY <2>5
  <2> HIDE DEF x, y
  <2>12. new[i].slot = n + x
    BY <2>6, <2>9, <2>10, <2>11
  <2> QED BY <2>12 DEF x
<1>7. learned[m] = {<<s, assigned'[s + 1]>> : s \in 0 .. n - 1}
  <2>1. Len(assigned) \in Nat
    BY SeqLen DEF TypeOK
  <2>2. \A s \in 0 .. n - 1 : s + 1 \in 1 .. Len(assigned)
    BY <1>3, <1>5, <2>1
  <2>3. \A s \in 0 .. n - 1 : assigned'[s + 1] = assigned[s + 1]
    BY <2>2
  <2> QED BY <1>3, <2>3, SMTT(30)
<1> QED
  BY <1>3, <1>5, <1>6, <1>7, Zenon DEF ToldUpTo, new, n

\* What all learners were told.
LEMMA TellsNothing ==
  ASSUME ConstantsOK, TypeOK, NEW D, NEW S, NEW msg, Delivers(D, S, msg),
         \A c \in D : Head(channel[c]).type # "commit", S = {} \/ msg.type # "commit",
         learned' = learned, \A i \in 1 .. Len(assigned) : assigned'[i] = assigned[i],
         NEW k \in 0 .. Len(assigned), \A l \in Learners : ToldUpTo(l, k)
  PROVE  \A l \in Learners : ToldUpTo(l, k)'
<1> SUFFICES ASSUME NEW l \in Learners PROVE ToldUpTo(l, k)'
  OBVIOUS
<1>1. /\ <<Leader, l>> \in D => Head(channel[<<Leader, l>>]).type # "commit"
      /\ <<Leader, l>> \in S => msg.type # "commit"
      /\ ToldUpTo(l, k)
      /\ learned'[l] = learned[l]
  OBVIOUS
<1> QED
  BY <1>1, ToldFrame

\* A learner that is told the next slot.
LEMMA ToldSend ==
  ASSUME ConstantsOK, TypeOK, NEW D, NEW S, NEW msg, Delivers(D, S, msg), NEW m \in Learners,
         <<Leader, m>> \in D => Head(channel[<<Leader, m>>]).type # "commit",
         NEW k \in Nat, <<Leader, m>> \in S, msg.type = "commit", msg.slot = k,
         learned' = learned, assigned' = assigned, ToldUpTo(m, k)
  PROVE  ToldUpTo(m, k + 1)'
<1> DEFINE c == <<Leader, m>>
           d == IF c \in D THEN 1 ELSE 0
           old == channel[c]
           new == channel'[c]
           n == Cardinality(learned[m])
<1>0. c \in Pair
  BY Members DEF Pair
<1>1. /\ old \in Seq(Message) /\ new \in Seq(Message)
      /\ Moves(old, new, d, 1, msg)
  <2>1. c \in S
    OBVIOUS
  <2> HIDE DEF c
  <2> QED BY <1>0, <2>1, DeliversMoves
<1>2. /\ d = 1 => Head(old).type # "commit"
      /\ msg \in Message
  BY DEF Delivers
<1>3. /\ n \in Nat /\ n + Count(old, Commits) = k
      /\ learned[m] = {<<s, assigned[s + 1]>> : s \in 0 .. n - 1}
      /\ \A i \in 1 .. Len(old) : old[i].type = "commit" =>
           old[i].slot = n + Count(SubSeq(old, 1, i - 1), Commits)
  BY Zenon DEF ToldUpTo
<1> HIDE DEF d, old, new, n
<1>4. d \in {0, 1} /\ Len(old) \in Nat /\ Len(new) \in Nat /\ Len(new) = Len(old) - d + 1 /\ d <= Len(old)
  BY <1>1, SeqLen DEF Moves
<1>5. Count(new, Commits) = Count(old, Commits) + 1 /\ Count(old, Commits) \in Nat
  <2>1. /\ Count(old, Commits) \in Nat
        /\ Count(new, Commits) = Count(old, Commits)
             - (IF d = 1 /\ Head(old) \in Commits THEN 1 ELSE 0) + (IF 1 = 1 /\ msg \in Commits THEN 1 ELSE 0)
    BY <1>1, <1>2, MovesCount
  <2> QED BY <1>2, <2>1 DEF Commits
<1>6. ASSUME NEW i \in 1 .. Len(new), new[i].type = "commit"
      PROVE  new[i].slot = n + Count(SubSeq(new, 1, i - 1), Commits)
  <2>1. i - 1 \in 0 .. Len(old) - d
    BY <1>4
  <2>2. Count(SubSeq(old, 1, (i - 1) + d), Commits) =
          Count(SubSeq(new, 1, i - 1), Commits) + IF d = 1 /\ Head(old) \in Commits THEN 1 ELSE 0
    BY <1>1, <2>1, MovesPrefix
  <2>3. SubSeq(new, 1, i - 1) \in Seq(Message)
    BY <1>1, <1>4, SeqLen, SeqPrefix
  <2>4. Count(SubSeq(new, 1, i - 1), Commits) \in Nat
    BY <2>3, CountType, Zenon
  <2>5. ~(d = 1 /\ Head(old) \in Commits)
    BY <1>2 DEF Commits
  <2> DEFINE x == Count(SubSeq(new, 1, i - 1), Commits)
             y == Count(SubSeq(old, 1, (i - 1) + d), Commits)
  <2>6. y = x + IF d = 1 /\ Head(old) \in Commits THEN 1 ELSE 0
    BY <2>2
  <2>7. x \in Nat
    BY <2>4
  <2>8. new[i].slot = n + y
    <3>1. CASE i + d \in 1 .. Len(old) /\ new[i] = old[i + d]
      <4>1. (i - 1) + d = (i + d) - 1
        BY <1>4
      <4>2. new[i].slot = n + Count(SubSeq(old, 1, (i + d) - 1), Commits)
        BY <1>3, <1>6, <3>1
      <4> QED BY <4>1, <4>2
    <3>2. CASE i = Len(new) /\ new[i] = msg
      <4>1. (i - 1) + d = Len(old)
        BY <1>4, <3>2
      <4>2. SubSeq(old, 1, (i - 1) + d) = old
        BY <1>1, <4>1, SeqPrefix
      <4>3. y = Count(old, Commits)
        BY <4>2, Zenon
      <4> HIDE DEF y
      <4> QED BY <1>3, <3>2, <4>3
    <3> QED BY <1>1, <3>1, <3>2, MovesElements, SMTT(30)
  <2> HIDE DEF x, y
  <2>9. new[i].slot = n + x
    BY <2>5, <2>6, <2>7, <2>8
  <2> QED BY <2>9 DEF x
<1>7. n + Count(new, Commits) = k + 1
  BY <1>3, <1>5
<1> QED
  BY <1>3, <1>6, <1>7, Zenon DEF ToldUpTo, new, n

\* A learner that learns the next slot.
LEMMA ToldTake ==
  ASSUME ConstantsOK, TypeOK, NEW D, NEW S, NEW msg, Delivers(D, S, msg), NEW m \in Learners,
         <<Leader, m>> \in D, Head(channel[<<Leader, m>>]).type = "commit",
         Head(channel[<<Leader, m>>]).value = assigned[Head(channel[<<Leader, m>>]).slot + 1],
         <<Leader, m>> \in S => msg.type # "commit",
         learned'[m] = learned[m] \cup {<<Head(channel[<<Leader, m>>]).slot, Head(channel[<<Leader, m>>]).value>>},
         assigned' = assigned, NEW k \in Nat, ToldUpTo(m, k)
  PROVE  ToldUpTo(m, k)' /\ HeadIsNext(m)
<1> DEFINE c == <<Leader, m>>
           e == IF c \in S THEN 1 ELSE 0
           old == channel[c]
           new == channel'[c]
           n == Cardinality(learned[m])
<1>0. c \in Pair
  BY Members DEF Pair
<1>1. /\ old \in Seq(Message) /\ new \in Seq(Message)
      /\ Moves(old, new, 1, e, msg)
  <2>1. c \in D
    OBVIOUS
  <2> HIDE DEF c
  <2> QED BY <1>0, <2>1, DeliversMoves
<1>2. /\ Head(old).type = "commit"
      /\ e = 1 => msg.type # "commit" /\ msg \in Message
  BY DEF Delivers
<1>3. /\ n \in Nat /\ n + Count(old, Commits) = k
      /\ learned[m] = {<<s, assigned[s + 1]>> : s \in 0 .. n - 1}
      /\ \A i \in 1 .. Len(old) : old[i].type = "commit" =>
           old[i].slot = n + Count(SubSeq(old, 1, i - 1), Commits)
  BY Zenon DEF ToldUpTo
<1>3a. /\ Head(old).value = assigned[Head(old).slot + 1]
       /\ learned'[m] = learned[m] \cup {<<Head(old).slot, Head(old).value>>}
  OBVIOUS
<1> HIDE DEF e, old, new, n
<1>4. /\ e \in {0, 1} /\ Len(old) \in Nat \ {0} /\ Len(new) \in Nat /\ Len(new) = Len(old) - 1 + e
      /\ Head(old) = old[1] /\ old[1] \in Message
  BY <1>1, SeqLen DEF Moves
<1>4a. Head(old) \in Commits
  BY <1>2, <1>4 DEF Commits
<1>5. Count(old, Commits) = Count(new, Commits) + 1 /\ Count(new, Commits) \in Nat
  <2>1. /\ Count(old, Commits) \in Nat /\ Count(new, Commits) \in Nat
        /\ Count(new, Commits) = Count(old, Commits)
             - (IF 1 = 1 /\ Head(old) \in Commits THEN 1 ELSE 0) + (IF e = 1 /\ msg \in Commits THEN 1 ELSE 0)
    BY <1>1, <1>2, MovesCount
  <2>2. ~(e = 1 /\ msg \in Commits)
    BY <1>2 DEF Commits
  <2> QED BY <1>4a, <2>1, <2>2
<1>6. Head(old).slot = n
  <2>1. Head(old).slot = n + Count(SubSeq(old, 1, 1 - 1), Commits)
    BY <1>2, <1>3, <1>4
  <2>2. Count(SubSeq(old, 1, 1 - 1), Commits) = 0
    <3>1. SubSeq(old, 1, 0) \in Seq(Message) /\ Len(SubSeq(old, 1, 0)) = 0
      BY <1>1, SeqPrefix
    <3>2. {i \in 1 .. Len(SubSeq(old, 1, 0)) : SubSeq(old, 1, 0)[i] \in Commits} = {}
      BY <3>1
    <3> QED BY <3>2, FS_EmptySet DEF Count
  <2> QED BY <1>3, <2>1, <2>2
<1>7. learned'[m] = {<<s, assigned[s + 1]>> : s \in 0 .. (n + 1) - 1}
  <2>1. learned'[m] = {<<s, assigned[s + 1]>> : s \in 0 .. n - 1} \cup {<<n, assigned[n + 1]>>}
    BY <1>3, <1>3a, <1>6
  <2>2. 0 .. (n + 1) - 1 = (0 .. n - 1) \cup {n}
    BY <1>3
  <2> QED BY <2>1, <2>2
<1>8. Cardinality(learned'[m]) = n + 1
  <2>1. <<n, assigned[n + 1]>> \notin learned[m]
    BY <1>3
  <2>2. IsFiniteSet(learned[m])
    <3> DEFINE f == [s \in 0 .. n - 1 |-> <<s, assigned[s + 1]>>]
    <3>1. f \in [0 .. n - 1 -> learned[m]] /\ \A x \in learned[m] : \E s \in 0 .. n - 1 : f[s] = x
      BY <1>3
    <3> HIDE DEF f
    <3>2. f \in Surjection(0 .. n - 1, learned[m])
      BY <3>1, OntoIsSurjection, Zenon
    <3>3. IsFiniteSet(0 .. n - 1)
      <4>1. 0 \in Int /\ n - 1 \in Int
        BY <1>3
      <4> QED BY <4>1, FS_Interval, Zenon
    <3> QED BY <3>2, <3>3, FS_Surjection
  <2>3. learned'[m] = learned[m] \cup {<<n, assigned[n + 1]>>}
    BY <1>3a, <1>6
  <2>4. Cardinality(learned[m] \cup {<<n, assigned[n + 1]>>}) = Cardinality(learned[m]) + 1
    BY <2>1, <2>2, FS_AddElement, Zenon
  <2> QED BY <2>3, <2>4, Zenon DEF n
<1>9. ASSUME NEW i \in 1 .. Len(new), new[i].type = "commit"
      PROVE  new[i].slot = (n + 1) + Count(SubSeq(new, 1, i - 1), Commits)
  <2>1. i + 1 \in 1 .. Len(old) /\ new[i] = old[i + 1]
    BY <1>1, <1>2, <1>9, MovesElements
  <2> DEFINE j == i - 1
             x == Count(SubSeq(new, 1, j), Commits)
             y == Count(SubSeq(old, 1, j + 1), Commits)
  <2>2. j \in 0 .. Len(old) - 1 /\ j \in 0 .. Len(new) /\ j + 1 = (i + 1) - 1
    BY <1>4, <2>1
  <2>3. new[i].slot = n + Count(SubSeq(old, 1, (i + 1) - 1), Commits)
    BY <1>3, <1>9, <2>1, SMTT(30)
  <2>4. new[i].slot = n + y
    BY <2>2, <2>3
  <2> HIDE DEF j
  <2>5. y = x + IF 1 = 1 /\ Head(old) \in Commits THEN 1 ELSE 0
    BY <1>1, <2>2, MovesPrefix, SMTT(30)
  <2>6. SubSeq(new, 1, j) \in Seq(Message)
    BY <1>1, <1>4, <2>2, SeqLen, SeqPrefix
  <2>7. x \in Nat
    BY <2>6, CountType, Zenon
  <2> HIDE DEF x, y
  <2>8. new[i].slot = (n + 1) + x
    BY <1>3, <1>4a, <2>4, <2>5, <2>7
  <2> QED BY <2>8 DEF x, j
<1>10. (n + 1) + Count(new, Commits) = k
  BY <1>3, <1>5
<1>11. ToldUpTo(m, k)'
  <2>1. n + 1 \in Nat
    BY <1>3
  <2> QED BY <1>7, <1>8, <1>9, <1>10, <2>1, Zenon DEF ToldUpTo, new
<1> QED
  BY <1>6, <1>11 DEF HeadIsNext, old, n

-----------------------------------------------------------------------------
(* The actions *)

\* The message a handler takes.
LEMMA HeadMessage ==
  ASSUME TypeOK, RoutedInv, NEW from \in Machine, NEW m \in Machine, NEW type, Receives(from, m, type)
  PROVE  /\ <<from, m>> \in Pair /\ channel[<<from, m>>] # << >>
         /\ Head(channel[<<from, m>>]) \in Message /\ Head(channel[<<from, m>>]).type = type
         /\ type = "propose" => Head(channel[<<from, m>>]).value = from /\ m \in {from, Leader}
         /\ type \in {"accept", "commit"} =>
              /\ from = Leader /\ Head(channel[<<from, m>>]).slot < Len(assigned)
              /\ Head(channel[<<from, m>>]).value = assigned[Head(channel[<<from, m>>]).slot + 1]
         /\ type = "accept" => m \in Acceptors
         /\ type = "commit" => m \in Learners
         /\ type \in {"accepted", "committed"} => m = Leader
         /\ type = "accepted" => from \in Acceptors /\ Head(channel[<<from, m>>]).slot \in accepted[from]
         /\ type = "committed" => from \in Learners /\ learned[from] # {}
<1> DEFINE c == <<from, m>>
<1>1. c \in Pair /\ channel[c] # << >> /\ Head(channel[c]).type = type
  BY DEF Pair, Receives
<1> HIDE DEF c
<1>2. channel[c] \in Seq(Message)
  BY <1>1 DEF TypeOK
<1>3. Len(channel[c]) \in Nat \ {0} /\ Head(channel[c]) = channel[c][1]
  BY <1>1, <1>2, SeqEmpty, SeqLen
<1>4. Head(channel[c]) \in Message
  BY <1>2, <1>3, SeqLen
<1>5. Routed(c, Head(channel[c]), assigned, accepted, learned)
  BY <1>1, <1>3 DEF RoutedInv
<1>6. c[1] = from /\ c[2] = m
  BY DEF c
<1> QED
  BY <1>1, <1>4, <1>5, <1>6 DEF Routed, c

\* The channels a handler sends on.
Links(m, T) == {c \in Pair : c[1] = m /\ c[2] \in T}

\* A handler takes one message and sends one to each machine of T.
LEMMA HandlerDelivers ==
  ASSUME TypeOK, NEW from \in Machine, NEW m \in Machine, channel[<<from, m>>] # << >>,
         NEW T, NEW msg, T = {} \/ msg \in Message, channel' = TakeAndSend(from, m, T, msg)
  PROVE  Delivers({<<from, m>>}, Links(m, T), msg)
<1>1. /\ TakeAndSend(from, m, T, msg) \in [Pair -> Seq(Message)]
      /\ \A c \in Pair : Moves(channel[c], TakeAndSend(from, m, T, msg)[c], Taken(from, m, c),
                               Sent(m, T, c), msg)
  BY TakeAndSendMoves DEF TypeOK
<1>2. \A c \in Pair : /\ Taken(from, m, c) = IF c \in {<<from, m>>} THEN 1 ELSE 0
                      /\ Sent(m, T, c) = IF c \in Links(m, T) THEN 1 ELSE 0
  BY DEF Taken, Sent, Links
<1>3. T = {} => Links(m, T) = {}
  BY DEF Links
<1> QED
  BY <1>1, <1>2, <1>3 DEF Delivers

\* Making a proposal.
LEMMA ProposeStep ==
  ASSUME IInv, NEW m \in Machine, Propose(m)
  PROVE  IInv'
<1> DEFINE D == {}
           S == {<<m, m>>}
           msg == [type |-> "propose", value |-> m]
<1>0. ConstantsOK /\ TypeOK /\ RoutedInv /\ ProposalInv /\ InstanceInv /\ AcceptInv /\ AnswerInv
        /\ CountInv /\ CommitInv
  BY DEF IInv
<1>1. /\ proposed' = [proposed EXCEPT ![m] = @ + 1]
      /\ channel' = [channel EXCEPT ![<<m, m>>] = Append(@, msg)]
      /\ UNCHANGED <<next_empty_slot, instances, learned, assigned, accepted>>
  BY DEF Propose
<1>2. msg \in Message /\ <<m, m>> \in Pair
  BY DEF Message, Pair
<1>3. Delivers(D, S, msg)
  <2>1. channel' \in [Pair -> Seq(Message)]
    <3>1. channel \in [Pair -> Seq(Message)]
      BY <1>0 DEF TypeOK
    <3>2. Append(channel[<<m, m>>], msg) \in Seq(Message)
      BY <1>2, <3>1, SeqAppend
    <3> HIDE DEF msg
    <3> QED BY <1>1, <1>2, <3>1, <3>2
  <2>2. ASSUME NEW c \in Pair
        PROVE  Moves(channel[c], channel'[c], 0, IF c \in S THEN 1 ELSE 0, msg)
    <3>1. channel[c] \in Seq(Message) /\ Len(channel[c]) \in Nat
      BY <1>0, SeqLen DEF TypeOK
    <3> HIDE DEF msg
    <3>2. channel'[c] = IF c \in S THEN Append(channel[c], msg) ELSE channel[c]
      BY <1>0, <1>1, Zenon DEF TypeOK
    <3>3. CASE c \in S
      BY <1>2, <3>1, <3>2, <3>3, SeqAppend DEF Moves
    <3>4. CASE c \notin S
      <4> DEFINE old == channel[c]
      <4>1. channel'[c] = old /\ Len(old) \in Nat /\ \A i \in 1 .. Len(old) : i + 0 = i
        BY <3>1, <3>2, <3>4
      <4> HIDE DEF old
      <4>2. Moves(old, old, 0, 0, msg)
        BY <4>1 DEF Moves
      <4> QED BY <3>4, <4>1, <4>2 DEF old
    <3> QED BY <3>3, <3>4
  <2> QED BY <1>2, <2>1, <2>2 DEF Delivers
<1>4. msg.type = "propose" /\ msg.value = m /\ msg \in ProposalsOf(m)
      /\ \A v \in Machine : v # m => msg \notin ProposalsOf(v)
  BY DEF ProposalsOf
<1> HIDE DEF msg
<1>5. TypeOK'
  BY <1>0, <1>1, <1>3 DEF TypeOK, Delivers
<1>6. RoutedInv'
  <2>1. Routed(<<m, m>>, msg, assigned, accepted, learned)
    BY <1>4 DEF Routed
  <2> QED BY <1>0, <1>1, <1>3, <2>1, RoutedKept
<1>7. ProposalInv'
  <2> SUFFICES ASSUME NEW v \in Machine
               PROVE  proposed'[v] = Count(assigned', {v}) + Count(channel'[<<v, v>>], ProposalsOf(v))
                        + IF v = Leader THEN 0 ELSE Count(channel'[<<v, Leader>>], ProposalsOf(v))
    BY Zenon DEF ProposalInv
  <2>1. <<v, v>> \in Pair /\ <<v, Leader>> \in Pair /\ Leader \in Machine
    BY <1>0, Members DEF Pair
  <2> DEFINE a == Count(assigned, {v})
             x(c) == Count(channel[c], ProposalsOf(v))
             y(c) == Count(channel'[c], ProposalsOf(v))
  <2>2. \A c \in Pair : x(c) \in Nat /\ y(c) = x(c) + IF c = <<m, m>> /\ v = m THEN 1 ELSE 0
    <3> SUFFICES ASSUME NEW c \in Pair
                 PROVE  x(c) \in Nat /\ y(c) = x(c) + IF c = <<m, m>> /\ v = m THEN 1 ELSE 0
      OBVIOUS
    <3> DEFINE E == ProposalsOf(v)
    <3>1. c \in S /\ msg \in E <=> c = <<m, m>> /\ v = m
      BY <1>4
    <3> HIDE DEF E
    <3>2. /\ Count(channel[c], E) \in Nat
          /\ Count(channel'[c], E) = Count(channel[c], E)
               - (IF c \in D /\ Head(channel[c]) \in E THEN 1 ELSE 0) + (IF c \in S /\ msg \in E THEN 1 ELSE 0)
      BY <1>0, <1>3, DeliversCount
    <3>3. Count(channel'[c], E) = Count(channel[c], E) + IF c = <<m, m>> /\ v = m THEN 1 ELSE 0
      BY <3>1, <3>2
    <3> QED BY <3>2, <3>3 DEF E
  <2>3. a \in Nat
    BY <1>0, CountType, Zenon DEF TypeOK
  <2>4. proposed[v] = a + x(<<v, v>>) + IF v = Leader THEN 0 ELSE x(<<v, Leader>>)
    BY <1>0 DEF ProposalInv
  <2>5. proposed'[v] = proposed[v] + IF v = m THEN 1 ELSE 0
    BY <1>0, <1>1 DEF TypeOK
  <2> HIDE DEF a, x, y
  <2>6. v # Leader => <<v, Leader>> # <<m, m>> \/ v # m
    OBVIOUS
  <2>7. proposed'[v] = a + y(<<v, v>>) + IF v = Leader THEN 0 ELSE y(<<v, Leader>>)
    BY <2>1, <2>2, <2>3, <2>4, <2>5, <2>6
  <2> QED BY <1>1, <2>7 DEF a, y
<1>8. AcceptInv'
  BY <1>0, <1>1, <1>3, <1>4, AcceptFrame
<1>9. AnswerInv' /\ \A s : Acked(s)' = Acked(s)
  BY <1>0, <1>1, <1>3, <1>4, AnswerFrame
<1>10. CommitInv'
  <2>1. PICK k \in 0 .. Len(assigned) : CommittedUpTo(k) /\ \A l \in Learners : ToldUpTo(l, k)
    BY <1>0 DEF CommitInv
  <2>2. \A l \in Learners : ToldUpTo(l, k)'
    BY <1>0, <1>1, <1>3, <1>4, <2>1, TellsNothing
  <2>3. CommittedUpTo(k)'
    BY <1>1, <1>9, <2>1 DEF CommittedUpTo
  <2> QED BY <1>1, <2>2, <2>3 DEF CommitInv
<1>11. InstanceInv' /\ CountInv' /\ ConstantsOK'
  BY <1>0, <1>1, <1>9 DEF InstanceInv, CountInv, ConstantsOK
<1> QED
  BY <1>5, <1>6, <1>7, <1>8, <1>9, <1>10, <1>11 DEF IInv

\* What a sequence of values counts after one more.
LEMMA OrderCount ==
  ASSUME TypeOK, NEW w \in Machine, assigned' = Append(assigned, w), NEW v \in Machine
  PROVE  /\ Count(assigned, {v}) \in Nat
         /\ Count(assigned', {v}) = Count(assigned, {v}) + IF w = v THEN 1 ELSE 0
<1>1. assigned \in Seq(Machine)
  BY DEF TypeOK
<1>2. Count(assigned, {v}) \in Nat
  BY <1>1, CountType, Zenon
<1>3. Count(Append(assigned, w), {v}) = Count(assigned, {v}) + IF w \in {v} THEN 1 ELSE 0
  BY <1>1, CountAppend
<1> QED
  BY <1>2, <1>3

\* The leader starting an instance.
LEMMA StartStep ==
  ASSUME IInv, NEW from \in Machine, HandlePropose(from, Leader)
  PROVE  IInv'
<1> DEFINE D == {<<from, Leader>>}
           S == Links(Leader, Acceptors)
           hd == Head(channel[<<from, Leader>>])
           slot == next_empty_slot[Leader]
           msg == [type |-> "accept", slot |-> slot, value |-> from]
           new == [value |-> from, num_accepts |-> 0, num_commits |-> 0]
<1>0. ConstantsOK /\ TypeOK /\ RoutedInv /\ ProposalInv /\ InstanceInv /\ AcceptInv /\ AnswerInv
        /\ CountInv /\ CommitInv
  BY DEF IInv
<1>1. Leader \in Machine /\ Acceptors \subseteq Machine
  BY <1>0, Members
<1>2. /\ <<from, Leader>> \in Pair /\ channel[<<from, Leader>>] # << >>
      /\ hd \in Message /\ hd.type = "propose" /\ hd.value = from
  <2>1. Receives(from, Leader, "propose")
    BY DEF HandlePropose
  <2> QED BY <1>0, <1>1, <2>1, HeadMessage
<1>3. /\ instances' = [s \in DOMAIN instances \cup {slot} |-> IF s = slot THEN new ELSE instances[s]]
      /\ next_empty_slot' = [next_empty_slot EXCEPT ![Leader] = @ + 1]
      /\ assigned' = Append(assigned, from)
      /\ channel' = TakeAndSend(from, Leader, Acceptors, msg)
      /\ UNCHANGED <<proposed, learned, accepted>>
  BY <1>2 DEF HandlePropose
<1>4. slot = Len(assigned) /\ slot \in Nat
  BY <1>0, <1>1 DEF InstanceInv, TypeOK
<1>5. msg \in Message /\ msg.type = "accept" /\ msg.slot = slot /\ msg.value = from
  BY <1>4 DEF Message
<1>6. Delivers(D, S, msg)
  <2> HIDE DEF msg
  <2> QED BY <1>0, <1>1, <1>2, <1>3, <1>5, HandlerDelivers
<1>7. /\ assigned' \in Seq(Machine) /\ Len(assigned') = slot + 1
      /\ \A i \in 1 .. Len(assigned) : assigned'[i] = assigned[i]
      /\ assigned'[slot + 1] = from
  BY <1>0, <1>3, <1>4, SeqAppend DEF TypeOK
<1>8. /\ DOMAIN instances' = DOMAIN instances \cup {slot}
      /\ instances' = [s \in DOMAIN instances' |-> instances'[s]]
      /\ \A s \in DOMAIN instances : instances'[s] = instances[s]
      /\ instances'[slot] = new
  <2>1. slot \notin DOMAIN instances
    BY <1>0, <1>4 DEF InstanceInv
  <2> HIDE DEF slot, new
  <2> QED BY <1>3, <2>1
<1>9. hd = [type |-> "propose", value |-> from]
  BY <1>2 DEF Message
<1>10. new \in Instance /\ new.value = from /\ new.num_accepts = 0
  BY DEF Instance
<1> HIDE DEF msg, hd, slot, new
<1>11. TypeOK'
  BY <1>0, <1>1, <1>3, <1>4, <1>6, <1>7, <1>8, <1>10, SMTT(30) DEF TypeOK, Delivers
<1>12. RoutedInv'
  <2>1. ASSUME NEW c \in S PROVE Routed(c, msg, assigned', accepted', learned')
    BY <1>4, <1>5, <1>7, SMTT(30) DEF Routed, Links
  <2>2. Len(assigned') \in Nat /\ Len(assigned) <= Len(assigned')
    BY <1>4, <1>7
  <2>3. \A i \in 1 .. Len(assigned) : assigned'[i] = assigned[i]
    BY <1>7
  <2>4. accepted' = accepted /\ learned' = learned
    BY <1>3
  <2>5. /\ \A a \in Acceptors : accepted[a] \subseteq accepted'[a]
        /\ \A l \in Learners : learned[l] # {} => learned'[l] # {}
    BY <2>4
  <2> HIDE DEF S, D
  <2> QED BY <1>0, <1>6, <2>1, <2>2, <2>3, <2>5, RoutedStep, ZenonT(40)
<1>13. InstanceInv'
  BY <1>0, <1>1, <1>3, <1>4, <1>7, <1>8, <1>10, SMTT(30) DEF InstanceInv, TypeOK
<1>14. AnswerInv' /\ \A s : Acked(s)' = Acked(s)
  <2>1. \A c \in D : Head(channel[c]).type # "accepted"
    BY <1>2 DEF hd
  <2>2. msg.type # "accepted" /\ accepted' = accepted
    BY <1>3, <1>5
  <2> HIDE DEF D, S
  <2> QED BY <1>0, <1>6, <2>1, <2>2, AnswerFrame
<1>15. \A s : s \in Nat /\ s >= slot => Acked(s) = {}
  <2>1. \A a \in Acceptors : \A s \in accepted[a] : s < slot
    <3>1. \A a \in Acceptors : accepted[a] \subseteq 0 .. slot - 1
      BY <1>0, <1>4, Zenon DEF AcceptInv
    <3> QED BY <1>4, <3>1
  <2>2. \A s \in Nat : s >= slot => \A a \in Acceptors : s \notin accepted[a]
    BY <1>4, <2>1
  <2> QED BY <2>2 DEF Acked, Has
<1>16. CountInv'
  <2> SUFFICES ASSUME NEW s \in DOMAIN instances'
               PROVE  instances'[s].num_accepts = Cardinality(Acked(s))
    BY <1>14 DEF CountInv
  <2>1. CASE s \in DOMAIN instances
    BY <1>0, <1>8, <2>1 DEF CountInv
  <2>2. CASE s = slot
    <3>1. Acked(s) = {} /\ Cardinality({}) = 0
      <4>1. Acked(s) = {}
        BY <1>4, <1>15, <2>2
      <4> QED BY <4>1, FS_EmptySet
    <3> QED BY <1>8, <1>10, <2>2, <3>1
  <2> QED BY <1>8, <2>1, <2>2
<1>17. CommitInv'
  <2>1. PICK k \in 0 .. Len(assigned) : CommittedUpTo(k) /\ \A l \in Learners : ToldUpTo(l, k)
    BY <1>0 DEF CommitInv
  <2>2. \A l \in Learners : ToldUpTo(l, k)'
    <3>1. \A c \in D : Head(channel[c]).type # "commit"
      BY <1>2 DEF hd
    <3> HIDE DEF D, S
    <3> QED BY <1>0, <1>3, <1>5, <1>6, <1>7, <2>1, <3>1, TellsNothing, Zenon
  <2>3. CommittedUpTo(k)'
    <3> SUFFICES ASSUME NEW s \in 0 .. slot
                 PROVE  /\ s < k <=> Cardinality(Acked(s)) >= Majority
                        /\ s >= k => s \in DOMAIN instances'
      BY <1>4, <1>7, <1>14 DEF CommittedUpTo
    <3>1. CASE s < slot
      BY <1>4, <1>8, <2>1, <3>1 DEF CommittedUpTo
    <3>2. CASE s = slot
      <4>1. Acked(s) = {} /\ Cardinality({}) = 0
        <5>1. Acked(s) = {}
          BY <1>4, <1>15, <3>2
        <5> QED BY <5>1, FS_EmptySet
      <4> QED BY <1>0, <1>4, <1>8, <3>2, <4>1, Members
    <3> QED BY <1>4, <3>1, <3>2
  <2> QED BY <1>4, <1>7, <2>2, <2>3 DEF CommitInv
<1>18. AcceptInv'
  <2> SUFFICES ASSUME NEW a \in Acceptors
               PROVE  /\ Increasing(channel'[<<Leader, a>>], "accept")
                      /\ \A s \in Nat : About(channel'[<<Leader, a>>], "accept", s) =>
                           \A t \in accepted'[a] : t < s
                      /\ accepted'[a] \subseteq 0 .. Len(assigned') - 1
                      /\ \A s \in 0 .. Len(assigned') - 1 :
                           s \in accepted'[a] \/ About(channel'[<<Leader, a>>], "accept", s)
    BY DEF AcceptInv
  <2> DEFINE c == <<Leader, a>>
             d == IF c \in D THEN 1 ELSE 0
             old == channel[c]
             now == channel'[c]
  <2>1. c \in Pair /\ c \in S
    BY <1>1 DEF Pair, Links
  <2>2. old \in Seq(Message) /\ now \in Seq(Message) /\ Moves(old, now, d, 1, msg)
    <3> HIDE DEF c, S
    <3> QED BY <1>0, <1>6, <2>1, DeliversMoves
  <2>3. d = 1 => Head(old).type # "accept"
    BY <1>2, SMTT(30) DEF hd
  <2>4. /\ Increasing(old, "accept")
        /\ \A s \in Nat : About(old, "accept", s) => \A t \in accepted[a] : t < s
        /\ accepted[a] \subseteq 0 .. slot - 1
        /\ \A s \in 0 .. slot - 1 : s \in accepted[a] \/ About(old, "accept", s)
    BY <1>0, <1>4 DEF AcceptInv
  <2>5. \A s : About(old, "accept", s) => s < msg.slot
    BY <1>0, <1>4, <1>5, <2>1 DEF About, RoutedInv, Routed
  <2> HIDE DEF d, old, now
  <2>6. Increasing(now, "accept") /\ \A s : About(now, "accept", s) <=> About(old, "accept", s) \/ s = slot
    BY <1>5, <2>2, <2>3, <2>4, <2>5, MovesSend, Zenon
  <2>7. \A s \in Nat : About(now, "accept", s) => \A t \in accepted[a] : t < s
    BY <1>4, <2>4, <2>6
  <2>8. \A s \in 0 .. slot : s \in accepted[a] \/ About(now, "accept", s)
    BY <1>4, <2>4, <2>6
  <2>9. accepted'[a] = accepted[a] /\ Len(assigned') - 1 = slot /\ accepted[a] \subseteq 0 .. slot
    <3>1. accepted'[a] = accepted[a] /\ Len(assigned') - 1 = slot
      BY <1>3, <1>4, <1>7
    <3>2. accepted[a] \subseteq 0 .. slot
      BY <1>4, <2>4
    <3> QED BY <3>1, <3>2, Zenon
  <2> QED BY <2>6, <2>7, <2>8, <2>9, SMTT(30) DEF now
<1>19. ProposalInv'
  <2> SUFFICES ASSUME NEW v \in Machine
               PROVE  proposed'[v] = Count(assigned', {v}) + Count(channel'[<<v, v>>], ProposalsOf(v))
                        + IF v = Leader THEN 0 ELSE Count(channel'[<<v, Leader>>], ProposalsOf(v))
    BY Zenon DEF ProposalInv
  <2>1. <<v, v>> \in Pair /\ <<v, Leader>> \in Pair
    BY <1>1 DEF Pair
  <2> DEFINE a == Count(assigned, {v})
             b == Count(assigned', {v})
             x(c) == Count(channel[c], ProposalsOf(v))
             y(c) == Count(channel'[c], ProposalsOf(v))
  <2>2. \A c \in Pair : x(c) \in Nat /\ y(c) = x(c) - IF c = <<from, Leader>> /\ v = from THEN 1 ELSE 0
    <3> SUFFICES ASSUME NEW c \in Pair
                 PROVE  x(c) \in Nat /\ y(c) = x(c) - IF c = <<from, Leader>> /\ v = from THEN 1 ELSE 0
      OBVIOUS
    <3> DEFINE E == ProposalsOf(v)
    <3>1. /\ msg \notin E
          /\ c \in D /\ Head(channel[c]) \in E <=> c = <<from, Leader>> /\ v = from
      BY <1>5, <1>9 DEF ProposalsOf, hd
    <3> HIDE DEF E, D
    <3>2. /\ Count(channel[c], E) \in Nat
          /\ Count(channel'[c], E) = Count(channel[c], E)
               - (IF c \in D /\ Head(channel[c]) \in E THEN 1 ELSE 0) + (IF c \in S /\ msg \in E THEN 1 ELSE 0)
      BY <1>0, <1>6, DeliversCount
    <3>3. Count(channel'[c], E) = Count(channel[c], E) - IF c = <<from, Leader>> /\ v = from THEN 1 ELSE 0
      BY <3>1, <3>2
    <3> QED BY <3>2, <3>3 DEF E
  <2>3. a \in Nat /\ b = a + IF from = v THEN 1 ELSE 0
    BY <1>0, <1>3, OrderCount
  <2>4. proposed[v] = a + x(<<v, v>>) + IF v = Leader THEN 0 ELSE x(<<v, Leader>>)
    BY <1>0 DEF ProposalInv
  <2> HIDE DEF a, b, x, y
  <2>5. <<v, v>> = <<from, Leader>> <=> v = from /\ v = Leader
    OBVIOUS
  <2>6. <<v, Leader>> = <<from, Leader>> <=> v = from
    OBVIOUS
  <2>7. proposed[v] = b + y(<<v, v>>) + IF v = Leader THEN 0 ELSE y(<<v, Leader>>)
    BY <2>1, <2>2, <2>3, <2>4, <2>5, <2>6
  <2> QED BY <1>3, <2>7 DEF b, y
<1> QED
  BY <1>0, <1>11, <1>12, <1>13, <1>14, <1>16, <1>17, <1>18, <1>19, Zenon DEF IInv, ConstantsOK

\* Another machine forwarding a proposal to the leader.
LEMMA ForwardStep ==
  ASSUME IInv, NEW from \in Machine, NEW m \in Machine, m # Leader, HandlePropose(from, m)
  PROVE  IInv'
<1> DEFINE D == {<<m, m>>}
           S == Links(m, {Leader})
           msg == Head(channel[<<from, m>>])
<1>0. ConstantsOK /\ TypeOK /\ RoutedInv /\ ProposalInv /\ InstanceInv /\ AcceptInv /\ AnswerInv
        /\ CountInv /\ CommitInv
  BY DEF IInv
<1>1. Leader \in Machine
  BY <1>0, Members, Zenon
<1>2. /\ channel[<<from, m>>] # << >> /\ from = m
      /\ msg \in Message /\ msg.type = "propose" /\ msg.value = m
  <2>1. Receives(from, m, "propose")
    BY DEF HandlePropose
  <2> QED BY <1>0, <2>1, HeadMessage
<1>3. /\ channel' = TakeAndSend(from, m, {Leader}, msg)
      /\ UNCHANGED <<next_empty_slot, instances, assigned, proposed, learned, accepted>>
  BY DEF HandlePropose
<1>4. Delivers(D, S, msg)
  <2>1. Delivers({<<from, m>>}, S, msg)
    <3> HIDE DEF msg
    <3> QED BY <1>0, <1>2, <1>3, HandlerDelivers, Zenon
  <2> QED BY <1>2, <2>1
<1>5. \A c \in D : Head(channel[c]) = msg
  BY <1>2
<1>6. msg = [type |-> "propose", value |-> m]
  BY <1>2 DEF Message
<1> HIDE DEF msg
<1>7. TypeOK'
  BY <1>0, <1>3, <1>4, Zenon DEF TypeOK, Delivers
<1>8. RoutedInv'
  <2>1. ASSUME NEW c \in S PROVE Routed(c, msg, assigned, accepted, learned)
    BY <1>2 DEF Routed, Links
  <2> HIDE DEF S, D
  <2> QED BY <1>0, <1>3, <1>4, <2>1, RoutedKept, Zenon
<1>9. ProposalInv'
  <2> SUFFICES ASSUME NEW v \in Machine
               PROVE  proposed'[v] = Count(assigned', {v}) + Count(channel'[<<v, v>>], ProposalsOf(v))
                        + IF v = Leader THEN 0 ELSE Count(channel'[<<v, Leader>>], ProposalsOf(v))
    BY Zenon DEF ProposalInv
  <2>1. <<v, v>> \in Pair /\ <<v, Leader>> \in Pair /\ <<m, Leader>> \in S /\ <<v, v>> \notin S
    BY <1>1, Zenon DEF Pair, Links
  <2> DEFINE a == Count(assigned, {v})
             x(c) == Count(channel[c], ProposalsOf(v))
             y(c) == Count(channel'[c], ProposalsOf(v))
  <2>2. \A c \in Pair : x(c) \in Nat /\ y(c) = x(c) - (IF c = <<m, m>> /\ v = m THEN 1 ELSE 0)
                                                  + (IF c = <<m, Leader>> /\ v = m THEN 1 ELSE 0)
    <3> SUFFICES ASSUME NEW c \in Pair
                 PROVE  x(c) \in Nat /\ y(c) = x(c) - (IF c = <<m, m>> /\ v = m THEN 1 ELSE 0)
                                                    + (IF c = <<m, Leader>> /\ v = m THEN 1 ELSE 0)
      OBVIOUS
    <3> DEFINE E == ProposalsOf(v)
    <3>1. /\ c \in D /\ Head(channel[c]) \in E <=> c = <<m, m>> /\ v = m
          /\ c \in S /\ msg \in E <=> c = <<m, Leader>> /\ v = m
      <4>1. msg \in E <=> v = m
        BY <1>6 DEF ProposalsOf
      <4>2. c \in S <=> c = <<m, Leader>>
        BY <1>1 DEF Links, Pair
      <4>3. c \in D <=> c = <<m, m>>
        OBVIOUS
      <4>4. c \in D => Head(channel[c]) = msg
        BY <1>5
      <4> HIDE DEF S, D, E
      <4> QED BY <4>1, <4>2, <4>3, <4>4
    <3> HIDE DEF E, D, S
    <3>2. /\ Count(channel[c], E) \in Nat
          /\ Count(channel'[c], E) = Count(channel[c], E)
               - (IF c \in D /\ Head(channel[c]) \in E THEN 1 ELSE 0) + (IF c \in S /\ msg \in E THEN 1 ELSE 0)
      BY <1>0, <1>4, DeliversCount
    <3>3. Count(channel'[c], E) = Count(channel[c], E) - (IF c = <<m, m>> /\ v = m THEN 1 ELSE 0)
                                                    + (IF c = <<m, Leader>> /\ v = m THEN 1 ELSE 0)
      BY <3>1, <3>2
    <3> QED BY <3>2, <3>3, Zenon DEF E
  <2>3. a \in Nat
    <3>1. assigned \in Seq(Machine)
      BY <1>0 DEF TypeOK
    <3> QED BY <3>1, CountType, Zenon
  <2>4. proposed[v] = a + x(<<v, v>>) + IF v = Leader THEN 0 ELSE x(<<v, Leader>>)
    BY <1>0 DEF ProposalInv
  <2> HIDE DEF a, x, y
  <2>5. proposed[v] = a + y(<<v, v>>) + IF v = Leader THEN 0 ELSE y(<<v, Leader>>)
    <3>1. CASE v = m
      <4>1. y(<<v, v>>) = x(<<v, v>>) - 1 /\ x(<<v, v>>) \in Nat
        BY <2>1, <2>2, <3>1
      <4>2. y(<<v, Leader>>) = x(<<v, Leader>>) + 1 /\ x(<<v, Leader>>) \in Nat
        BY <2>1, <2>2, <3>1
      <4> QED BY <2>3, <2>4, <3>1, <4>1, <4>2
    <3>2. CASE v # m
      <4>1. y(<<v, v>>) = x(<<v, v>>)
        BY <2>1, <2>2, <3>2
      <4>2. y(<<v, Leader>>) = x(<<v, Leader>>)
        BY <2>1, <2>2, <3>2
      <4> QED BY <2>4, <4>1, <4>2
    <3> QED BY <3>1, <3>2
  <2> QED BY <1>3, <2>5 DEF a, y
<1>10. /\ \A c \in D : Head(channel[c]).type \notin {"accept", "accepted", "commit"}
       /\ msg.type \notin {"accept", "accepted", "commit"}
  BY <1>2, <1>5
<1> HIDE DEF S, D
<1>11. AcceptInv'
  BY <1>0, <1>3, <1>4, <1>10, AcceptFrame, Zenon
<1>12. AnswerInv' /\ \A s : Acked(s)' = Acked(s)
  BY <1>0, <1>3, <1>4, <1>10, AnswerFrame
<1>13. CommitInv'
  <2>1. PICK k \in 0 .. Len(assigned) : CommittedUpTo(k) /\ \A l \in Learners : ToldUpTo(l, k)
    BY <1>0 DEF CommitInv
  <2>2. \A l \in Learners : ToldUpTo(l, k)'
    BY <1>0, <1>3, <1>4, <1>10, <2>1, TellsNothing
  <2>3. CommittedUpTo(k)'
    BY <1>3, <1>12, <2>1, Zenon DEF CommittedUpTo
  <2> QED BY <1>3, <2>2, <2>3 DEF CommitInv
<1>14. InstanceInv' /\ CountInv' /\ ConstantsOK'
  BY <1>0, <1>3, <1>12 DEF InstanceInv, CountInv, ConstantsOK
<1> QED
  BY <1>7, <1>8, <1>9, <1>11, <1>12, <1>13, <1>14 DEF IInv
=============================================================================
