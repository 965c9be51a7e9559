------------------------------ MODULE MapSpec ------------------------------
(***************************************************************************)
(* What storage needs of its table: every call of Get, InsertOrUpdate or   *)
(* Erase takes effect at one moment between its start and its return.      *)
(***************************************************************************)
CONSTANTS Thread, Key, Value, NotFound

VARIABLES map,    \* function from the keys present to their values
          call    \* thread -> its call: [kind, key, value, done, result], or Idle

Idle == [kind |-> "none"]

Kinds == {"Get", "InsertOrUpdate", "Erase"}

Init == map = <<>> /\ call = [t \in Thread |-> Idle]

Call(t, kind, k, v) ==
  /\ call[t] = Idle
  /\ call' = [call EXCEPT ![t] =
       [kind |-> kind, key |-> k, value |-> v, done |-> FALSE, result |-> NotFound]]
  /\ UNCHANGED map

Apply(t) ==
  /\ call[t] # Idle /\ ~call[t].done
  /\ LET k == call[t].key
         found == k \in DOMAIN map
         Done(r) == call' = [call EXCEPT ![t].done = TRUE, ![t].result = r]
     IN  \/ /\ call[t].kind = "Get"
            /\ Done(IF found THEN map[k] ELSE NotFound) /\ UNCHANGED map
         \/ /\ call[t].kind = "InsertOrUpdate"
            /\ Done(found)
            /\ map' = [x \in DOMAIN map \cup {k} |-> IF x = k THEN call[t].value ELSE map[x]]
         \/ /\ call[t].kind = "Erase"
            /\ Done(found) /\ map' = [x \in DOMAIN map \ {k} |-> map[x]]

Return(t) ==
  /\ call[t] # Idle /\ call[t].done
  /\ call' = [call EXCEPT ![t] = Idle]
  /\ UNCHANGED map

Next ==
  \E t \in Thread :
    \/ \E kind \in Kinds : \E k \in Key : \E v \in Value : Call(t, kind, k, v)
    \/ Apply(t)
    \/ Return(t)

vars == <<map, call>>

Spec == Init /\ [][Next]_vars
=============================================================================
