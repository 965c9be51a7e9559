------------------------------ MODULE SharedLog ------------------------------
(***************************************************************************)
(* What a log of batches promises its readers: one order, extended at the  *)
(* end only, of which every reader sees longer and longer prefixes.  There *)
(* is one such log per home region.                                        *)
(***************************************************************************)
EXTENDS Integers, Sequences

CONSTANTS Log, Reader, Batch

VARIABLES order,  \* of each log: the batches in the order agreed on
          out     \* what each reader has been given of each log

Init ==
  /\ order = [l \in Log |-> << >>]
  /\ out = [r \in Reader |-> [l \in Log |-> << >>]]

Agree(l, b) == order' = [order EXCEPT ![l] = Append(@, b)] /\ UNCHANGED out

\* A reader is given everything up to the n-th batch.
Deliver(r, l, n) ==
  /\ n > Len(out[r][l])
  /\ out' = [out EXCEPT ![r][l] = SubSeq(order[l], 1, n)]
  /\ UNCHANGED order

Next ==
  \E l \in Log :
    \/ \E b \in Batch : Agree(l, b)
    \/ \E r \in Reader : \E n \in 1 .. Len(order[l]) : Deliver(r, l, n)

vars == <<order, out>>

Spec == Init /\ [][Next]_vars
=============================================================================
