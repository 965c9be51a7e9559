------------------------- MODULE KeyValueExecution -------------------------
(***************************************************************************)
(* Execution of key-value programs (execution/key_value.cpp) and what they *)
(* write (execution/execution.cpp).  A transaction is a sequence of        *)
(* entries [key, type, value, new] and a program, a sequence of procedures *)
(* [op, key, arg].  NoValue is the empty string, the default of the fields.*)
(***************************************************************************)
EXTENDS Integers, Sequences, SequencesExt, TLC

CONSTANTS NoValue, PartitionOf

\* key_index: the first entry of a key, 0 if there is none.
KeyIndex(keys, k) == SelectInSeq(keys, LAMBDA e : e.key = k)

ValueOf(keys, k) == keys[KeyIndex(keys, k)].value

SetNewValue(x, k, v) ==
  LET i == KeyIndex(x.keys, k)
  IN  IF i = 0 \/ x.keys[i].type # "WRITE" THEN x ELSE [x EXCEPT !.keys[i].new = v]

\* One procedure on [keys, aborted].  DEL skips every key the transaction has;
\* on another key its behaviour is undefined, and programs do not do it.  GET
\* and SLEEP change nothing.
ExecuteProcedure(x, proc) ==
  CASE proc.op = "SET" -> SetNewValue(x, proc.key, proc.arg)
    [] proc.op = "COPY" -> IF KeyIndex(x.keys, proc.key) = 0 THEN x
                           ELSE SetNewValue(x, proc.arg, ValueOf(x.keys, proc.key))
    [] proc.op = "EQ" -> [x EXCEPT !.aborted = \/ @
                                               \/ /\ KeyIndex(x.keys, proc.key) # 0
                                                  /\ ValueOf(x.keys, proc.key) # proc.arg]
    [] OTHER -> x

\* Execute: the entries with their new values, and the decision.
Execute(keys, program) == FoldLeft(ExecuteProcedure, [keys |-> keys, aborted |-> FALSE], program)

\* Mutant: every key of the transaction is written.
ApplyWritesAll(store, keys, parts) ==
  FoldLeft(LAMBDA s, e : IF e.type = "READ" THEN s ELSE (e.key :> e.new) @@ s, store, keys)

\* ApplyWrites to the storage of the given partitions: every entry to write of
\* a local key, in order.
ApplyWrites(store, keys, parts) ==
  FoldLeft(LAMBDA s, e : IF PartitionOf[e.key] \notin parts \/ e.type = "READ" THEN s
                         ELSE (e.key :> e.new) @@ s,
           store, keys)
=============================================================================
