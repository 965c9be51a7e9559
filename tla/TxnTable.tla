------------------------------ MODULE TxnTable ------------------------------
(***************************************************************************)
(* Tables over the key-value storage (execution/tpcc/table.h) and the      *)
(* adapters a stored procedure runs against (storage_adapter.cpp): the     *)
(* key-generating adapter finds out which keys the procedure touches when  *)
(* the transaction is made, the transaction adapter gives it the values    *)
(* the servers read and collects what it writes.  A stored procedure is a  *)
(* sequence of table operations; a storage key is <<table, primary key,    *)
(* column>> with column "*" when the table keeps its row under one key; a  *)
(* stored value is the function of the columns it holds, empty for an      *)
(* empty string.                                                           *)
(***************************************************************************)
EXTENDS Integers, Sequences, FiniteSets, SequencesExt

CONSTANT Schema   \* [table -> [grouped |-> BOOLEAN, columns |-> those outside the primary key]]

Empty == <<>>

(* MakeStorageKey for a grouped table, MakeStorageKeys for the others.     *)
MakeStorageKeys(table, pkey, columns) ==
    {<<table, pkey, c>> : c \in IF Schema[table].grouped THEN {"*"} ELSE columns}

(* What of a row is stored under a key.                                    *)
Slice(key, row) == IF key[3] = "*" THEN row ELSE [c \in {key[3]} |-> row[c]]

(* The operations of Table.  "must": the procedure fails when it does.     *)
Operation(op, table, pkey, columns, row) ==
    [op |-> op, table |-> table, pkey |-> pkey, columns |-> columns, row |-> row, must |-> TRUE]

Select(table, pkey, columns) == Operation("select", table, pkey, columns, Empty)

Update(table, pkey, row) == Operation("update", table, pkey, DOMAIN row, row)

Insert(table, pkey, row) == Operation("insert", table, pkey, Schema[table].columns, row)

Delete(table, pkey) == Operation("delete", table, pkey, Schema[table].columns, Empty)

Unchecked(op) == [op EXCEPT !.must = FALSE]

Keys(op) == MakeStorageKeys(op.table, op.pkey, op.columns)

(***************************************************************************)
(* TxnKeyGenStorageAdapter: insert keeps the type of a key that is there,  *)
(* insert_or_assign replaces it.                                           *)
(***************************************************************************)
NewReadKey(index, keys) == index @@ [k \in keys |-> "READ"]

\* Mutant: a key that is read stays one that is read.
NewWriteKeyKeeps(index, keys) == index @@ [k \in keys |-> "WRITE"]

NewWriteKey(index, keys) == [k \in keys |-> "WRITE"] @@ index

GenerateKey(index, op) ==
    IF op.op = "select" THEN NewReadKey(index, Keys(op)) ELSE NewWriteKey(index, Keys(op))

GenerateKeys(ops) == FoldLeft(GenerateKey, <<>>, ops)

(***************************************************************************)
(* TxnStorageAdapter over txn: keys with type, value and new_value, and    *)
(* the deleted keys.  The keys an operation works on are those it finds.   *)
(***************************************************************************)
Updatable(txn, keys) ==
    {k \in keys \cap DOMAIN txn.keys : txn.keys[k].type = "WRITE" /\ txn.keys[k].value # Empty}

Insertable(txn, keys) == {k \in keys \cap DOMAIN txn.keys : txn.keys[k].type = "WRITE"}

SetNewValues(txn, keys, Value(_)) ==
    [txn EXCEPT !.keys = [k \in DOMAIN @ |-> IF k \in keys THEN [@[k] EXCEPT !.new_value = Value(k)] ELSE @[k]]]

(* Each update starts again from the value that was read, not from what    *)
(* an earlier update of the row left.                                      *)
DoUpdate(txn, op) ==
    LET Value(k) == Slice(k, op.row) @@ txn.keys[k].value
    IN SetNewValues(txn, Updatable(txn, Keys(op)), Value)

DoInsert(txn, op) ==
    LET Value(k) == Slice(k, op.row)
    IN SetNewValues(txn, Insertable(txn, Keys(op)), Value)

DoDelete(txn, op) ==
    LET found == Keys(op) \cap DOMAIN txn.keys
    IN [txn EXCEPT !.keys = [k \in DOMAIN @ \ found |-> @[k]], !.deleted = @ \cup found]

Found(txn, op) ==
    CASE op.op = "update" -> Updatable(txn, Keys(op))
      [] op.op = "insert" -> Insertable(txn, Keys(op))
      [] OTHER -> Keys(op) \cap DOMAIN txn.keys

Perform(txn, op) ==
    LET done == CASE op.op = "update" -> DoUpdate(txn, op)
                  [] op.op = "insert" -> DoInsert(txn, op)
                  [] op.op = "delete" -> DoDelete(txn, op)
    IN [done EXCEPT !.ok = @ /\ (op.must => Found(txn, op) = Keys(op))]

PerformAll(txn, ops) == FoldLeft(Perform, txn, ops)

(***************************************************************************)
(* Select: the columns read, or nothing.  A grouped row that is empty is   *)
(* not noticed: its columns are read from behind the empty string, and are *)
(* whatever is there.                                                      *)
(***************************************************************************)
SelectGrouped(txn, op, garbage) ==
    LET key == <<op.table, op.pkey, "*">>
        row == txn.keys[key].value
    IN IF key \notin DOMAIN txn.keys THEN Empty
       ELSE [c \in op.columns |-> IF row = Empty THEN garbage ELSE row[c]]

SelectUngrouped(txn, op) ==
    LET key(c) == <<op.table, op.pkey, c>>
    IN [c \in {c \in op.columns : key(c) \in DOMAIN txn.keys /\ txn.keys[key(c)].value # Empty} |->
            txn.keys[key(c)].value[c]]

SelectRow(txn, op, garbage) ==
    IF Schema[op.table].grouped THEN SelectGrouped(txn, op, garbage) ELSE SelectUngrouped(txn, op)
=============================================================================
