------------------------------- MODULE KeyedQuery -------------------------------
(***************************************************************************)
(* The applications of MicroBatchQuery whose operator keeps a state for    *)
(* each key: the rows are grouped by their key, a customer or a customer   *)
(* and a currency, and a state is a function of the keys.                  *)
(***************************************************************************)
EXTENDS MicroBatchQuery, EventTime

\* Rows of a key that batch b finds on time, and those of all batches up to b.
AcceptedOf(b, k) == {e \in OnTime(Input(b), Watermark(b - 1)) : e.key = k}
SeenOf(b, k) == UNION {AcceptedOf(a, k) : a \in 1..b}

\* Rows of a key that batch b left in the table.
WrittenBy(b) == UNION {table[i].rows : i \in {j \in 1..Len(table) : table[j].txn = b}}
RowsOf(b, k) == {f \in WrittenBy(b) : f.key = k}
=============================================================================
