--------------------------- MODULE DeduplicationQuery ---------------------------
(***************************************************************************)
(* TransactionDeduplicationApp: deduplication as an application,           *)
(* MicroBatchQuery with Deduplication as its operator.  Kafka rows of the  *)
(* same event have its event time; they differ in their offset.            *)
(***************************************************************************)
EXTENDS MicroBatchQuery, Deduplication

Written == UNION {table[i].rows : i \in 1..Len(table)}

\* event-time-deduplication.md: transactions_deduplicated has one row of an
\* event, though its id is forgotten with the watermark, its copies arrive in
\* any order and batch, and a batch that is run again may choose another copy.
OneRowPerEvent ==
  /\ \A f, g \in Written : f.id = g.id => f = g
  /\ \A i, j \in 1..Len(table) : i # j => table[i].rows \cap table[j].rows = {}

\* Only a late row is lost: an event with a row on time is in the table.
NoEventLost ==
  ~torn /\ ~resetting =>
    \A b \in 1..Committed : \A e \in OnTime(Input(b), Watermark(b - 1)) :
      \E i \in 1..Len(table) : table[i].txn <= b /\ \E f \in table[i].rows : f.id = e.id

\* An event has one row in the table and none is lost, although ids are
\* forgotten and batches are cut, killed and run again.
EachEventOnce == OneRowPerEvent /\ NoEventLost
=============================================================================
