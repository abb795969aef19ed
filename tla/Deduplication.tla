----------------------------- MODULE Deduplication -----------------------------
(***************************************************************************)
(* TransactionDeduplicationTransformer: Spark's                            *)
(* dropDuplicatesWithinWatermark on event_id.  An id is remembered from    *)
(* its first accepted row until the watermark passes that row's event time *)
(* plus the delay.                                                         *)
(***************************************************************************)
EXTENDS EventTime

DedupInitial == {}

Remembered(state) == {m.id : m \in state}

\* Of several rows of an id in one batch any may come first: Spark does not
\* order the rows of a shuffle.
Winners(rows) ==
  LET ids == {r.id : r \in rows}
  IN {w \in [ids -> rows] : \A i \in ids : w[i].id = i}

\* Mutation: rows are late by the watermark of their own batch.
DedupBatchLateByDue(state, rows, late, due) ==
  {LET first == {w[i] : i \in DOMAIN w}
       remembered == state \cup {[id |-> r.id, expires |-> r.time + WatermarkDelay * Milli]
                                   : r \in first}
   IN [ok |-> TRUE,
       state |-> {m \in remembered : m.expires > due * Milli},
       out |-> first]
   : w \in Winners({r \in OnTime(rows, due) : r.id \notin Remembered(state)})}

DedupBatch(state, rows, late, due) ==
  {LET first == {w[i] : i \in DOMAIN w}
       remembered == state \cup {[id |-> r.id, expires |-> r.time + WatermarkDelay * Milli]
                                   : r \in first}
   IN [ok |-> TRUE,
       state |-> {m \in remembered : m.expires > due * Milli},
       out |-> first]
   : w \in Winners({r \in OnTime(rows, late) : r.id \notin Remembered(state)})}
=============================================================================
