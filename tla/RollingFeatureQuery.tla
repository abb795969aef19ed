-------------------------- MODULE RollingFeatureQuery --------------------------
(***************************************************************************)
(* TransactionRollingFeatureApp: the rolling features as an application,   *)
(* a KeyedQuery with RollingFeatures as its operator (the configuration    *)
(* gives Process, InitialState and WatermarkOf their values).              *)
(***************************************************************************)
EXTENDS KeyedQuery, RollingFeatures

\* customer-rolling-features.md: a row counts and sums what its customer was
\* observed to do in its windows.  Neither pruning, nor the batches the source
\* was cut into, nor kills and retries make a row miss or double an event of
\* any earlier batch, and an event that arrives later never enters it.
FeaturesFromFullHistory ==
  \A b \in 1..Len(offsets), c \in Customers : \A f \in RowsOf(b, c) :
    LET since(window) == {e \in SeenOf(b, c) : e.time \in (f.event.time - window)..(f.event.time - 1)}
    IN /\ f.count5m = Cardinality(since(CountWindow))
       /\ f.summed10m = {e \in since(AmountWindow) : e.currency = f.event.currency}

\* One emitted row per accepted event (RollingFeatureModels), also where the
\* application was killed between the Delta commit and the commit log.
RowPerAcceptedEvent ==
  ~torn /\ ~resetting =>
    \A b \in 1..Committed, c \in Customers :
      /\ {f.event : f \in RowsOf(b, c)} = AcceptedOf(b, c)
      /\ Cardinality(RowsOf(b, c)) = Cardinality(AcceptedOf(b, c))

\* No customer keeps an event past its cleanup time, and exactly one timer is
\* registered for a customer with history: the one of the earliest cleanup.
\* A leftover timer, or an event without a timer, would stay for ever.
HistoryBounded ==
  \A b \in 1..Len(states), c \in Customers :
    LET s == states[b][c]
        cleanups == {CleanupTimer(e) : e \in s.events}
    IN /\ \A t \in cleanups : t >= Watermark(b)
       /\ s.registered = IF cleanups = {} THEN {} ELSE {Min(cleanups)}

\* Every accepted event has one row of rolling features, which are those of the
\* customer's full history, although that is pruned by its one timer.
RollingFeaturesSound == RowPerAcceptedEvent /\ FeaturesFromFullHistory /\ HistoryBounded
=============================================================================
