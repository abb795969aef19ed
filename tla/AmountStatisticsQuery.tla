------------------------- MODULE AmountStatisticsQuery -------------------------
(***************************************************************************)
(* TransactionStatisticalFeatureApp: the amount statistics as an           *)
(* application, a KeyedQuery with AmountStatistics as its operator.        *)
(***************************************************************************)
EXTENDS KeyedQuery, AmountStatistics

\* ADR-019: a baseline is what was observed before, in log order and in one
\* partition, and it is forgotten only when the pair has been inactive: every
\* event that no longer sees an earlier one is later than that one by more than
\* the timeout, also when events arrive out of order, the pair has changed its
\* partition, and the batches are cut or retried.
BaselineForgetsOnlyInactive ==
  \A b \in 1..Len(offsets), k \in CustomerCurrencies : \A f \in RowsOf(b, k) :
    LET earlier == SeenOf(b - 1, k) \cup {e \in AcceptedOf(b, k) : e.offset < f.event.offset}
    IN /\ f.prior \subseteq earlier
       /\ \A e \in f.prior : e.partition = f.event.partition /\ e.offset < f.event.offset
       /\ \A e \in earlier \ f.prior, h \in f.prior \cup {f.event} :
            /\ h.time > e.time + InactivityTimeout
            /\ e.partition = h.partition => e.offset < h.offset

\* A pair with statistics has one registered timer, at its latest event time
\* plus the timeout, and is gone once the watermark of a batch has passed it.
OneTimerPerPair ==
  \A b \in 1..Len(states), k \in CustomerCurrencies :
    LET s == states[b][k]
        timer == CeilMillis(Max(Times(s.observed)) + InactivityTimeout)
    IN IF s.observed = {} THEN s.registered = {}
       ELSE s.registered = {timer} /\ timer >= Watermark(b)

\* The checks of the log order refuse a change of partition, and never a row
\* of a retried batch.
RefusesOnlyRemapped ==
  \A b \in 1..Len(offsets) : \A r \in Results(b) :
    r.ok \/ \E k \in CustomerCurrencies : \E e, f \in SeenOf(b, k) : e.partition # f.partition

\* A baseline loses an event only through inactivity, by its pair's one timer,
\* and only a pair that changed its partition is refused.
BaselinesSound == BaselineForgetsOnlyInactive /\ OneTimerPerPair /\ RefusesOnlyRemapped
=============================================================================
