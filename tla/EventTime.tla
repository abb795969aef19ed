------------------------------- MODULE EventTime -------------------------------
(***************************************************************************)
(* Event time as the stateful operators of the engine use it: event times  *)
(* in microseconds, watermarks and timers in milliseconds.  A row is       *)
(* dropped as late by the watermark of the batch before its own; timers    *)
(* fire by the watermark of their batch, after its rows were handled.      *)
(***************************************************************************)
EXTENDS Integers, Sequences, SequencesExt

CONSTANTS
  Milli,         \* microseconds of a millisecond
  WatermarkDelay \* milliseconds

ASSUME EventTimeAssumption == Milli \in Nat \ {0} /\ WatermarkDelay \in Nat

NoTimer == 0
FloorMillis(t) == t \div Milli
CeilMillis(t) == (t + Milli - 1) \div Milli

Times(rows) == {r.time : r \in rows}

\* The watermark trails the newest event time of a batch.
EventTimeWatermark(rows) ==
  IF rows = {} THEN 0 ELSE Max({0, FloorMillis(Max(Times(rows))) - WatermarkDelay})

OnTime(rows, late) == {r \in rows : r.time > late * Milli}

\* The elements of a finite set in the order of a relation.
Earlier(s, t) == s < t
InOrder(S, Before(_, _)) ==
  CHOOSE s \in [1..Cardinality(S) -> S] :
    /\ {s[i] : i \in DOMAIN s} = S
    /\ \A i, j \in DOMAIN s : i < j => Before(s[i], s[j])

\* Spark fires the registered timers below the watermark, earliest first.
DueTimers(registered, due) == InOrder({t \in registered : t < due}, Earlier)
=============================================================================
