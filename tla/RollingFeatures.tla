---------------------------- MODULE RollingFeatures ----------------------------
(***************************************************************************)
(* RollingFeatureProcessor: per customer, how many transactions were       *)
(* observed in the five minutes before a transaction, and the sum of those *)
(* of its currency in the ten minutes before.  History is pruned by one    *)
(* cleanup timer per customer.                                             *)
(*                                                                         *)
(* A sum is kept as the set of the events it adds up, which tells more     *)
(* than their total.                                                       *)
(***************************************************************************)
EXTENDS EventTime

CONSTANTS
  Customers,
  CountWindow,   \* CountWindowMicros
  AmountWindow   \* AmountWindowMicros

ASSUME WindowsAssumption ==
  {CountWindow, AmountWindow} \subseteq Nat \ {0} /\ CountWindow <= AmountWindow

\* Mutation: the expiry is rounded down.
CleanupTimerRoundedDown(e) == FloorMillis(e.time + AmountWindow)

CleanupTimer(e) == CeilMillis(e.time + AmountWindow)

-----------------------------------------------------------------------------
(* State of a customer: the retained events, the stored timer and the       *)
(* timers registered with Spark.                                           *)

NoHistory == [events |-> {}, timer |-> NoTimer, registered |-> {}]
RollingInitial == [c \in Customers |-> NoHistory]

ScheduleEarliestCleanup(s) ==
  LET earliest == IF s.events = {} THEN NoTimer ELSE Min({CleanupTimer(e) : e \in s.events})
  IN IF earliest = s.timer THEN s
     ELSE [s EXCEPT !.timer = earliest,
                    !.registered = (@ \ {s.timer}) \cup ({earliest} \ {NoTimer})]

\* An event reads the history its customer had before any event of the same
\* time entered it.
Within(history, e, window) == {h \in history : h.time >= e.time - window /\ h.time < e.time}

Features(history, e) ==
  [key |-> e.key,
   event |-> e,
   count5m |-> Cardinality(Within(history, e, CountWindow)),
   summed10m |-> {h \in Within(history, e, AmountWindow) : h.currency = e.currency}]

\* Events are handled in the order of their times.
HandlePeers(acc, time) ==
  LET peers == {e \in acc.rows : e.time = time}
  IN [acc EXCEPT !.out = @ \cup {Features(acc.events, e) : e \in peers},
                 !.events = @ \cup peers]

HandleInputRows(s, rows) ==
  LET done == FoldLeft(HandlePeers, [rows |-> rows, events |-> s.events, out |-> {}],
                       InOrder(Times(rows), Earlier))
  IN [state |-> IF rows = {} THEN s ELSE ScheduleEarliestCleanup([s EXCEPT !.events = done.events]),
      out |-> done.out]

\* A timer other than the stored one is obsolete.  The watermark may have
\* passed several expiries: everything due is removed.
HandleExpiredTimer(s, firedAt, watermark) ==
  LET expiredThrough == Max({firedAt, watermark})
  IN IF s.timer # firedAt THEN s
     ELSE ScheduleEarliestCleanup(
            [s EXCEPT !.events = {e \in @ : CleanupTimer(e) > expiredThrough},
                      !.timer = NoTimer])

\* A fired timer is gone.
FireTimer(s, t, due) == [HandleExpiredTimer(s, t, due) EXCEPT !.registered = @ \ {t}]
FireTimers(s, due) ==
  FoldLeft(LAMBDA acc, t : FireTimer(acc, t, due), s, DueTimers(s.registered, due))

RollingBatch(state, rows, late, due) ==
  LET handled == [c \in Customers |->
                    HandleInputRows(state[c], {r \in OnTime(rows, late) : r.key = c})]
  IN {[ok |-> TRUE,
       state |-> [c \in Customers |-> FireTimers(handled[c].state, due)],
       out |-> UNION {handled[c].out : c \in Customers}]}
=============================================================================
