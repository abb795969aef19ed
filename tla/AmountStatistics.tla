---------------------------- MODULE AmountStatistics ----------------------------
(***************************************************************************)
(* CustomerAmountStatisticsProcessor: the baseline an amount is compared   *)
(* with, per customer and currency, in the order of the Kafka log, until   *)
(* the pair has been inactive for InactivityTimeout.                       *)
(*                                                                         *)
(* Count, mean and M2 summarise the rows observed; here the rows           *)
(* themselves are kept, and no arithmetic on amounts is modelled.          *)
(***************************************************************************)
EXTENDS EventTime

CONSTANTS
  CustomerCurrencies,  \* keys: pairs of a customer and a currency
  InactivityTimeout    \* microseconds

ASSUME InactivityAssumption == InactivityTimeout \in Nat \ {0}

\* ValueState[CustomerAmountStatistics]; it exists when a row is observed.
NoStatistics ==
  [observed |-> {}, latest |-> 0, timer |-> NoTimer, partition |-> 0, offset |-> 0,
   registered |-> {}]
StatisticsInitial == [k \in CustomerCurrencies |-> NoStatistics]

InLogOrder(r, q) ==
  r.partition < q.partition \/ (r.partition = q.partition /\ r.offset < q.offset)

Advances(s, row) ==
  s.observed # {} => row.partition = s.partition /\ row.offset > s.offset

\* Mutation: the latest event time is that of the last row.
HandleRowLastTime(acc, row) ==
  LET s == acc.state
  IN [ok |-> acc.ok /\ Advances(s, row),
      out |-> acc.out \cup {[key |-> row.key, event |-> row, prior |-> s.observed]},
      state |-> [s EXCEPT !.observed = @ \cup {row}, !.latest = row.time,
                          !.partition = row.partition, !.offset = row.offset]]

\* A row is output with the baseline before it, then enters the baseline.
HandleRow(acc, row) ==
  LET s == acc.state
  IN [ok |-> acc.ok /\ Advances(s, row),
      out |-> acc.out \cup {[key |-> row.key, event |-> row, prior |-> s.observed]},
      state |-> [s EXCEPT !.observed = @ \cup {row},
                          !.latest = IF s.observed = {} THEN row.time ELSE Max({@, row.time}),
                          !.partition = row.partition,
                          !.offset = row.offset]]

\* Only a later event time moves the timer.
MoveTimer(previous, s) ==
  IF previous.observed # {} /\ previous.latest >= s.latest THEN s
  ELSE LET replacement == CeilMillis(s.latest + InactivityTimeout)
       IN [s EXCEPT !.timer = replacement,
                    !.registered = (@ \ {previous.timer}) \cup {replacement}]

HandleRows(s, rows) ==
  LET done == FoldLeft(HandleRow, [ok |-> TRUE, out |-> {}, state |-> s],
                       InOrder(rows, InLogOrder))
  IN IF rows = {} THEN done ELSE [done EXCEPT !.state = MoveTimer(s, @)]

\* An obsolete timer does not clear newer statistics.
ExpireTimer(s, firedAt) ==
  IF s.observed # {} /\ s.timer = firedAt
  THEN [NoStatistics EXCEPT !.registered = s.registered] ELSE s

FireExpiry(s, t) == [ExpireTimer(s, t) EXCEPT !.registered = @ \ {t}]
FireExpiries(s, due) == FoldLeft(FireExpiry, s, DueTimers(s.registered, due))

StatisticsBatch(state, rows, late, due) ==
  LET handled == [k \in CustomerCurrencies |->
                    HandleRows(state[k], {r \in OnTime(rows, late) : r.key = k})]
      ok == \A k \in CustomerCurrencies : handled[k].ok
  IN {[ok |-> ok,
       state |-> [k \in CustomerCurrencies |-> FireExpiries(handled[k].state, due)],
       out |-> IF ok THEN UNION {handled[k].out : k \in CustomerCurrencies} ELSE {}]}
=============================================================================
