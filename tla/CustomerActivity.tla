---------------------------- MODULE CustomerActivity ----------------------------
(***************************************************************************)
(* CustomerActivityProcessor: lifecycles of customers.  A batch with rows  *)
(* of a customer emits one UPDATED snapshot of the lifecycle; inactivity   *)
(* emits an EXPIRED one and ends it.                                       *)
(*                                                                         *)
(* Counts, totals, first and latest event time summarise sets of events;   *)
(* here the sets themselves are kept.                                      *)
(***************************************************************************)
EXTENDS EventTime

CONSTANTS
  CustomerIds,
  InactivityMillis    \* inactivityTimeout.toMillis

ASSUME ActivityAssumption == InactivityMillis \in Nat \ {0}

\* ValueState[CustomerActivityState]; it exists when it holds an event.
NoActivity == [events |-> {}, timer |-> NoTimer, registered |-> {}]
ActivityInitial == [c \in CustomerIds |-> NoActivity]

Latest(events) == Max(Times(events))

Snapshot(c, lifecycle, batch, s) ==
  [key |-> c, lifecycle |-> lifecycle, batch |-> batch, events |-> s.events,
   expiry |-> s.timer]

\* Only a later event time moves the timer, to the latest time's millisecond
\* plus the timeout.
Observe(s, rows) ==
  LET events == s.events \cup rows
      replacement == FloorMillis(Latest(events)) + InactivityMillis
  IN IF s.events # {} /\ Latest(s.events) >= Latest(rows)
     THEN [s EXCEPT !.events = events]
     ELSE [events |-> events, timer |-> replacement,
           registered |-> (s.registered \ {s.timer}) \cup {replacement}]

HandleBatchRows(c, s, rows) ==
  IF rows = {} THEN [state |-> s, out |-> {}]
  ELSE LET updated == Observe(s, rows)
       IN [state |-> updated, out |-> {Snapshot(c, "UPDATED", rows, updated)}]

\* Mutation: the expiry is reported and the state is kept.
HandleInactivityKeeping(c, acc, expiredAt) ==
  LET s == acc.state
  IN IF s.events # {} /\ s.timer = expiredAt
     THEN [state |-> s, out |-> acc.out \cup {Snapshot(c, "EXPIRED", {}, s)}]
     ELSE acc

\* An obsolete timer neither clears nor reports the state.
HandleInactivity(c, acc, expiredAt) ==
  LET s == acc.state
  IN IF s.events # {} /\ s.timer = expiredAt
     THEN [state |-> [NoActivity EXCEPT !.registered = s.registered],
           out |-> acc.out \cup {Snapshot(c, "EXPIRED", {}, s)}]
     ELSE acc

\* A fired timer is gone.
FireInactivityTimer(c, acc, t) == [HandleInactivity(c, acc, t) EXCEPT !.state.registered = @ \ {t}]
FireInactivity(c, acc, due) ==
  FoldLeft(LAMBDA a, t : FireInactivityTimer(c, a, t), acc, DueTimers(acc.state.registered, due))

ActivityBatch(state, rows, late, due) ==
  LET handled == [c \in CustomerIds |->
                    FireInactivity(c, HandleBatchRows(c, state[c],
                      {r \in OnTime(rows, late) : r.key = c}), due)]
  IN {[ok |-> TRUE,
       state |-> [c \in CustomerIds |-> handled[c].state],
       out |-> UNION {handled[c].out : c \in CustomerIds}]}
=============================================================================
