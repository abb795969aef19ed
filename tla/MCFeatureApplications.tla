------------------------- MODULE MCFeatureApplications -------------------------
(***************************************************************************)
(* Small instances of the three applications that keep keyed state, for    *)
(* TLC.  The first version of the source decides which of them runs; the   *)
(* keys of the others have no rows.                                        *)
(***************************************************************************)
EXTENDS RollingFeatureQuery, AmountStatisticsQuery, CustomerActivityQuery

CONSTANTS
  KeyPartitions,                                \* <<key, partition>> of the rows of the statistics
  RollingTimes, StatisticsTimes, ActivityTimes, \* event times of each
  LaterTime,                                    \* of the last event of rolling features
  ShortVersions                                 \* bound: versions of the last two

\* One event arrives at a time, of any event time; every other one is in
\* another currency.
MCCurrency(id) == IF id % 2 = 0 THEN "EUR" ELSE "USD"
RollingRow(s) ==
  LET id == Len(s) + 1
  IN {[id |-> id, key |-> "a", currency |-> MCCurrency(id), time |-> t]
        : t \in RollingTimes \cup (IF id = MaxVersions THEN {LaterTime} ELSE {})}

\* Each version is one row, the next of the log; the first is of one pair,
\* which may change its partition.
FirstPair == <<"a/USD", 0>>
MCMixed == {<<"a/USD", 0>>, <<"a/EUR", 0>>, <<"a/USD", 1>>}
StatisticsRow(s) ==
  {[offset |-> Len(s), key |-> kp[1], partition |-> kp[2], time |-> t]
     : kp \in IF s = <<>> THEN {FirstPair} ELSE KeyPartitions, t \in StatisticsTimes}

\* Each version is one deduplicated event; the first is of any one customer.
ActivityRow(s) ==
  {[id |-> Len(s), key |-> c, time |-> t]
     : c \in IF s = <<>> THEN {CHOOSE c \in CustomerIds : TRUE} ELSE CustomerIds,
       t \in ActivityTimes}

KeysLike(k) == CHOOSE K \in {Customers, CustomerCurrencies, CustomerIds} : k \in K
KeysOf(rows) == KeysLike((CHOOSE e \in rows : TRUE).key)
Running(keys) == source # <<>> /\ KeysOf(source[1]) = keys

MCUpstream(s) ==
  LET all == RollingRow(s) \cup (IF Len(s) < ShortVersions THEN StatisticsRow(s) \cup ActivityRow(s)
                                 ELSE {})
  IN {{e} : e \in {r \in all : s = <<>> \/ r.key \in KeysOf(s[1])}}

\* Each operator on its keys; the keys of another application have no rows and
\* no timers.
MCInitial == RollingInitial @@ StatisticsInitial @@ ActivityInitial
Idle(keys, state, rows) ==
  (\A r \in rows : r.key \notin keys) /\ \A k \in keys : state[k].registered = {}
Unmoved(keys, state) == {[ok |-> TRUE, state |-> [k \in keys |-> state[k]], out |-> {}]}
MCProcess(state, rows, late, due) ==
  UNION {{[ok |-> q.ok, state |-> p.state @@ q.state @@ r.state, out |-> p.out \cup q.out \cup r.out]
            : p \in IF Idle(Customers, s, i) THEN Unmoved(Customers, s) ELSE RollingBatch(s, i, late, due),
              q \in IF Idle(CustomerCurrencies, s, i) THEN Unmoved(CustomerCurrencies, s)
                    ELSE StatisticsBatch(s, i, late, due),
              r \in IF Idle(CustomerIds, s, i) THEN Unmoved(CustomerIds, s) ELSE ActivityBatch(s, i, late, due)}
         : s \in {state}, i \in {rows}}

\* Only the statistics are reset.
MCReset == Running(CustomerCurrencies) /\ Reset
MCNext == Arrive \/ Run \/ Crash \/ MCReset
MCSpec == Init /\ [][MCNext]_vars

\* The activity application is run again and again.
ActivityRun == Running(CustomerIds) /\ Run
MCFairSpec == MCSpec /\ WF_vars(ActivityRun)

-----------------------------------------------------------------------------
(* The properties are those of the engine and of its applications, and its *)
(* liveness for one of them.                                               *)

\* An application that is run again after every kill processes all versions
\* and lets its timers see the last watermark.
ActivityDrained == <>Running(CustomerIds) => Drained
=============================================================================
