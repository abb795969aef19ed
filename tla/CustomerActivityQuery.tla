------------------------- MODULE CustomerActivityQuery -------------------------
(***************************************************************************)
(* CustomerActivityStateApp: the customer lifecycles as an application,    *)
(* a KeyedQuery with CustomerActivity as its operator.                     *)
(***************************************************************************)
EXTENDS KeyedQuery, CustomerActivity

SnapshotsOf(b, c, lifecycle) == {f \in RowsOf(b, c) : f.lifecycle = lifecycle}

\* customer-stateful-processing.md: a deduplicated event counts in exactly one
\* lifecycle, that of an EXPIRED snapshot or the one still open, whatever was
\* late, retried or expired in between; no snapshot of an expiry is repeated.
EveryEventInOneLifecycle ==
  ~torn /\ ~resetting =>
    \A b \in 1..Committed, c \in CustomerIds :
      LET ended == UNION {SnapshotsOf(a, c, "EXPIRED") : a \in 1..b}
          open == states[b][c].events
      IN /\ open \cup UNION {f.events : f \in ended} = SeenOf(b, c)
         /\ \A f \in ended : f.events \cap open = {}
         /\ \A f, g \in ended : f # g => f.events \cap g.events = {}

\* For a reader of the table: an UPDATED snapshot holds its batch and what the
\* customer's last snapshot held, or its batch alone after an EXPIRED one.
SnapshotsAddUp ==
  ~torn /\ ~resetting =>
    \A b \in 1..Committed, c \in CustomerIds : \A f \in SnapshotsOf(b, c, "UPDATED") :
      LET earlier == {a \in 1..(b - 1) : RowsOf(a, c) # {}}
          last == IF earlier = {} THEN {} ELSE RowsOf(Max(earlier), c)
          ended == \E g \in last : g.lifecycle = "EXPIRED"
      IN f.events = f.batch \cup (IF ended THEN {} ELSE UNION {g.events : g \in last})

\* A lifecycle ends only by inactivity: what comes after it is later than all
\* of it by more than the timeout, less the part of a millisecond the timer
\* drops; and it does end, once the watermark of a batch has passed its expiry.
EndsOnlyInactive ==
  \A b \in 1..Len(states), c \in CustomerIds :
    LET s == states[b][c]
        before == SeenOf(b, c) \ s.events
    IN /\ \A e \in before, h \in s.events :
            FloorMillis(h.time) >= FloorMillis(e.time) + InactivityMillis
       /\ s.registered = IF s.events = {} THEN {} ELSE {s.timer}
       /\ s.events # {} => s.timer >= Watermark(b)

\* Every accepted event counts in one lifecycle, which ends by inactivity only,
\* and whose snapshots follow from one another.
LifecyclesSound == EveryEventInOneLifecycle /\ SnapshotsAddUp /\ EndsOnlyInactive
=============================================================================
