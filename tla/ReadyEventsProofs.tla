--------------------------- MODULE ReadyEventsProofs ---------------------------
(***************************************************************************)
(* Proofs about ready events on their way to local files: ReadyOutbox,     *)
(* which makes segments, outboxes and batches of them, LocalReceiver, to   *)
(* which an outbox is handed off, and KafkaShadowWorker, which scores a    *)
(* sealed inbox.  They hold for any tables, outboxes, inboxes, ranges,     *)
(* maxima, numbers of commands, replays, failures and kills.               *)
(*                                                                         *)
(* ReadyOutbox: what a command has read is of one table, which only grows, *)
(* so what it makes is what its table held.  LocalReceiver: the invariant  *)
(* says what a command holds between the link of a receipt and the attempt *)
(* that tells of it: whoever made the link is alone in telling so, and     *)
(* what it tells of has its receipt.  KafkaShadowWorker: a command goes on *)
(* from what was durable at its start, which stays; nothing is used of how *)
(* Queue orders the events but that it stays the same.                     *)
(***************************************************************************)
EXTENDS ReadyOutbox, LocalReceiver, KafkaShadowWorker, FiniteSetTheorems, FunctionTheorems,
        WellFoundedInduction, TLAPS

\* What is assumed: the rows of a table are distinct events, and a range given
\* to a command is of versions, in order.
EventsDistinct ==
  /\ SourceEvents \in Seq(ToSet(SourceEvents))
  /\ \A i, j \in 1..Len(SourceEvents) : SourceEvents[i] = SourceEvents[j] => i = j

RangesOrdered ==
  \A p \in Builders : \A r \in Ranges[p] : r[1] \in Nat \ {0} /\ r[2] \in Nat /\ r[1] <= r[2]

Parameters == EventsDistinct /\ RangesOrdered /\ RowCounts \subseteq Nat

TableEvents == ToSet(SourceEvents)
FirstRows(k) == ToSet(SubSeq(SourceEvents, 1, k))

\* A table: every version holds the first rows, at least those of the version before.
GrowingTable(t) ==
  /\ t \in Seq(SUBSET TableEvents)
  /\ \A v \in 1..Len(t) : \E k \in 0..Len(SourceEvents) : t[v] = FirstRows(k)
  /\ \A v, w \in 1..Len(t) : v <= w => t[v] \subseteq t[w]

TablesSound(ts) ==
  /\ ts \in Seq(Seq(SUBSET TableEvents)) /\ Len(ts) > 0
  /\ \A t \in 1..Len(ts) : GrowingTable(ts[t])

\* Versions and tables are only added.
Grows(ts, us) ==
  /\ Len(ts) <= Len(us)
  /\ \A t \in 1..Len(ts) :
       Len(ts[t]) <= Len(us[t]) /\ \A v \in 1..Len(ts[t]) : us[t][v] = ts[t][v]

BuildFields == {"at", "start", "end", "table", "seen", "kind", "version", "own"}

BuildTyped(c) ==
  /\ c = [x \in BuildFields |-> c[x]]
  /\ c.at \in {"read", "build"} /\ c.kind \in {"segment", "outbox", "batch"}
  /\ c.start \in Nat \ {0} /\ c.end \in Nat /\ c.start <= c.end
  /\ c.version \in c.start .. c.end
  /\ c.seen \in Seq(SUBSET TableEvents)
  /\ c.at = "read" => c.own = FALSE

\* What a command has read is of one table, each version at its place; what it
\* reads first has nothing to be compared with.
ReadOf(c, ts) ==
  LET read == c.start + Len(c.seen) - 2 IN
  /\ c.table \in 1..Len(ts) /\ read \in 1..Len(ts[c.table])
  /\ \A i \in 1..Len(c.seen) : c.seen[i] = Snapshot(ts[c.table], c.start + i - 2)
  /\ IF c.at = "read" THEN Len(c.seen) > 0 /\ read < c.end ELSE read = c.end

NothingRead(c) == c.at = "read" /\ c.seen = IF c.start = 1 THEN <<{}>> ELSE <<>>

\* The artifact a command is at, as its table gives it.
FirstOf(c) == IF c.kind = "segment" THEN c.version ELSE c.start
LastOf(c) == IF c.kind = "segment" THEN c.version ELSE c.end
TargetOf(c, ts) ==
  Artifact(c.kind, c.table, FirstOf(c), LastOf(c), NewRows(ts[c.table], FirstOf(c), LastOf(c)))

\* What a batch rests on.
Supports(a) == {[a EXCEPT !.kind = "outbox"]} \cup Segments(a)

BuildSound(c, ts, done) ==
  /\ BuildTyped(c)
  /\ NothingRead(c) \/ ReadOf(c, ts)
  /\ c.at = "build" /\ c.own = TRUE /\ c.kind = "batch" => Supports(TargetOf(c, ts)) \subseteq done

Builds ==
  /\ build = [p \in Builders |-> build[p]]
  /\ \A p \in Builders : build[p] # None => BuildSound(build[p], tables, complete)

\* A complete artifact is of versions its table had and holds what is new in
\* them; a batch's outbox and segments are complete.
ArtifactTrue(a, ts) ==
  /\ a = Artifact(a.kind, a.table, a.start, a.end, a.ready)
  /\ a.table \in 1..Len(ts)
  /\ a.start \in Nat \ {0} /\ a.end \in 0..Len(ts[a.table])
  /\ a.ready = NewRows(ts[a.table], a.start, a.end)

CompleteTrue(ts, done) ==
  \A a \in done : ArtifactTrue(a, ts) /\ (a.kind = "batch" => Supports(a) \subseteq done)

OutboxInv == TablesSound(tables) /\ Builds /\ CompleteTrue(tables, complete)

-----------------------------------------------------------------------------
(* The rows of a table. *)

LEMMA SetOfPrefix ==
  ASSUME EventsDistinct, NEW k \in 0..Len(SourceEvents)
  PROVE  /\ FirstRows(k) = {SourceEvents[i] : i \in 1..k}
         /\ FirstRows(k) \subseteq TableEvents
<1>1. Len(SourceEvents) \in Nat /\ SourceEvents \in Seq(ToSet(SourceEvents))
  BY DEF EventsDistinct
<1>2. Len(SubSeq(SourceEvents, 1, k)) = k
      /\ \A i \in 1..k : SubSeq(SourceEvents, 1, k)[i] = SourceEvents[i]
  BY <1>1
<1>3. DOMAIN SubSeq(SourceEvents, 1, k) = 1..k
  BY <1>1
<1>4. FirstRows(k) = {SourceEvents[i] : i \in 1..k}
  <2>1. FirstRows(k) = {SubSeq(SourceEvents, 1, k)[i] : i \in 1..k}
    BY <1>3, Zenon DEF FirstRows, ToSet
  <2> QED
    BY <2>1, <1>2, Zenon
<1>5. \A i \in 1..k : SourceEvents[i] \in TableEvents
  BY <1>1 DEF TableEvents
<1> QED
  BY <1>4, <1>5

LEMMA PrefixSize ==
  ASSUME EventsDistinct, NEW k \in 0..Len(SourceEvents)
  PROVE  Cardinality(FirstRows(k)) = k
<1>1. FirstRows(k) = {SourceEvents[i] : i \in 1..k}
  BY SetOfPrefix
<1>2. Len(SourceEvents) \in Nat
  BY DEF EventsDistinct
<1> DEFINE f == [i \in 1..k |-> SourceEvents[i]]
<1>3. f \in Bijection(1..k, FirstRows(k))
  <2>1. \A i, j \in 1..k : f[i] = f[j] => i = j
    BY <1>2 DEF EventsDistinct
  <2> QED
    BY <1>1, <2>1, Fun_IsBij, Zenon
<1>4. ExistsBijection(1..k, FirstRows(k))
  BY <1>3, Zenon DEF ExistsBijection
<1> QED
  BY <1>4, FS_CountingElements

LEMMA PrefixesGrow ==
  ASSUME EventsDistinct, NEW j \in 0..Len(SourceEvents), NEW k \in 0..Len(SourceEvents), j <= k
  PROVE  FirstRows(j) \subseteq FirstRows(k)
<1>1. Len(SourceEvents) \in Nat
  BY DEF EventsDistinct
<1>2. \A i \in 1..j : i \in 1..k
  BY <1>1
<1>3. FirstRows(j) = {SourceEvents[i] : i \in 1..j} /\ FirstRows(k) = {SourceEvents[i] : i \in 1..k}
  BY SetOfPrefix
<1> QED
  BY <1>2, <1>3

\* The rows that are new in one version.
NewIn(t, v) == {[event |-> x, version |-> v] : x \in Snapshot(t, v) \ Snapshot(t, v - 1)}

\* The rows that are new in a range of versions are those of each.
LEMMA NewRowsOf ==
  ASSUME NEW t, NEW s, NEW e
  PROVE  \A r : r \in NewRows(t, s, e) <=> \E v \in s..e : r \in NewIn(t, v)
<1>1. NewRows(t, s, e) = UNION {NewIn(t, v) : v \in s..e}
  BY Zenon DEF NewRows, NewIn
<1> QED
  BY <1>1

LEMMA VersionOfNew ==
  ASSUME NEW t, NEW v, NEW r \in NewIn(t, v)
  PROVE  r = [event |-> r.event, version |-> v] /\ r.version = v
         /\ r.event \in Snapshot(t, v) /\ r.event \notin Snapshot(t, v - 1)
BY DEF NewIn

LEMMA NewRowsWithin ==
  ASSUME NEW t, NEW a \in Nat \ {0}, NEW b \in Nat, NEW s \in a..b, NEW e \in Nat, e <= b
  PROVE  InVersions(NewRows(t, a, b), s, e) = NewRows(t, s, e)
<1>1. \A v \in s..e : v \in a..b
  OBVIOUS
<1>2. \A r : r \in NewRows(t, a, b) <=> \E v \in a..b : r \in NewIn(t, v)
  BY NewRowsOf, Zenon
<1>3. \A r : r \in NewRows(t, s, e) <=> \E v \in s..e : r \in NewIn(t, v)
  BY NewRowsOf, Zenon
<1>4. \A v : \A r \in NewIn(t, v) : r.version = v
  BY VersionOfNew, Zenon
<1> QED
  BY <1>1, <1>2, <1>3, <1>4 DEF InVersions

LEMMA NewRowsSame ==
  ASSUME NEW t, NEW u, NEW s \in Nat \ {0}, NEW e \in Nat,
         \A v \in 1..e : t[v] = u[v]
  PROVE  NewRows(t, s, e) = NewRows(u, s, e)
<1>1. \A v \in s..e : v \in 1..e /\ (v = 1 \/ v - 1 \in 1..e)
  OBVIOUS
<1>2. \A v \in s..e : Snapshot(t, v) = Snapshot(u, v) /\ Snapshot(t, v - 1) = Snapshot(u, v - 1)
  BY <1>1 DEF Snapshot
<1>3. \A v \in s..e : NewIn(t, v) = NewIn(u, v)
  BY <1>2, Zenon DEF NewIn
<1>4. /\ \A r : r \in NewRows(t, s, e) <=> \E v \in s..e : r \in NewIn(t, v)
      /\ \A r : r \in NewRows(u, s, e) <=> \E v \in s..e : r \in NewIn(u, v)
  BY NewRowsOf, Zenon
<1> QED
  BY <1>3, <1>4

\* A command that has read a range knows what is new in it.
LEMMA ReadyIsNew ==
  ASSUME NEW p \in Builders, NEW t, BuildTyped(build[p]), 
         Len(build[p].seen) = build[p].end - build[p].start + 2,
         \A i \in 1..Len(build[p].seen) : build[p].seen[i] = Snapshot(t, build[p].start + i - 2)
  PROVE  Ready(p) = NewRows(t, build[p].start, build[p].end)
<1> DEFINE c == build[p]
           n == Len(c.seen)
           Shift(r) == [r EXCEPT !.version = @ + c.start - 2]
<1>1. c.start \in Nat \ {0} /\ c.end \in Nat /\ c.start <= c.end /\ n = c.end - c.start + 2 /\ n \in Nat
  BY DEF BuildTyped
<1>2. Ready(p) = {Shift(r) : r \in NewRows(c.seen, 2, n)}
  BY Zenon DEF Ready, ReadSoFar
<1>3. ASSUME NEW i \in 2..n
      PROVE  {Shift(r) : r \in NewIn(c.seen, i)} = NewIn(t, c.start + i - 2)
  <2> DEFINE v == c.start + i - 2
             D == Snapshot(t, v) \ Snapshot(t, v - 1)
  <2>1. i \in 1..n /\ i - 1 \in 1..n /\ c.start + (i - 1) - 2 = v - 1 /\ i # 0 /\ i - 1 # 0
    BY <1>1
  <2>2. Snapshot(c.seen, i) = Snapshot(t, v) /\ Snapshot(c.seen, i - 1) = Snapshot(t, v - 1)
    <3>1. Snapshot(c.seen, i) = c.seen[i] /\ Snapshot(c.seen, i - 1) = c.seen[i - 1]
      BY <2>1, Zenon DEF Snapshot
    <3>2. c.seen[i] = Snapshot(t, c.start + i - 2) /\ c.seen[i - 1] = Snapshot(t, c.start + (i - 1) - 2)
      BY <2>1, Zenon
    <3> QED
      BY <3>1, <3>2, <2>1, Zenon
  <2>3. NewIn(c.seen, i) = {[event |-> x, version |-> i] : x \in D}
    BY <2>2, Zenon DEF NewIn
  <2>4. NewIn(t, v) = {[event |-> x, version |-> v] : x \in D}
    BY Zenon DEF NewIn
  <2>5. \A x : Shift([event |-> x, version |-> i]) = [event |-> x, version |-> v]
    BY <1>1
  <2> HIDE DEF D, Shift, v, c
  <2>6. {Shift(r) : r \in {[event |-> x, version |-> i] : x \in D}}
        = {Shift([event |-> x, version |-> i]) : x \in D}
    BY Zenon
  <2>7. {Shift([event |-> x, version |-> i]) : x \in D} = {[event |-> x, version |-> v] : x \in D}
    BY <2>5, Zenon
  <2> QED
    BY <2>3, <2>4, <2>6, <2>7, Zenon DEF v
<1>4. \A r : r \in NewRows(c.seen, 2, n) <=> \E i \in 2..n : r \in NewIn(c.seen, i)
  BY NewRowsOf, Zenon
<1>5. \A r : r \in NewRows(t, c.start, c.end) <=> \E v \in c.start..c.end : r \in NewIn(t, v)
  BY NewRowsOf, Zenon
<1>6. \A v \in c.start..c.end : v - c.start + 2 \in 2..n /\ c.start + (v - c.start + 2) - 2 = v
  BY <1>1
<1>7. \A i \in 2..n : c.start + i - 2 \in c.start..c.end
  BY <1>1
<1> HIDE DEF c, n, Shift
<1>8. ASSUME NEW q, q \in Ready(p) PROVE q \in NewRows(t, c.start, c.end)
  <2>1. PICK r \in NewRows(c.seen, 2, n) : q = Shift(r)
    BY <1>2, <1>8, Zenon
  <2>2. PICK i \in 2..n : r \in NewIn(c.seen, i)
    BY <1>4, <2>1, Zenon
  <2>3. q \in NewIn(t, c.start + i - 2)
    BY <1>3, <2>1, <2>2, Zenon
  <2> QED
    BY <1>5, <1>7, <2>3, Zenon
<1>9. ASSUME NEW q, q \in NewRows(t, c.start, c.end) PROVE q \in Ready(p)
  <2>1. PICK v \in c.start..c.end : q \in NewIn(t, v)
    BY <1>5, <1>9, Zenon
  <2>2. PICK i \in 2..n : c.start + i - 2 = v
    BY <1>6, Zenon
  <2>3. q \in {Shift(r) : r \in NewIn(c.seen, i)}
    BY <1>3, <2>1, <2>2, Zenon
  <2>4. PICK r \in NewIn(c.seen, i) : q = Shift(r)
    BY <2>3, Zenon
  <2>5. r \in NewRows(c.seen, 2, n)
    BY <1>4, <2>2, <2>4, Zenon
  <2> QED
    BY <1>2, <2>4, <2>5, Zenon
<1> QED
  BY <1>8, <1>9 DEF c

-----------------------------------------------------------------------------
(* What is true of artifacts and commands stays true while tables grow. *)

LEMMA TableTypes ==
  ASSUME NEW ts, TablesSound(ts)
  PROVE  /\ Len(ts) \in Nat
         /\ \A t \in 1..Len(ts) : ts[t] \in Seq(SUBSET TableEvents) /\ Len(ts[t]) \in Nat
BY DEF TablesSound

LEMMA TrueWhileGrowing ==
  ASSUME NEW ts, NEW us, TablesSound(ts), TablesSound(us), Grows(ts, us), NEW a, ArtifactTrue(a, ts)
  PROVE  ArtifactTrue(a, us)
<1>1. a.table \in 1..Len(ts) /\ a.start \in Nat \ {0} /\ a.end \in 0..Len(ts[a.table])
  BY DEF ArtifactTrue
<1>2. /\ Len(ts) \in Nat /\ Len(us) \in Nat /\ a.table \in 1..Len(us)
      /\ Len(ts[a.table]) \in Nat /\ Len(us[a.table]) \in Nat
  BY <1>1, TableTypes DEF Grows
<1>3. Len(ts[a.table]) <= Len(us[a.table]) /\ \A v \in 1..a.end : ts[a.table][v] = us[a.table][v]
  <2>1. /\ Len(ts[a.table]) <= Len(us[a.table])
        /\ \A v \in 1..Len(ts[a.table]) : us[a.table][v] = ts[a.table][v]
    BY <1>1 DEF Grows
  <2>2. \A v \in 1..a.end : v \in 1..Len(ts[a.table])
    BY <1>1, <1>2
  <2> QED BY <2>1, <2>2
<1>4. NewRows(ts[a.table], a.start, a.end) = NewRows(us[a.table], a.start, a.end)
  <2>1. a.end \in Nat /\ a.start \in Nat \ {0}
    BY <1>1, <1>2
  <2> QED
    BY <1>3, <2>1, NewRowsSame, Zenon
<1> QED
  BY <1>1, <1>2, <1>3, <1>4 DEF ArtifactTrue

LEMMA ReadInBuild ==
  ASSUME NEW c, NEW ts, TablesSound(ts), BuildTyped(c), NothingRead(c) \/ ReadOf(c, ts), c.at = "build"
  PROVE  /\ ReadOf(c, ts) /\ Len(c.seen) = c.end - c.start + 2
         /\ c.table \in 1..Len(ts) /\ c.end \in 1..Len(ts[c.table])
         /\ c.start \in 1..c.end /\ FirstOf(c) \in c.start..c.end /\ LastOf(c) \in FirstOf(c)..c.end
<1>1. ReadOf(c, ts)
  BY DEF NothingRead
<1>2. Len(c.seen) \in Nat /\ Len(ts[c.table]) \in Nat
  BY <1>1, TableTypes DEF BuildTyped, ReadOf
<1>3. /\ c.table \in 1..Len(ts) /\ c.start + Len(c.seen) - 2 \in 1..Len(ts[c.table])
      /\ c.start + Len(c.seen) - 2 = c.end
  BY <1>1 DEF ReadOf
<1>4. /\ c.start \in Nat \ {0} /\ c.end \in Nat /\ c.start <= c.end
      /\ c.version \in c.start .. c.end
  BY DEF BuildTyped
<1>5. c.start \in 1..c.end /\ Len(c.seen) = c.end - c.start + 2 /\ c.end \in 1..Len(ts[c.table])
  BY <1>2, <1>3, <1>4
<1>6. FirstOf(c) \in c.start..c.end /\ LastOf(c) \in FirstOf(c)..c.end
  BY <1>4 DEF FirstOf, LastOf
<1> QED
  BY <1>1, <1>3, <1>5, <1>6

LEMMA PlaceOfSeen ==
  ASSUME NEW a \in Nat \ {0}, NEW n \in Nat, NEW i \in 1..n, NEW m \in Nat, a + n - 2 <= m
  PROVE  a + i - 2 = 0 \/ a + i - 2 \in 1..m
OBVIOUS

LEMMA SoundWhileGrowing ==
  ASSUME NEW ts, NEW us, TablesSound(ts), TablesSound(us), Grows(ts, us),
         NEW done, NEW more, done \subseteq more,
         NEW c, BuildSound(c, ts, done)
  PROVE  BuildSound(c, us, more)
<1>0. BuildTyped(c) /\ (NothingRead(c) \/ ReadOf(c, ts))
  BY DEF BuildSound
<1>1. ASSUME ReadOf(c, ts) PROVE ReadOf(c, us)
  <2>4. c.table \in 1..Len(ts) /\ c.start \in Nat \ {0}
    BY <1>0, <1>1 DEF ReadOf, BuildTyped
  <2>5. /\ Len(ts) \in Nat /\ Len(us) \in Nat /\ Len(ts[c.table]) \in Nat /\ c.table \in 1..Len(us)
        /\ Len(us[c.table]) \in Nat /\ Len(c.seen) \in Nat
    BY <1>0, <2>4, TableTypes DEF Grows, BuildTyped
  <2>1. c.start + Len(c.seen) - 2 \in 1..Len(ts[c.table]) /\ Len(ts[c.table]) <= Len(us[c.table])
        /\ \A i \in 1..Len(c.seen) : c.seen[i] = Snapshot(ts[c.table], c.start + i - 2)
    BY <1>1 DEF ReadOf, Grows
  <2>2. ASSUME NEW i \in 1..Len(c.seen)
        PROVE  Snapshot(ts[c.table], c.start + i - 2) = Snapshot(us[c.table], c.start + i - 2)
    <3>1. c.start + Len(c.seen) - 2 <= Len(ts[c.table])
      BY <2>1, <2>5
    <3>2. c.start + i - 2 = 0 \/ c.start + i - 2 \in 1..Len(ts[c.table])
      BY <2>4, <2>5, <3>1, PlaceOfSeen, Zenon
    <3> QED
      BY <2>4, <3>2 DEF Snapshot, Grows
  <2>3. c.start + Len(c.seen) - 2 \in 1..Len(us[c.table])
    BY <2>1, <2>5
  <2> QED
    BY <1>1, <2>1, <2>2, <2>3, <2>5 DEF ReadOf
<1>2. ASSUME c.at = "build" PROVE TargetOf(c, us) = TargetOf(c, ts)
  <2>1. /\ c.table \in 1..Len(ts) /\ c.end \in 1..Len(ts[c.table])
        /\ c.start \in 1..c.end /\ FirstOf(c) \in c.start..c.end /\ LastOf(c) \in FirstOf(c)..c.end
    BY <1>0, <1>2, ReadInBuild
  <2>2. Len(ts[c.table]) \in Nat
    BY <2>1, TableTypes
  <2>3. \A v \in 1..LastOf(c) : v \in 1..Len(ts[c.table])
    BY <2>1, <2>2
  <2>4. \A v \in 1..LastOf(c) : us[c.table][v] = ts[c.table][v]
    BY <2>1, <2>3, Zenon DEF Grows
  <2>5. FirstOf(c) \in Nat \ {0} /\ LastOf(c) \in Nat
    BY <2>1, <2>2
  <2>6. NewRows(us[c.table], FirstOf(c), LastOf(c)) = NewRows(ts[c.table], FirstOf(c), LastOf(c))
    BY <2>4, <2>5, NewRowsSame, Zenon
  <2> QED
    BY <2>6, Zenon DEF TargetOf
<1> QED
  BY <1>0, <1>1, <1>2 DEF BuildSound

\* A step of one command: nothing or a sound state follows, and what becomes
\* complete is true.
LEMMA CommandStep ==
  ASSUME OutboxInv, NEW p \in Builders, NEW c, tables' = tables, build' = [build EXCEPT ![p] = c],
         complete \subseteq complete', CompleteTrue(tables, complete'),
         c # None => BuildSound(c, tables, complete')
  PROVE  OutboxInv'
<1>1. \A q \in Builders : build'[q] = IF q = p THEN c ELSE build[q]
  BY DEF OutboxInv, Builds
<1>2. build' = [q \in Builders |-> build'[q]]
  BY DEF OutboxInv, Builds
<1>3. TablesSound(tables) /\ Grows(tables, tables)
  BY TableTypes DEF OutboxInv, Grows
<1>4. ASSUME NEW q \in Builders, build'[q] # None PROVE BuildSound(build'[q], tables, complete')
  BY <1>1, <1>3, <1>4, SoundWhileGrowing DEF OutboxInv, Builds
<1> QED
  BY <1>2, <1>3, <1>4 DEF OutboxInv, Builds

LEMMA BuildEnds ==
  ASSUME OutboxInv, NEW p \in Builders, Fail(p), UNCHANGED <<tables, complete>>
  PROVE  OutboxInv'
BY CommandStep DEF Fail, OutboxInv

LEMMA TablesStep ==
  ASSUME OutboxInv, TablesSound(tables'), Grows(tables, tables'), UNCHANGED <<complete, build>>
  PROVE  OutboxInv'
<1>1. \A p \in Builders : build[p] # None => BuildSound(build[p], tables', complete)
  BY SoundWhileGrowing DEF OutboxInv, Builds
<1>2. CompleteTrue(tables', complete)
  BY TrueWhileGrowing DEF OutboxInv, CompleteTrue
<1> QED
  BY <1>1, <1>2 DEF OutboxInv, Builds

-----------------------------------------------------------------------------
(* The table. *)

LEMMA RowsAppended ==
  ASSUME EventsDistinct, NEW t, GrowingTable(t), NEW k \in 0..Len(SourceEvents),
         t # <<>> => Cardinality(t[Len(t)]) <= k
  PROVE  /\ GrowingTable(Append(t, FirstRows(k)))
         /\ Len(Append(t, FirstRows(k))) = Len(t) + 1 /\ Len(t) \in Nat
         /\ \A v \in 1..Len(t) : Append(t, FirstRows(k))[v] = t[v]
<1> DEFINE u == Append(t, FirstRows(k))
<1>1. t \in Seq(SUBSET TableEvents) /\ Len(t) \in Nat /\ FirstRows(k) \in SUBSET TableEvents
  BY SetOfPrefix DEF GrowingTable
<1>2. /\ u \in Seq(SUBSET TableEvents) /\ Len(u) = Len(t) + 1 /\ u[Len(t) + 1] = FirstRows(k)
      /\ \A v \in 1..Len(t) : u[v] = t[v]
  BY <1>1
<1>3. \A v \in 1..Len(t) : t[v] \subseteq FirstRows(k)
  <2>1. SUFFICES ASSUME NEW v \in 1..Len(t) PROVE t[v] \subseteq FirstRows(k)
    OBVIOUS
  <2>2. Len(t) \in 1..Len(t) /\ v <= Len(t) /\ t # <<>>
    BY <1>1
  <2>3. PICK j \in 0..Len(SourceEvents) : t[Len(t)] = FirstRows(j)
    BY <2>2 DEF GrowingTable
  <2>4. j <= k
    BY <2>2, <2>3, PrefixSize
  <2>5. t[v] \subseteq t[Len(t)]
    BY <2>2 DEF GrowingTable
  <2> QED
    BY <2>3, <2>4, <2>5, PrefixesGrow
<1> HIDE DEF u
<1>4. \A v \in 1..Len(u) : v \in 1..Len(t) \/ v = Len(t) + 1
  BY <1>1, <1>2
<1>5. \A v \in 1..Len(u) : \E j \in 0..Len(SourceEvents) : u[v] = FirstRows(j)
  BY <1>2, <1>4 DEF GrowingTable
<1>6. ASSUME NEW v \in 1..Len(u), NEW w \in 1..Len(u), v <= w PROVE u[v] \subseteq u[w]
  <2>1. CASE w \in 1..Len(t)
    <3>1. v \in 1..Len(t)
      BY <1>1, <1>2, <1>6, <2>1
    <3> QED
      BY <1>2, <1>6, <2>1, <3>1 DEF GrowingTable
  <2>2. CASE w = Len(t) + 1
    BY <1>2, <1>3, <1>4, <2>2
  <2> QED
    BY <1>4, <2>1, <2>2
<1>7. GrowingTable(u)
  BY <1>2, <1>5, <1>6 DEF GrowingTable
<1> QED
  BY <1>1, <1>2, <1>7 DEF u

LEMMA LiveTable ==
  ASSUME TablesSound(tables)
  PROVE  /\ Live \in 1..Len(tables) /\ Live \in Nat /\ GrowingTable(Table) /\ Len(Table) \in Nat
         /\ Table \in Seq(SUBSET TableEvents)
<1>1. Len(tables) \in Nat /\ Len(tables) \in 1..Len(tables)
  BY DEF TablesSound
<1>2. GrowingTable(tables[Len(tables)])
  BY <1>1 DEF TablesSound
<1> QED
  BY <1>1, <1>2 DEF Live, Table, GrowingTable

LEMMA AppendVersionInv ==
  ASSUME Parameters, OutboxInv, NEW rows \in RowCounts, AppendVersion(rows)
  PROVE  OutboxInv'
<1> DEFINE held == IF Table = <<>> THEN 0 ELSE Cardinality(Last(Table))
           u == Append(Table, FirstRows(held + rows))
<1>1. TablesSound(tables) /\ EventsDistinct /\ RowCounts \subseteq Nat
  BY DEF OutboxInv, Parameters
<1>2. /\ Live \in 1..Len(tables) /\ Live \in Nat /\ GrowingTable(Table) /\ Len(Table) \in Nat
      /\ Table \in Seq(SUBSET TableEvents) /\ tables \in Seq(Seq(SUBSET TableEvents)) /\ Len(tables) \in Nat
  BY <1>1, LiveTable DEF TablesSound
<1>3. held \in Nat
  <2>1. CASE Table # <<>>
    <3>1. Len(Table) \in 1..Len(Table)
      BY <1>2, <2>1
    <3>2. PICK j \in 0..Len(SourceEvents) : Table[Len(Table)] = FirstRows(j)
      BY <1>2, <3>1 DEF GrowingTable
    <3>3. Cardinality(Last(Table)) = j
      BY <1>1, <3>2, PrefixSize DEF Last
    <3>4. j \in Nat
      BY <1>1 DEF EventsDistinct
    <3> QED
      BY <2>1, <3>3, <3>4
  <2> QED
    BY <2>1
<1>4. held + rows <= Len(SourceEvents) /\ tables' = [tables EXCEPT ![Live] = u]
      /\ UNCHANGED <<complete, build>>
  BY DEF AppendVersion, FirstRows, Table
<1>5. held + rows \in 0..Len(SourceEvents) /\ held <= held + rows
  BY <1>1, <1>3, <1>4 DEF EventsDistinct
<1>6. Table # <<>> => Cardinality(Table[Len(Table)]) <= held + rows
  BY <1>5 DEF Last
<1> HIDE DEF held
<1>7. /\ GrowingTable(u) /\ Len(u) = Len(Table) + 1
      /\ \A v \in 1..Len(Table) : u[v] = Table[v]
  BY <1>1, <1>2, <1>5, <1>6, RowsAppended, Zenon
<1> HIDE DEF u
<1>8. /\ Len(tables') = Len(tables) /\ tables'[Live] = u
      /\ \A t \in 1..Len(tables) : t # Live => tables'[t] = tables[t]
      /\ tables' \in Seq(Seq(SUBSET TableEvents))
  BY <1>2, <1>4, <1>7 DEF GrowingTable
<1>9. TablesSound(tables')
  BY <1>1, <1>7, <1>8 DEF TablesSound
<1>10. Grows(tables, tables')
  <2>1. SUFFICES ASSUME NEW t \in 1..Len(tables)
        PROVE Len(tables[t]) <= Len(tables'[t]) /\ \A v \in 1..Len(tables[t]) : tables'[t][v] = tables[t][v]
    BY <1>2, <1>8 DEF Grows
  <2>2. Len(tables[t]) \in Nat
    BY <1>1, TableTypes
  <2>3. CASE t = Live
    <3>1. tables[t] = Table /\ tables'[t] = u
      BY <1>8, <2>3, Zenon DEF Table
    <3> QED
      BY <1>2, <1>7, <3>1
  <2>4. CASE t # Live
    BY <1>8, <2>2, <2>4
  <2> QED
    BY <2>3, <2>4
<1> QED
  BY <1>4, <1>9, <1>10, TablesStep

LEMMA ResetTableInv ==
  ASSUME OutboxInv, ResetTable
  PROVE  OutboxInv'
<1>1. TablesSound(tables) /\ tables \in Seq(Seq(SUBSET TableEvents)) /\ Len(tables) \in Nat
  BY DEF OutboxInv, TablesSound
<1>2. tables' = Append(tables, <<>>) /\ UNCHANGED <<complete, build>>
  BY DEF ResetTable
<1>3. <<>> \in Seq(SUBSET TableEvents)
  OBVIOUS
<1>4. /\ tables' \in Seq(Seq(SUBSET TableEvents)) /\ Len(tables') = Len(tables) + 1
      /\ tables'[Len(tables) + 1] = <<>> /\ \A t \in 1..Len(tables) : tables'[t] = tables[t]
  BY <1>1, <1>2, <1>3
<1>5. GrowingTable(<<>>)
  BY <1>3 DEF GrowingTable
<1>6. \A t \in 1..Len(tables') : t \in 1..Len(tables) \/ t = Len(tables) + 1
  BY <1>1, <1>4
<1>7. TablesSound(tables')
  <2>1. \A t \in 1..Len(tables') : GrowingTable(tables'[t])
    BY <1>1, <1>4, <1>5, <1>6, Zenon DEF TablesSound
  <2> QED
    BY <1>1, <1>4, <2>1 DEF TablesSound
<1>8. Grows(tables, tables')
  BY <1>1, <1>4, TableTypes DEF Grows
<1> QED
  BY <1>2, <1>7, <1>8, TablesStep

-----------------------------------------------------------------------------
(* The commands. *)

LEMMA AtBuild ==
  ASSUME OutboxInv, NEW p \in Builders, NEW at, BuildAt(p, at)
  PROVE  /\ build[p] # None /\ build[p].at = at /\ BuildSound(build[p], tables, complete)
         /\ BuildTyped(build[p]) /\ (NothingRead(build[p]) \/ ReadOf(build[p], tables))
         /\ TablesSound(tables) /\ CompleteTrue(tables, complete)
BY DEF BuildAt, OutboxInv, Builds, BuildSound

LEMMA BeginInv ==
  ASSUME Parameters, OutboxInv, NEW p \in Builders, NEW range \in Ranges[p], Begin(p, range)
  PROVE  OutboxInv'
<1>1. range[1] \in Nat \ {0} /\ range[2] \in Nat /\ range[1] <= range[2]
  BY DEF Parameters, RangesOrdered
<1>2. PICK c : c = [at |-> "read", start |-> range[1], end |-> range[2], table |-> None,
                    seen |-> IF range[1] = 1 THEN <<{}>> ELSE <<>>, kind |-> "segment",
                    version |-> range[1], own |-> FALSE]
  OBVIOUS
<1>3. c = [x \in BuildFields |-> c[x]]
  BY <1>2 DEF BuildFields
<1>4. /\ c.at = "read" /\ c.start = range[1] /\ c.end = range[2] /\ c.kind = "segment"
      /\ c.version = range[1] /\ c.own = FALSE /\ c.seen = IF range[1] = 1 THEN <<{}>> ELSE <<>>
  BY <1>2
<1>5. c.seen \in Seq(SUBSET TableEvents)
  <2>1. <<>> \in Seq(SUBSET TableEvents) /\ <<{}>> \in Seq(SUBSET TableEvents)
    OBVIOUS
  <2> QED
    BY <1>4, <2>1, Zenon
<1>6. BuildTyped(c)
  BY <1>1, <1>3, <1>4, <1>5 DEF BuildTyped
<1>7. NothingRead(c)
  BY <1>4 DEF NothingRead
<1>8. BuildSound(c, tables, complete)
  BY <1>4, <1>6, <1>7 DEF BuildSound
<1>9. build' = [build EXCEPT ![p] = c] /\ UNCHANGED <<tables, complete>>
  BY <1>2 DEF Begin
<1> QED
  BY <1>8, <1>9, CommandStep DEF OutboxInv

LEMMA ReadVersionInv ==
  ASSUME OutboxInv, NEW p \in Builders, ReadVersion(p)
  PROVE  OutboxInv'
<1> DEFINE c == build[p]
           n == Len(c.seen)
           v == c.start + n - 1
           new == Snapshot(Table, v)
<1>1. /\ c # None /\ c.at = "read" /\ BuildTyped(c) /\ (NothingRead(c) \/ ReadOf(c, tables))
      /\ TablesSound(tables) /\ CompleteTrue(tables, complete)
  BY AtBuild DEF ReadVersion
<1>2. UNCHANGED <<tables, complete>>
  BY DEF ReadVersion
<1>3. CASE Fail(p)
  BY <1>2, <1>3, BuildEnds
<1>4. CASE /\ Reading(p, new) /\ ~(v > Len(Table))
           /\ ~(v > 1 /\ c.seen # <<>> /\ c.table # Live)
  <2>1. /\ c.start \in Nat \ {0} /\ c.end \in Nat /\ c.start <= c.end /\ n \in Nat
        /\ c.seen \in Seq(SUBSET TableEvents) /\ c.own = FALSE /\ v \in Int
    BY <1>1 DEF BuildTyped
  <2>2. /\ Live \in 1..Len(tables) /\ Live \in Nat /\ Len(Table) \in Nat
        /\ Table \in Seq(SUBSET TableEvents) /\ Table = tables[Live]
    BY <1>1, LiveTable DEF Table
  <2>3. v >= 1 /\ v <= c.end
    <3>1. CASE NothingRead(c)
      <4>1. CASE c.start = 1
        <5>1. n = 1
          BY <3>1, <4>1 DEF NothingRead
        <5> QED
          BY <2>1, <4>1, <5>1
      <4>2. CASE c.start # 1
        <5>1. n = 0
          BY <3>1, <4>2 DEF NothingRead
        <5>2. c.start >= 2
          BY <2>1, <4>2
        <5> QED
          BY <2>1, <5>1, <5>2
      <4> QED
        BY <4>1, <4>2
    <3>2. CASE ReadOf(c, tables)
      BY <1>1, <2>1, <3>2 DEF ReadOf
    <3> QED
      BY <1>1, <3>1, <3>2
  <2>4. \A i \in 1..n : c.seen[i] = Snapshot(Table, c.start + i - 2)
    <3>1. CASE NothingRead(c)
      <4>1. CASE c.start = 1
        <5>1. c.seen = <<{}>>
          BY <3>1, <4>1 DEF NothingRead
        <5>2. \A i \in 1..n : i = 1 /\ c.start + i - 2 = 0 /\ c.seen[i] = {}
          BY <4>1, <5>1
        <5> QED
          BY <5>2 DEF Snapshot
      <4>2. CASE c.start # 1
        BY <3>1, <4>2 DEF NothingRead
      <4> QED
        BY <4>1, <4>2
    <3>2. CASE ReadOf(c, tables)
      <4>1. v > 1 /\ n > 0
        BY <1>1, <2>1, <3>2 DEF ReadOf
      <4>2. c.seen # <<>>
        BY <4>1
      <4>3. c.table = Live
        BY <1>4, <4>1, <4>2
      <4> QED
        BY <2>2, <3>2, <4>3 DEF ReadOf
    <3> QED
      BY <1>1, <3>1, <3>2
  <2>5. v \in 1..Len(Table) /\ new = Table[v] /\ new \in SUBSET TableEvents
    <3>1. v \in 1..Len(Table)
      BY <1>4, <2>1, <2>2, <2>3
    <3> QED
      BY <2>2, <3>1 DEF Snapshot
  <2> HIDE DEF v, new
  <2>6. PICK s : s = Append(c.seen, new)
    OBVIOUS
  <2>7. /\ s \in Seq(SUBSET TableEvents) /\ Len(s) = n + 1 /\ s[n + 1] = new
        /\ \A i \in 1..n : s[i] = c.seen[i]
    BY <2>1, <2>5, <2>6
  <2>8. v = c.start + n - 1 /\ c.start + (n + 1) - 2 = v
    BY <2>1 DEF v
  <2>9. \A i \in 1..n + 1 : s[i] = Snapshot(Table, c.start + i - 2)
    <3>1. SUFFICES ASSUME NEW i \in 1..n + 1 PROVE s[i] = Snapshot(Table, c.start + i - 2)
      OBVIOUS
    <3>2. CASE i \in 1..n
      BY <2>4, <2>7, <3>2, Zenon
    <3>3. CASE i = n + 1
      BY <2>7, <2>8, <3>3, Zenon DEF new
    <3> QED
      BY <2>1, <3>2, <3>3
  <2>10. PICK d : d = [c EXCEPT !.seen = s, !.table = Live, !.at = IF v = c.end THEN "build" ELSE "read"]
    OBVIOUS
  <2>11. /\ d = [x \in BuildFields |-> d[x]] /\ d.seen = s /\ d.table = Live
         /\ d.at = IF v = c.end THEN "build" ELSE "read"
         /\ d.start = c.start /\ d.end = c.end /\ d.kind = c.kind /\ d.version = c.version
         /\ d.own = c.own
    BY <1>1, <2>10 DEF BuildTyped, BuildFields
  <2>12. BuildTyped(d)
    <3>1. d.at \in {"read", "build"}
      BY <2>11
    <3> QED
      BY <1>1, <2>1, <2>7, <2>11, <3>1 DEF BuildTyped
  <2>13. ReadOf(d, tables)
    <3>1. d.start + Len(d.seen) - 2 = v
      BY <2>7, <2>8, <2>11
    <3>2. \A i \in 1..Len(d.seen) : d.seen[i] = Snapshot(tables[d.table], d.start + i - 2)
      BY <2>2, <2>7, <2>9, <2>11
    <3>3. IF d.at = "read" THEN Len(d.seen) > 0 /\ v < d.end ELSE v = d.end
      <4>1. CASE v = c.end
        BY <2>11, <4>1
      <4>2. CASE v # c.end
        <5>1. d.at = "read" /\ v < d.end
          BY <2>1, <2>3, <2>8, <2>11, <4>2
        <5> QED
          BY <2>1, <2>7, <2>11, <5>1
      <4> QED
        BY <4>1, <4>2
    <3>4. d.table \in 1..Len(tables) /\ v \in 1..Len(tables[d.table])
      BY <2>2, <2>5, <2>11
    <3> QED
      BY <3>1, <3>2, <3>3, <3>4 DEF ReadOf
  <2>14. BuildSound(d, tables, complete)
    BY <2>1, <2>11, <2>12, <2>13 DEF BuildSound
  <2>15. NextVersion(p) = v
    BY DEF NextVersion, v
  <2>16. build' = [build EXCEPT ![p] = d]
    BY <1>4, <2>6, <2>10, <2>15 DEF Reading, OutboxInv, Builds
  <2> QED
    BY <1>1, <1>2, <2>14, <2>16, CommandStep
<1>5. \/ Fail(p)
      \/ /\ Reading(p, Snapshot(Table, NextVersion(p))) /\ ~(NextVersion(p) > Len(Table))
         /\ ~(NextVersion(p) > 1 /\ c.seen # <<>> /\ c.table # Live)
  BY Zenon DEF ReadVersion
<1>6. NextVersion(p) = v
  BY Zenon DEF NextVersion
<1> QED
  BY <1>3, <1>4, <1>5, <1>6, Zenon

\* The artifact a command is at is true.
LEMMA TargetIs ==
  ASSUME NEW p \in Builders, TablesSound(tables), BuildTyped(build[p]), build[p].at = "build",
         NothingRead(build[p]) \/ ReadOf(build[p], tables)
  PROVE  /\ Target(p) = TargetOf(build[p], tables)
         /\ ArtifactTrue(TargetOf(build[p], tables), tables)
         /\ TargetOf(build[p], tables).kind = build[p].kind
<1> DEFINE c == build[p]
           t == tables[c.table]
<1>1. /\ ReadOf(c, tables) /\ Len(c.seen) = c.end - c.start + 2
      /\ c.table \in 1..Len(tables) /\ c.end \in 1..Len(t)
      /\ c.start \in 1..c.end /\ FirstOf(c) \in c.start..c.end /\ LastOf(c) \in FirstOf(c)..c.end
  BY ReadInBuild
<1>2. Len(t) \in Nat
  BY <1>1, TableTypes
<1>3. Ready(p) = NewRows(t, c.start, c.end)
  BY <1>1, ReadyIsNew DEF ReadOf
<1>4. /\ c.start \in Nat \ {0} /\ c.end \in Nat /\ FirstOf(c) \in Nat \ {0} /\ LastOf(c) \in Nat
      /\ LastOf(c) <= c.end /\ LastOf(c) \in 0..Len(t)
  <2>1. PICK start, end, first, last, n :
          /\ start = c.start /\ end = c.end /\ first = FirstOf(c) /\ last = LastOf(c) /\ n = Len(t)
    OBVIOUS
  <2>2. n \in Nat /\ end \in 1..n /\ start \in 1..end /\ first \in start..end /\ last \in first..end
    BY <1>1, <1>2, <2>1
  <2>3. start \in Nat \ {0} /\ end \in Nat /\ first \in Nat \ {0} /\ last \in Nat /\ last <= end /\ last \in 0..n
    BY <2>2
  <2> QED BY <2>1, <2>3
<1>5. InVersions(Ready(p), FirstOf(c), LastOf(c)) = NewRows(t, FirstOf(c), LastOf(c))
  <2>1. FirstOf(c) \in c.start..c.end
    BY <1>1
  <2> HIDE DEF c, t
  <2>2. InVersions(NewRows(t, c.start, c.end), FirstOf(c), LastOf(c)) = NewRows(t, FirstOf(c), LastOf(c))
    BY <1>4, <2>1, NewRowsWithin
  <2> QED
    BY <1>3, <2>2 DEF c
<1>6. Target(p) = TargetOf(c, tables)
  BY <1>5, Zenon DEF Target, TargetOf, FirstOf, LastOf
<1> DEFINE a == TargetOf(c, tables)
<1>7. /\ a.kind = c.kind /\ a.table = c.table /\ a.start = FirstOf(c) /\ a.end = LastOf(c)
      /\ a.ready = NewRows(t, FirstOf(c), LastOf(c))
  BY DEF TargetOf, Artifact
<1>8. ArtifactTrue(a, tables)
  <2>1. a = Artifact(a.kind, a.table, a.start, a.end, a.ready)
    BY <1>7, Zenon DEF TargetOf
  <2> QED
    BY <1>1, <1>4, <1>7, <2>1, Zenon DEF ArtifactTrue
<1> QED
  BY <1>6, <1>7, <1>8

\* A command goes on to its next artifact, or to own the one it is at.
LEMMA NextTarget ==
  ASSUME NEW c, NEW d, NEW ts, TablesSound(ts), NEW done,
         BuildTyped(c), c.at = "build", ReadOf(c, ts),
         BuildTyped(d), d.at = "build", d.start = c.start, d.end = c.end, d.table = c.table, d.seen = c.seen,
         d.own = TRUE /\ d.kind = "batch" => Supports(TargetOf(d, ts)) \subseteq done
  PROVE  BuildSound(d, ts, done)
BY DEF BuildSound, ReadOf

LEMMA NextArtifactInv ==
  ASSUME OutboxInv, NEW p \in Builders, BuildAt(p, "build"), NextArtifact(p), tables' = tables,
         complete \subseteq complete', CompleteTrue(tables, complete')
  PROVE  OutboxInv'
<1> DEFINE c == build[p]
<1>1. /\ c.at = "build" /\ BuildTyped(c) /\ ReadOf(c, tables) /\ TablesSound(tables)
  BY AtBuild, ReadInBuild
<1>2. CASE c.kind = "batch"
  <2>1. build' = [build EXCEPT ![p] = None]
    BY <1>2 DEF NextArtifact
  <2> QED
    BY <2>1, CommandStep
<1>3. CASE c.kind # "batch"
  <2>1. PICK d : d = IF c.kind = "segment" /\ c.version < c.end
                     THEN [c EXCEPT !.version = @ + 1, !.own = FALSE]
                     ELSE [c EXCEPT !.kind = IF @ = "segment" THEN "outbox" ELSE "batch", !.own = FALSE]
    OBVIOUS
  <2>2. build' = [build EXCEPT ![p] = d]
    BY <1>3, <2>1, Zenon DEF NextArtifact
  <2>3. /\ d = [x \in BuildFields |-> d[x]] /\ d.own = FALSE /\ d.at = "build"
        /\ d.start = c.start /\ d.end = c.end /\ d.table = c.table /\ d.seen = c.seen
        /\ d.kind \in {"segment", "outbox", "batch"}
        /\ d.version = c.version \/ (d.version = c.version + 1 /\ c.version < c.end)
    BY <1>1, <2>1 DEF BuildTyped, BuildFields
  <2>4. BuildTyped(d)
    <3>1. c.start \in Nat /\ c.end \in Nat /\ c.version \in c.start..c.end
      BY <1>1 DEF BuildTyped
    <3>2. d.version \in d.start..d.end
      BY <2>3, <3>1
    <3> QED
      BY <1>1, <2>3, <3>2 DEF BuildTyped
  <2>5. BuildSound(d, tables, complete')
    BY <1>1, <2>3, <2>4, NextTarget
  <2> QED
    BY <2>2, <2>5, CommandStep
<1> QED
  BY <1>2, <1>3

LEMMA ClaimInv ==
  ASSUME OutboxInv, NEW p \in Builders, ClaimArtifact(p)
  PROVE  OutboxInv'
<1> DEFINE c == build[p]
           a == TargetOf(c, tables)
<1>1. /\ c.at = "build" /\ BuildTyped(c) /\ ReadOf(c, tables) /\ TablesSound(tables)
      /\ CompleteTrue(tables, complete) /\ BuildAt(p, "build")
  BY AtBuild, ReadInBuild DEF ClaimArtifact
<1>2. UNCHANGED <<tables, complete>>
  BY DEF ClaimArtifact
<1>3. Target(p) = a /\ a.kind = c.kind /\ ArtifactTrue(a, tables)
  BY <1>1, TargetIs
<1>4. CASE Fail(p)
  BY <1>2, <1>4, BuildEnds
<1>5. CASE NextArtifact(p)
  BY <1>1, <1>2, <1>5, NextArtifactInv
<1>6. CASE InputsInspected(p) /\ build' = [build EXCEPT ![p].own = TRUE]
  <2>1. PICK d : d = [c EXCEPT !.own = TRUE]
    OBVIOUS
  <2>2. /\ d = [x \in BuildFields |-> d[x]] /\ d.own = TRUE /\ d.at = "build"
        /\ d.start = c.start /\ d.end = c.end /\ d.table = c.table /\ d.seen = c.seen
        /\ d.kind = c.kind /\ d.version = c.version
    BY <1>1, <2>1 DEF BuildTyped, BuildFields
  <2>3. BuildTyped(d)
    BY <1>1, <2>2 DEF BuildTyped
  <2>4. TargetOf(d, tables) = a
    BY <2>2, Zenon DEF TargetOf, FirstOf, LastOf
  <2>5. ASSUME c.kind = "batch" PROVE Supports(a) \subseteq complete
    <3> DEFINE o == [a EXCEPT !.kind = "outbox"]
    <3>1. Inspect(o, complete)
      BY <1>3, <1>6, <2>5 DEF InputsInspected
    <3>2. a = Artifact(a.kind, a.table, a.start, a.end, a.ready)
      BY <1>3 DEF ArtifactTrue
    <3>3. /\ o.kind = "outbox" /\ o.table = a.table /\ o.start = a.start /\ o.end = a.end
          /\ o.ready = a.ready
      BY <3>2 DEF Artifact
    <3>4. Segments(o) = Segments(a)
      BY <3>3, Zenon DEF Segments
    <3> HIDE DEF o, a
    <3>5. o \in complete /\ \A s \in Segments(a) : s \in complete
      BY <3>1, <3>3, <3>4 DEF Inspect, Reproduced
    <3> QED
      BY <3>5 DEF Supports, o
  <2>6. BuildSound(d, tables, complete)
    BY <1>1, <2>2, <2>3, <2>4, <2>5, NextTarget
  <2>7. build' = [build EXCEPT ![p] = d]
    BY <1>6, <2>1 DEF OutboxInv, Builds
  <2> QED
    BY <1>1, <1>2, <2>6, <2>7, CommandStep
<1> QED
  BY <1>4, <1>5, <1>6 DEF ClaimArtifact

LEMMA WriteInv ==
  ASSUME OutboxInv, NEW p \in Builders, Write(p)
  PROVE  OutboxInv'
<1> DEFINE c == build[p]
           a == TargetOf(c, tables)
<1>1. /\ c # None /\ c.at = "build" /\ BuildTyped(c) /\ ReadOf(c, tables) /\ TablesSound(tables)
      /\ CompleteTrue(tables, complete) /\ BuildSound(c, tables, complete) /\ BuildAt(p, "build")
  BY AtBuild, ReadInBuild DEF Write
<1>2. Target(p) = a /\ a.kind = c.kind /\ ArtifactTrue(a, tables)
  BY <1>1, TargetIs
<1>3. tables' = tables /\ complete' = complete \cup {a}
  BY <1>2 DEF Write
<1>4. c.own = TRUE
  <2>1. c.own
    BY DEF Write
  <2> QED
    BY <2>1
<1>5. CompleteTrue(tables, complete')
  <2>1. a.kind = "batch" => Supports(a) \subseteq complete
    BY <1>1, <1>2, <1>4 DEF BuildSound
  <2> QED
    BY <1>1, <1>2, <1>3, <2>1 DEF CompleteTrue
<1>6. complete \subseteq complete'
  BY <1>3
<1>7. CASE NextArtifact(p)
  BY <1>1, <1>3, <1>5, <1>6, <1>7, NextArtifactInv
<1>8. CASE Fail(p)
  <2>1. build' = [build EXCEPT ![p] = None]
    BY <1>8 DEF Fail
  <2> QED
    BY <1>3, <1>5, <1>6, <2>1, CommandStep
<1> QED
  BY <1>7, <1>8 DEF Write

LEMMA KillInv ==
  ASSUME OutboxInv, NEW p \in Builders, KillBuilder(p)
  PROVE  OutboxInv'
BY BuildEnds DEF KillBuilder

-----------------------------------------------------------------------------
(* The invariant, and what complete artifacts say. *)

LEMMA OutboxInitInv ==
  ASSUME Parameters, OutboxInit
  PROVE  OutboxInv
<1>1. tables = << <<>> >> /\ complete = {} /\ build = [p \in Builders |-> None]
  BY DEF OutboxInit
<1>2. <<>> \in Seq(SUBSET TableEvents) /\ GrowingTable(<<>>)
  BY DEF GrowingTable
<1>3. tables \in Seq(Seq(SUBSET TableEvents)) /\ Len(tables) = 1 /\ tables[1] = <<>>
  BY <1>1, <1>2
<1>4. TablesSound(tables)
  <2>1. \A t \in 1..Len(tables) : t = 1
    BY <1>3
  <2> QED
    BY <1>2, <1>3, <2>1 DEF TablesSound
<1>5. Builds
  BY <1>1 DEF Builds
<1> QED
  BY <1>1, <1>4, <1>5 DEF OutboxInv, CompleteTrue

LEMMA OutboxNextInv ==
  ASSUME Parameters, OutboxInv, [OutboxNext]_outboxVars
  PROVE  OutboxInv'
<1>1. CASE UNCHANGED outboxVars
  BY <1>1 DEF outboxVars, OutboxInv, Builds
<1>2. CASE OutboxNext
  <2>1. ASSUME NEW rows \in RowCounts, AppendVersion(rows) PROVE OutboxInv'
    BY <2>1, AppendVersionInv
  <2>2. ASSUME NEW p \in Builders, NEW range \in Ranges[p], Begin(p, range) PROVE OutboxInv'
    BY <2>2, BeginInv
  <2>3. ASSUME NEW p \in Builders, ReadVersion(p) \/ ClaimArtifact(p) \/ Write(p) \/ KillBuilder(p) PROVE OutboxInv'
    BY <2>3, ReadVersionInv, ClaimInv, WriteInv, KillInv
  <2> QED
    BY <1>2, <2>1, <2>2, <2>3, ResetTableInv DEF OutboxNext
<1> QED
  BY <1>1, <1>2

LEMMA OneReadyVersion ==
  ASSUME NEW t, GrowingTable(t), NEW v \in 1..Len(t), NEW w \in 1..Len(t),
         NEW r \in NewIn(t, v), NEW q \in NewIn(t, w), r.event = q.event
  PROVE  r = q
<1>1. Len(t) \in Nat
  BY DEF GrowingTable
<1>2. /\ r = [event |-> r.event, version |-> v] /\ q = [event |-> q.event, version |-> w]
      /\ r.event \in Snapshot(t, v) /\ r.event \notin Snapshot(t, v - 1)
      /\ q.event \in Snapshot(t, w) /\ q.event \notin Snapshot(t, w - 1)
  BY VersionOfNew, Zenon
<1>3. ASSUME NEW i \in 1..Len(t), NEW j \in 1..Len(t), i < j
      PROVE  Snapshot(t, i) \subseteq Snapshot(t, j - 1)
  <2>1. j - 1 \in 1..Len(t) /\ i <= j - 1
    BY <1>1, <1>3
  <2>2. t[i] \subseteq t[j - 1]
    BY <2>1 DEF GrowingTable
  <2> QED
    BY <1>3, <2>1, <2>2 DEF Snapshot
<1>4. ~(v < w) /\ ~(w < v)
  BY <1>2, <1>3
<1>5. v = w
  BY <1>1, <1>4
<1> QED
  BY <1>2, <1>5, Zenon

LEMMA OutboxInvArtifacts ==
  ASSUME OutboxInv
  PROVE  ArtifactsTrue
<1>1. TablesSound(tables) /\ CompleteTrue(tables, complete)
  BY DEF OutboxInv
<1>2. ASSUME NEW a \in complete
      PROVE  /\ a = Artifact(a.kind, a.table, a.start, a.end, a.ready)
             /\ a.table \in 1..Len(tables) /\ Len(tables[a.table]) \in Nat
             /\ GrowingTable(tables[a.table])
             /\ a.start \in Nat \ {0} /\ a.end \in Nat /\ a.end <= Len(tables[a.table])
             /\ a.ready = NewRows(tables[a.table], a.start, a.end)
  <2>1. ArtifactTrue(a, tables)
    BY <1>1 DEF CompleteTrue
  <2>2. a.table \in 1..Len(tables) /\ Len(tables[a.table]) \in Nat /\ GrowingTable(tables[a.table])
    BY <1>1, <2>1, TableTypes DEF ArtifactTrue, TablesSound
  <2> QED
    BY <2>1, <2>2 DEF ArtifactTrue
<1>3. OneTableEach
  BY <1>2 DEF OneTableEach
<1>4. ReadyOnce
  <2>1. SUFFICES ASSUME NEW a \in complete, NEW b \in complete, a.table = b.table,
                        NEW r \in a.ready, NEW q \in b.ready, r.event = q.event
                 PROVE  r = q
    BY Zenon DEF ReadyOnce
  <2>2. PICK t : t = tables[a.table]
    OBVIOUS
  <2>3. /\ GrowingTable(t) /\ Len(t) \in Nat
        /\ a.start \in Nat \ {0} /\ a.end \in Nat /\ a.end <= Len(t) /\ a.ready = NewRows(t, a.start, a.end)
        /\ b.start \in Nat \ {0} /\ b.end \in Nat /\ b.end <= Len(t) /\ b.ready = NewRows(t, b.start, b.end)
    BY <1>2, <2>1, <2>2
  <2>4. PICK v \in a.start..a.end : r \in NewIn(t, v)
    <3>1. \A x : x \in NewRows(t, a.start, a.end) <=> \E i \in a.start..a.end : x \in NewIn(t, i)
      BY NewRowsOf, Zenon
    <3> QED
      BY <2>3, <3>1, Zenon
  <2>5. PICK w \in b.start..b.end : q \in NewIn(t, w)
    <3>1. \A x : x \in NewRows(t, b.start, b.end) <=> \E i \in b.start..b.end : x \in NewIn(t, i)
      BY NewRowsOf, Zenon
    <3> QED
      BY <2>3, <3>1, Zenon
  <2>6. v \in 1..Len(t) /\ w \in 1..Len(t)
    BY <2>3
  <2> QED
    BY <2>1, <2>3, <2>4, <2>5, <2>6, OneReadyVersion, Zenon
<1>5. BatchesReproduced
  <2>1. SUFFICES ASSUME NEW a \in complete, a.kind = "batch", a.table = Live, NEW s \in {a} \cup Supports(a)
                 PROVE  Reproduced(s, complete)
    BY Zenon DEF BatchesReproduced, Supports
  <2>2. s \in complete
    BY <1>1, <2>1 DEF CompleteTrue
  <2>3. s.table = a.table
    <3>1. CASE s = a
      BY <3>1
    <3>2. CASE s = [a EXCEPT !.kind = "outbox"]
      BY <1>2, <3>2 DEF Artifact
    <3>3. CASE s \in Segments(a)
      BY <3>3 DEF Segments, Artifact
    <3> QED
      BY <2>1, <3>1, <3>2, <3>3 DEF Supports
  <2> QED
    BY <1>2, <2>1, <2>2, <2>3, Zenon DEF Reproduced, Table
<1> QED
  BY <1>3, <1>4, <1>5 DEF ArtifactsTrue

\* The inductive invariant: whatever the ranges, the number of commands and
\* kills, and however often the table is deleted and made anew, a command holds
\* what its table held, and complete artifacts rest on complete ones.
THEOREM OutboxInvariant ==
  ASSUME Parameters
  PROVE  OutboxSpec => []OutboxInv
<1>1. OutboxInit => OutboxInv
  BY OutboxInitInv
<1>2. OutboxInv /\ [OutboxNext]_outboxVars => OutboxInv'
  BY OutboxNextInv
<1> QED
  BY <1>1, <1>2, PTL DEF OutboxSpec

\* What complete artifacts say is true (ArtifactsTrue): rows of one table, an
\* event ready in one version, batches reproducible down to their segments.
THEOREM ArtifactsTrueHolds ==
  ASSUME Parameters
  PROVE  OutboxSpec => []ArtifactsTrue
BY OutboxInvariant, OutboxInvArtifacts, PTL

-----------------------------------------------------------------------------
(* The handoffs of LocalReceiver. *)

Fields == {"at", "round", "next", "done", "maximum", "replay", "fail", "seen", "maker", "outcome"}

\* The steps from the link of the receipt to that of the attempt that tells of it.
Telling == {"unlink receipt", "attempt", "link attempt"}

\* The steps at which a command has an event at hand.
Handling == Telling \cup {"receipt", "link receipt"}

\* A command at c is about to tell of event e that its outcome is o.
Tells(c, e, o) == c.at \in Telling /\ ReadyEvents[c.next] = e /\ c.outcome = o

CommandTyped(c) == c = [x \in Fields |-> c[x]] /\ c.next \in Nat \ {0}

\* The state of a command: what is at hand is an event of the outbox, and what
\* it has seen of receipts is there.
CommandSound(c) ==
  /\ CommandTyped(c)
  /\ c.at \in Handling => ReadyEvents[c.next] \in Ids
  /\ c.at = "inspect attempts" => c.seen \subseteq receipts

HandoffsSound ==
  /\ command = [p \in Handoffs |-> command[p]]
  /\ \A p \in Handoffs : command[p] # None => CommandSound(command[p])

\* What a command is about to acknowledge has its receipt.
ToldHasReceipt ==
  \A p \in Handoffs : command[p] # None /\ command[p].at \in Telling =>
    command[p].outcome = "FAILED" \/ ReadyEvents[command[p].next] \in receipts

\* Whoever linked the receipt of e is the only one to tell so, and has not told.
OneTeller ==
  \A p \in Handoffs, e \in Ids : command[p] # None /\ Tells(command[p], e, "ACCEPTED") =>
    /\ \A a \in attempts : ~(a.event = e /\ a.outcome = "ACCEPTED")
    /\ \A q \in Handoffs : command[q] # None /\ Tells(command[q], e, "ACCEPTED") => q = p

ReceiverInv == HandoffsSound /\ AcknowledgedHasReceipt /\ ToldHasReceipt /\ OneTeller /\ AcceptedOnce

-----------------------------------------------------------------------------
(* The smallest of a set of numbers. *)

LEMMA MinInSet ==
  ASSUME NEW T, T \subseteq Nat, T # {}
  PROVE Min(T) \in T
<1> DEFINE R == {r \in Nat \X Nat : r[1] < r[2]}
<1>1. IsWellFoundedOn(R, Nat)
  BY NatLessThanWellFounded DEF OpToRel
<1>2. PICK x \in T : \A y \in T : ~(<<y, x>> \in R)
  <2> HIDE DEF R
  <2> QED
    BY <1>1, WFMin
<1>3. ASSUME NEW y \in T PROVE x <= y
  <2>1. x \in Nat /\ y \in Nat
    OBVIOUS
  <2>2. y < x => <<y, x>> \in R
    BY <2>1
  <2> QED
    BY <1>2, <2>1, <2>2
<1> QED
  BY <1>3 DEF Min

-----------------------------------------------------------------------------
(* Steps that leave receipts and attempts. *)

\* A step that moves one command, which tells nothing that it did not tell
\* before, but a failure.
LEMMA MoveStep ==
  ASSUME ReceiverInv, NEW p \in Handoffs, NEW c,
         receipts' = receipts, attempts' = attempts, command' = [command EXCEPT ![p] = c],
         c # None => /\ CommandSound(c)
                     /\ c.at \in Telling => \/ c.outcome = "FAILED"
                                            \/ /\ command[p] # None /\ command[p].at \in Telling
                                               /\ c.next = command[p].next
                                               /\ c.outcome = command[p].outcome
  PROVE ReceiverInv'
<1>1. \A q \in Handoffs : command'[q] = IF q = p THEN c ELSE command[q]
  BY DEF ReceiverInv, HandoffsSound
<1>2. HandoffsSound'
  BY <1>1 DEF ReceiverInv, HandoffsSound, CommandSound, CommandTyped
<1>3. Acknowledged' = Acknowledged
  BY DEF Acknowledged
<1>4. AcknowledgedHasReceipt' /\ AcceptedOnce'
  BY <1>3 DEF ReceiverInv, AcknowledgedHasReceipt, AcceptedOnce
<1>5. ToldHasReceipt'
  BY <1>1 DEF ReceiverInv, ToldHasReceipt
<1>6. ASSUME NEW q \in Handoffs, NEW e, command'[q] # None, Tells(command'[q], e, "ACCEPTED")
      PROVE command[q] # None /\ Tells(command[q], e, "ACCEPTED")
  BY <1>1, <1>6 DEF Tells
<1>7. OneTeller'
  <2>1. SUFFICES ASSUME NEW q \in Handoffs, NEW e \in Ids, command'[q] # None, Tells(command'[q], e, "ACCEPTED")
        PROVE /\ \A a \in attempts : ~(a.event = e /\ a.outcome = "ACCEPTED")
              /\ \A r \in Handoffs : command'[r] # None /\ Tells(command'[r], e, "ACCEPTED") => r = q
    BY DEF OneTeller, Tells
  <2>2. command[q] # None /\ Tells(command[q], e, "ACCEPTED")
    BY <1>6, <2>1
  <2> QED
    BY <1>6, <2>2 DEF ReceiverInv, OneTeller
<1> QED
  BY <1>2, <1>4, <1>5, <1>7 DEF ReceiverInv

LEMMA ReceiverInitInv == ReceiverInit => ReceiverInv
BY DEF ReceiverInit, ReceiverInv, HandoffsSound, AcknowledgedHasReceipt, Acknowledged, ToldHasReceipt,
       OneTeller, AcceptedOnce, Tells

LEMMA AtCommand ==
  ASSUME ReceiverInv, NEW p \in Handoffs, NEW at, HandoffAt(p, at)
  PROVE command[p] # None /\ command[p].at = at /\ CommandSound(command[p])
BY DEF HandoffAt, ReceiverInv, HandoffsSound

LEMMA EndStep ==
  ASSUME ReceiverInv, NEW p \in Handoffs, EndHandoff(p), receipts' = receipts, attempts' = attempts
  PROVE ReceiverInv'
BY MoveStep DEF EndHandoff

\* A command goes to a step at which it tells nothing, or told the same before.
LEMMA GoStep ==
  ASSUME ReceiverInv, NEW p \in Handoffs, NEW at, HandoffTo(p, at), receipts' = receipts, attempts' = attempts,
         command[p] # None,
         at # "inspect attempts",
         at \in Handling => command[p].at \in Handling,
         at \in Telling => command[p].at \in Telling
  PROVE ReceiverInv'
<1>1. PICK c : c = [command[p] EXCEPT !.at = at]
  OBVIOUS
<1>2. CommandSound(command[p])
  BY DEF ReceiverInv, HandoffsSound
<1>3. c.at = at /\ c.next = command[p].next /\ c.outcome = command[p].outcome /\ CommandTyped(c)
  BY <1>1, <1>2 DEF CommandSound, CommandTyped, Fields
<1>4. CommandSound(c)
  BY <1>2, <1>3 DEF CommandSound
<1>5. command' = [command EXCEPT ![p] = c]
  BY <1>1 DEF HandoffTo
<1> QED
  BY <1>3, <1>4, <1>5, MoveStep

LEMMA StartInv ==
  ASSUME ReceiverInv, NEW p \in Handoffs, NEW m, NEW r, NEW f, StartHandoff(p, m, r, f)
  PROVE ReceiverInv'
<1>1. PICK c : c = [at |-> IF root = 0 THEN "create" ELSE "inspect receipts", round |-> 1, next |-> 1, done |-> 0,
                    maximum |-> m, replay |-> r, fail |-> f, seen |-> {}, maker |-> FALSE, outcome |-> None]
  OBVIOUS
<1>2. c.at \in {"create", "inspect receipts"} /\ c = [x \in Fields |-> c[x]]
  BY <1>1 DEF Fields
<1> c.next = 1
  BY <1>1
<1> CommandTyped(c)
  <2>1. c.next \in Nat \ {0}
    OBVIOUS
  <2> QED
    BY Zenon, <1>2, <2>1 DEF CommandTyped
<1>3. CommandSound(c)
  BY <1>2 DEF CommandSound, Handling, Telling
<1>4. command' = [command EXCEPT ![p] = c] /\ receipts' = receipts /\ attempts' = attempts
  BY <1>1 DEF StartHandoff, store
<1> QED
  BY <1>2, <1>3, <1>4, MoveStep DEF Telling

LEMMA CreateInv ==
  ASSUME ReceiverInv, NEW p \in Handoffs, CreateRoot(p)
  PROVE ReceiverInv'
<1>1. receipts' = receipts /\ attempts' = attempts /\ CommandSound(command[p])
  BY AtCommand DEF CreateRoot
<1>2. CASE EndHandoff(p)
  BY <1>1, <1>2, EndStep
<1>3. CASE command' = [command EXCEPT ![p].maker = root' < 4,
                         ![p].at = IF root' < 4 THEN "create" ELSE "inspect receipts"]
  <2>1. PICK c : c = [command[p] EXCEPT !.maker = root' < 4,
                        !.at = IF root' < 4 THEN "create" ELSE "inspect receipts"]
    OBVIOUS
  <2>2. c.at \in {"create", "inspect receipts"} /\ CommandTyped(c)
    BY <1>1, <2>1 DEF CommandSound, CommandTyped, Fields
  <2>3. CommandSound(c)
    BY <2>2 DEF CommandSound, Handling, Telling
  <2>4. command' = [command EXCEPT ![p] = c]
    BY <1>3, <2>1 DEF ReceiverInv, HandoffsSound
  <2> QED
    BY <1>1, <2>2, <2>3, <2>4, MoveStep DEF Telling
<1> QED
  BY <1>2, <1>3 DEF CreateRoot

LEMMA InspectReceiptsInv ==
  ASSUME ReceiverInv, NEW p \in Handoffs, InspectReceipts(p)
  PROVE ReceiverInv'
<1>1. receipts' = receipts /\ attempts' = attempts /\ CommandSound(command[p])
  BY AtCommand DEF InspectReceipts, store
<1>2. CASE EndHandoff(p)
  BY <1>1, <1>2, EndStep
<1>3. CASE command' = [command EXCEPT ![p].at = "inspect attempts", ![p].seen = receipts]
  <2>1. PICK c : c = [command[p] EXCEPT !.at = "inspect attempts", !.seen = receipts]
    OBVIOUS
  <2>2. c.at = "inspect attempts" /\ c.seen = receipts /\ CommandTyped(c)
    BY <1>1, <2>1 DEF CommandSound, CommandTyped, Fields
  <2>3. CommandSound(c)
    BY <2>2 DEF CommandSound, Handling, Telling
  <2>4. command' = [command EXCEPT ![p] = c]
    BY <1>3, <2>1 DEF ReceiverInv, HandoffsSound
  <2> QED
    BY <1>1, <2>2, <2>3, <2>4, MoveStep DEF Telling
<1> QED
  BY <1>2, <1>3 DEF InspectReceipts

LEMMA InspectAttemptsInv ==
  ASSUME ReceiverInv, NEW p \in Handoffs, InspectAttempts(p)
  PROVE ReceiverInv'
<1>1. receipts' = receipts /\ attempts' = attempts /\ CommandSound(command[p])
  BY AtCommand DEF InspectAttempts, store
<1>2. CASE EndHandoff(p)
  BY <1>1, <1>2, EndStep
<1>3. CASE command' = [command EXCEPT ![p].round = @ + 1, ![p].seen = {},
                         ![p].at = IF command[p].round = 2 THEN "next" ELSE "inspect receipts"]
  <2>1. PICK c : c = [command[p] EXCEPT !.round = @ + 1, !.seen = {},
                        !.at = IF command[p].round = 2 THEN "next" ELSE "inspect receipts"]
    OBVIOUS
  <2>2. c.at \in {"next", "inspect receipts"} /\ CommandTyped(c)
    BY <1>1, <2>1 DEF CommandSound, CommandTyped, Fields
  <2>3. CommandSound(c)
    BY <2>2 DEF CommandSound, Handling, Telling
  <2>4. command' = [command EXCEPT ![p] = c]
    BY <1>3, <2>1 DEF ReceiverInv, HandoffsSound
  <2> QED
    BY <1>1, <2>2, <2>3, <2>4, MoveStep DEF Telling
<1> QED
  BY <1>2, <1>3 DEF InspectAttempts

LEMMA NextEventInv ==
  ASSUME ReceiverInv, NEW p \in Handoffs, NextEvent(p)
  PROVE ReceiverInv'
<1> DEFINE left == {n \in command[p].next .. Len(ReadyEvents) : command[p].replay \/ ReadyEvents[n] \notin receipts}
           n == Min(left)
           failing == ReadyEvents[n] = command[p].fail
<1>1. receipts' = receipts /\ attempts' = attempts /\ CommandSound(command[p]) /\ command[p] # None
  BY AtCommand DEF NextEvent, store
<1>2. CASE HandoffTo(p, "inspect receipts")
  BY <1>1, <1>2, GoStep DEF Handling, Telling
<1>3. CASE /\ left # {}
           /\ command' = [command EXCEPT ![p].done = @ + 1, ![p].next = n,
                ![p].at = IF failing THEN "attempt" ELSE "receipt",
                ![p].outcome = IF failing THEN "FAILED" ELSE None]
  <2>1. n \in 1 .. Len(ReadyEvents)
    <3>1. command[p].next \in Nat \ {0}
      BY <1>1 DEF CommandSound, CommandTyped
    <3> Len(ReadyEvents) \in Nat
      BY OutboxAssumption
    <3>2. left \subseteq Nat /\ left \subseteq 1 .. Len(ReadyEvents)
      BY <3>1
    <3> QED
      BY <1>3, <3>2, MinInSet
  <2>2. ReadyEvents[n] \in Ids /\ n \in Nat \ {0}
    BY <2>1, OutboxAssumption
  <2> HIDE DEF n, failing
  <2>3. PICK c : c = [command[p] EXCEPT !.done = @ + 1, !.next = n,
                        !.at = IF failing THEN "attempt" ELSE "receipt",
                        !.outcome = IF failing THEN "FAILED" ELSE None]
    OBVIOUS
  <2>4. /\ c.at \in {"attempt", "receipt"} /\ c.next = n /\ CommandTyped(c)
        /\ c.at = "attempt" => c.outcome = "FAILED"
    BY <1>1, <2>2, <2>3 DEF CommandSound, CommandTyped, Fields
  <2>5. CommandSound(c)
    BY <2>2, <2>4 DEF CommandSound
  <2>6. command' = [command EXCEPT ![p] = c]
    BY <1>3, <2>3 DEF ReceiverInv, HandoffsSound
  <2> QED
    BY <1>1, <2>4, <2>5, <2>6, MoveStep DEF Telling
<1> QED
  BY <1>2, <1>3 DEF NextEvent

\* An event at hand goes on to a step that handles it and tells nothing new.
LEMMA HandlingStep ==
  ASSUME ReceiverInv, NEW p \in Handoffs, WriteReceipt(p) \/ UnlinkReceipt(p) \/ WriteAttempt(p)
  PROVE ReceiverInv'
<1>1. receipts' = receipts /\ attempts' = attempts /\ command[p] # None
  BY DEF WriteReceipt, UnlinkReceipt, WriteAttempt, store, HandoffAt
<1>2. CASE command[p].at = "receipt" /\ HandoffTo(p, "link receipt")
  BY <1>1, <1>2, GoStep DEF Handling, Telling
<1>3. CASE command[p].at = "unlink receipt" /\ HandoffTo(p, "attempt")
  BY <1>1, <1>3, GoStep DEF Handling, Telling
<1>4. CASE command[p].at = "attempt" /\ HandoffTo(p, "link attempt")
  BY <1>1, <1>4, GoStep DEF Handling, Telling
<1> QED
  BY <1>2, <1>3, <1>4 DEF WriteReceipt, UnlinkReceipt, WriteAttempt, HandoffAt

LEMMA UnlinkAttemptInv ==
  ASSUME ReceiverInv, NEW p \in Handoffs, UnlinkAttempt(p)
  PROVE ReceiverInv'
<1>1. receipts' = receipts /\ attempts' = attempts /\ CommandSound(command[p])
  BY AtCommand DEF UnlinkAttempt, store
<1> command[p].next + 1 \in Nat \ {0}
  <2>1. command[p].next \in Nat
    BY <1>1 DEF CommandSound, CommandTyped
  <2> QED
    BY <2>1
<1>2. PICK c : c = [command[p] EXCEPT !.next = @ + 1, !.outcome = None,
                      !.at = IF command[p].outcome = "FAILED" THEN "inspect receipts" ELSE "next"]
  OBVIOUS
<1> c = [x \in Fields |-> c[x]] /\ c.next = command[p].next + 1
  BY <1>1, <1>2 DEF CommandSound, CommandTyped, Fields
<1>3. c.at \in {"next", "inspect receipts"} /\ CommandTyped(c)
  BY <1>1, <1>2 DEF CommandSound, CommandTyped, Fields
<1>4. CommandSound(c)
  BY <1>3 DEF CommandSound, Handling, Telling
<1>5. command' = [command EXCEPT ![p] = c]
  BY <1>2 DEF UnlinkAttempt, ReceiverInv, HandoffsSound
<1> QED
  BY <1>1, <1>3, <1>4, <1>5, MoveStep DEF Telling

-----------------------------------------------------------------------------
(* The two links. *)

\* Whoever makes the link found no receipt, so nobody has told or tells of it.
LEMMA LinkReceiptInv ==
  ASSUME ReceiverInv, NEW p \in Handoffs, LinkReceipt(p)
  PROVE ReceiverInv'
<1>1. /\ command[p] # None /\ command[p].at = "link receipt" /\ CommandSound(command[p])
      /\ attempts' = attempts
  BY AtCommand DEF LinkReceipt
<1>2. PICK e : e = EventOf(p)
  OBVIOUS
<1>3. PICK c : c = [command[p] EXCEPT !.at = "unlink receipt",
                      !.outcome = IF e \in receipts THEN "DUPLICATE" ELSE "ACCEPTED"]
  OBVIOUS
<1>4. /\ c.at = "unlink receipt" /\ c.next = command[p].next /\ CommandTyped(c)
      /\ c.outcome = IF e \in receipts THEN "DUPLICATE" ELSE "ACCEPTED"
  BY <1>1, <1>3 DEF CommandSound, CommandTyped, Fields
<1>5. receipts' = receipts \cup {e}
  BY <1>2 DEF LinkReceipt
<1>6. command' = [command EXCEPT ![p] = c]
  BY <1>2, <1>3 DEF LinkReceipt, ReceiverInv, HandoffsSound
<1>7. \A q \in Handoffs : command'[q] = IF q = p THEN c ELSE command[q]
  BY <1>6 DEF ReceiverInv, HandoffsSound
<1>8. e \in Ids /\ ReadyEvents[c.next] = e
  BY <1>1, <1>2, <1>4 DEF EventOf, CommandSound, Handling
<1>9. HandoffsSound'
  <2>1. CommandSound(c)
    BY <1>4, <1>8 DEF CommandSound
  <2>2. \A q \in Handoffs : command'[q] # None => CommandSound(command'[q])
    BY <1>7, <2>1 DEF ReceiverInv, HandoffsSound
  <2>3. receipts \subseteq receipts'
    BY <1>5
  <2> QED
    BY <1>6, <2>2, <2>3 DEF ReceiverInv, HandoffsSound, CommandSound, CommandTyped
<1>10. AcknowledgedHasReceipt' /\ AcceptedOnce'
  BY <1>1, <1>5 DEF ReceiverInv, AcknowledgedHasReceipt, Acknowledged, AcceptedOnce
<1>11. ToldHasReceipt'
  BY <1>4, <1>5, <1>7, <1>8 DEF ReceiverInv, ToldHasReceipt
<1>12. OneTeller'
  <2>1. SUFFICES ASSUME NEW q \in Handoffs, NEW d \in Ids, command'[q] # None, Tells(command'[q], d, "ACCEPTED")
        PROVE /\ \A a \in attempts : ~(a.event = d /\ a.outcome = "ACCEPTED")
              /\ \A r \in Handoffs : command'[r] # None /\ Tells(command'[r], d, "ACCEPTED") => r = q
    BY <1>1 DEF OneTeller, Tells
  <2>2. CASE e \in receipts
    <3>1. ASSUME NEW r \in Handoffs, command'[r] # None, Tells(command'[r], d, "ACCEPTED")
          PROVE command[r] # None /\ Tells(command[r], d, "ACCEPTED")
      BY <1>4, <1>7, <2>2, <3>1 DEF Tells
    <3> QED
      BY <2>1, <3>1 DEF ReceiverInv, OneTeller
  <2>3. CASE e \notin receipts
    <3>1. ASSUME NEW r \in Handoffs, r # p, command'[r] # None, Tells(command'[r], d, "ACCEPTED")
          PROVE command[r] # None /\ Tells(command[r], d, "ACCEPTED") /\ d # e
      BY <1>7, <2>3, <3>1 DEF ReceiverInv, ToldHasReceipt, Tells
    <3>2. \A a \in attempts : ~(a.event = e /\ a.outcome = "ACCEPTED")
      BY <2>3 DEF ReceiverInv, AcknowledgedHasReceipt, Acknowledged
    <3>3. Tells(command'[p], d, "ACCEPTED") => d = e
      BY <1>7, <1>8 DEF Tells
    <3>4. CASE q = p
      BY <2>1, <3>1, <3>2, <3>3, <3>4
    <3>5. CASE q # p
      BY <2>1, <3>1, <3>3, <3>5 DEF ReceiverInv, OneTeller
    <3> QED
      BY <3>4, <3>5
  <2> QED
    BY <2>2, <2>3
<1> QED
  BY <1>9, <1>10, <1>11, <1>12 DEF ReceiverInv

LEMMA LinkAttemptInv ==
  ASSUME ReceiverInv, NEW p \in Handoffs, LinkAttempt(p)
  PROVE ReceiverInv'
<1>1. /\ command[p] # None /\ command[p].at = "link attempt" /\ CommandSound(command[p])
      /\ receipts' = receipts
  BY AtCommand DEF LinkAttempt
<1>2. PICK e, o, new :
        /\ e = ReadyEvents[command[p].next] /\ o = command[p].outcome
        /\ new.event = e /\ new.outcome = o
        /\ attempts' = attempts \cup {new}
  BY DEF LinkAttempt, EventOf
<1>3. Tells(command[p], e, o) /\ e \in Ids
  BY <1>1, <1>2 DEF Tells, Telling, CommandSound, Handling
<1>4. PICK c : c = [command[p] EXCEPT !.at = "unlink attempt"]
  OBVIOUS
<1>5. c.at = "unlink attempt" /\ CommandTyped(c)
  BY <1>1, <1>4 DEF CommandSound, CommandTyped, Fields
<1>6. command' = [command EXCEPT ![p] = c]
  BY <1>4 DEF LinkAttempt, HandoffTo
<1>7. \A q \in Handoffs : command'[q] = IF q = p THEN c ELSE command[q]
  BY <1>6 DEF ReceiverInv, HandoffsSound
<1>8. HandoffsSound'
  BY <1>1, <1>5, <1>6, <1>7 DEF ReceiverInv, HandoffsSound, CommandSound, CommandTyped, Handling, Telling
<1>9. o = "FAILED" \/ e \in receipts
  BY <1>1, <1>2 DEF ReceiverInv, ToldHasReceipt, Telling
<1>10. AcknowledgedHasReceipt'
  BY <1>1, <1>2, <1>9 DEF ReceiverInv, AcknowledgedHasReceipt, Acknowledged
<1>11. o = "ACCEPTED" => \A a \in attempts : ~(a.event = e /\ a.outcome = "ACCEPTED")
  BY <1>1, <1>3 DEF ReceiverInv, OneTeller
<1>12. AcceptedOnce'
  BY <1>2, <1>11 DEF ReceiverInv, AcceptedOnce
<1>13. ToldHasReceipt'
  BY <1>1, <1>5, <1>7 DEF ReceiverInv, ToldHasReceipt, Telling
<1>14. OneTeller'
  <2>1. SUFFICES ASSUME NEW q \in Handoffs, NEW d \in Ids, command'[q] # None, Tells(command'[q], d, "ACCEPTED")
        PROVE /\ \A a \in attempts' : ~(a.event = d /\ a.outcome = "ACCEPTED")
              /\ \A r \in Handoffs : command'[r] # None /\ Tells(command'[r], d, "ACCEPTED") => r = q
    BY DEF OneTeller, Tells
  <2>2. ASSUME NEW r \in Handoffs, command'[r] # None, Tells(command'[r], d, "ACCEPTED")
        PROVE command[r] # None /\ Tells(command[r], d, "ACCEPTED") /\ r # p
    BY <1>5, <1>7, <2>2 DEF Tells, Telling
  <2>3. ~(e = d /\ o = "ACCEPTED")
    BY <1>1, <1>3, <2>1, <2>2 DEF ReceiverInv, OneTeller
  <2> QED
    BY <1>2, <2>1, <2>2, <2>3 DEF ReceiverInv, OneTeller
<1> QED
  BY <1>8, <1>10, <1>12, <1>13, <1>14 DEF ReceiverInv

-----------------------------------------------------------------------------
LEMMA ReceiverNextInv ==
  ASSUME ReceiverInv, [ReceiverNext]_receiverVars
  PROVE ReceiverInv'
<1>1. CASE UNCHANGED receiverVars
  BY <1>1 DEF receiverVars, ReceiverInv, HandoffsSound, CommandSound, CommandTyped, AcknowledgedHasReceipt,
              Acknowledged, ToldHasReceipt, OneTeller, Tells, AcceptedOnce
<1>2. ASSUME NEW p \in Handoffs, NEW m \in Maxima, NEW r \in BOOLEAN, NEW f \in Ids \cup {None},
             StartHandoff(p, m, r, f)
      PROVE ReceiverInv'
  BY <1>2, StartInv
<1>3. ASSUME NEW p \in Handoffs, KillHandoff(p) PROVE ReceiverInv'
  BY <1>3, EndStep DEF KillHandoff, store
<1>4. ASSUME NEW p \in Handoffs, HandoffStep(p) PROVE ReceiverInv'
  BY <1>4, CreateInv, InspectReceiptsInv, InspectAttemptsInv, NextEventInv, HandlingStep, LinkReceiptInv,
     LinkAttemptInv, UnlinkAttemptInv DEF HandoffStep
<1> QED
  BY <1>1, <1>2, <1>3, <1>4 DEF ReceiverNext

\* A command that has seen a version's receipts has seen those of its events.
LEMMA SeenIsThere == ReceiverInv => AttemptsTrue
<1> SUFFICES ASSUME ReceiverInv PROVE FrontierAcknowledged
  BY DEF ReceiverInv, AttemptsTrue
<1>1. SUFFICES ASSUME NEW p \in Handoffs, HandoffAt(p, "inspect attempts"), NEW e \in Ids,
                      Version[e] \in Frontier(command[p].seen)
      PROVE e \in receipts
  BY DEF FrontierAcknowledged
<1>2. command[p].seen \subseteq receipts
  BY <1>1 DEF HandoffAt, ReceiverInv, HandoffsSound, CommandSound
<1>3. Version[e] <= Version[e]
  BY OutboxAssumption
<1> QED
  BY <1>1, <1>2, <1>3 DEF Frontier

-----------------------------------------------------------------------------
\* What a command tells of has its receipt, one command tells that it accepted
\* an event, and it is the one that linked the receipt: ReceiverInv is inductive.
THEOREM ReceiverInvariant == ReceiverSpec => []ReceiverInv
BY ReceiverInitInv, ReceiverNextInv, PTL DEF ReceiverSpec

\* LocalReceiver: acknowledged attempts have receipts, an event is ACCEPTED
\* once, and the acknowledged version is never ahead of the receipts, however
\* many handoffs run, replay, fail or are killed.
THEOREM AttemptsTrueHolds == ReceiverSpec => []AttemptsTrue
BY ReceiverInvariant, SeenIsThere, PTL

-----------------------------------------------------------------------------
(* The scorer of a sealed inbox. *)

\* Every event has a result of the base, and those scored are the reference's.
Complete(base, reference) ==
  /\ Events \subseteq DOMAIN results
  /\ \A e \in Events : results[e].base = base /\ results[e].status \in {"SCORED", "OUT_OF_SCOPE"}
  /\ {e \in Events : results[e].status = "SCORED"} = reference.events

Steps == {"next", "claim", "reconcile", "publish", "write"}

\* c has the fields of a command's state; who claims has a request and status.
WorkTyped(c) ==
  /\ c = [at |-> c.at, next |-> c.next, prior |-> c.prior, attempts |-> c.attempts, status |-> c.status]
  /\ c.at \in Steps /\ c.next \in Nat \ {0} /\ c.attempts \in Nat
  /\ c.at = "claim" => c.status \in Statuses /\ ~(c.next > Len(Queue))

\* The first request has its result, and it is of this base.
FirstIsOf(base) ==
  ~(1 > Len(Queue)) /\ Queue[1] \in DOMAIN results /\ results[Queue[1]].base = base

\* The state c of w's command: what it took from its one listing is still
\* durable; past the first request it has met that result, of its own base; it
\* left the loop past it or for want of requests; and it publishes what is complete.
CommandOK(w, c) ==
  /\ WorkTyped(c)
  /\ \A e \in DOMAIN c.prior : e \in DOMAIN results /\ results[e] = c.prior[e]
  /\ c.next > 1 => FirstIsOf(line[w].base)
  /\ c.attempts > 0 => c.next > 1
  /\ c.at \in {"reconcile", "publish", "write"} => c.next > 1 \/ 1 > Len(Queue)
  /\ c.at \in {"publish", "write"} => Complete(line[w].base, line[w].reference)

\* The result of the first request is the first to be there, and all have its
\* base: this is what makes the bases agree although their check and the claim
\* that follows it are separate steps.
ResultsOK ==
  \A e \in DOMAIN results :
    results[e].status \in Statuses /\ FirstIsOf(results[e].base)

WorkerInv ==
  /\ line \in [Workers -> Configured]
  /\ work = [w \in Workers |-> work[w]]
  /\ \A w \in Workers : work[w] # None => CommandOK(w, work[w])
  /\ ResultsOK
  /\ \A run \in DOMAIN runs : Complete(run[1], run[2])

-----------------------------------------------------------------------------
\* The inbox, and with it the queue, is fixed.
LEMMA QueueFixed ==
  ASSUME inbox' = inbox
  PROVE Queue' = Queue /\ Events' = Events
BY DEF Queue, Events

\* results' holds what results held.
Kept == \A e \in DOMAIN results : e \in DOMAIN results' /\ results'[e] = results[e]

\* Results that are only added to leave what is known of them true.
LEMMA CompleteKept ==
  ASSUME inbox' = inbox, Kept, NEW base, NEW reference, Complete(base, reference)
  PROVE Complete(base, reference)'
<1>1. Events' = Events
  BY QueueFixed
<1>2. \A e \in Events : e \in DOMAIN results' /\ results'[e] = results[e]
  BY DEF Complete, Kept
<1>3. {e \in Events : results'[e].status = "SCORED"} = {e \in Events : results[e].status = "SCORED"}
  BY <1>2
<1> QED
  BY <1>1, <1>2, <1>3 DEF Complete

LEMMA FirstIsOfKept ==
  ASSUME inbox' = inbox, Kept, NEW base, FirstIsOf(base)
  PROVE FirstIsOf(base)'
BY QueueFixed DEF FirstIsOf, Kept

LEMMA CommandKept ==
  ASSUME inbox' = inbox, line' = line, Kept, NEW w \in Workers, NEW c, CommandOK(w, c)
  PROVE CommandOK(w, c)'
<1>1. WorkTyped(c)'
  BY QueueFixed DEF CommandOK, WorkTyped
<1>2. (\A e \in DOMAIN c.prior : e \in DOMAIN results /\ results[e] = c.prior[e])'
  BY DEF CommandOK, Kept
<1>3. (c.next > 1 => FirstIsOf(line[w].base))'
  BY FirstIsOfKept DEF CommandOK
<1>4. (c.at \in {"publish", "write"} => Complete(line[w].base, line[w].reference))'
  BY CompleteKept DEF CommandOK
<1> QED
  BY <1>1, <1>2, <1>3, <1>4, QueueFixed DEF CommandOK

\* A step that only moves the command of one process.
LEMMA WorkStep ==
  ASSUME WorkerInv, NEW w \in Workers, NEW c,
         inbox' = inbox, line' = line, results' = results, runs' = runs,
         work' = [work EXCEPT ![w] = c],
         c = None \/ CommandOK(w, c)
  PROVE WorkerInv'
<1>1. Kept
  BY DEF Kept
<1>2. \A v \in Workers : work'[v] = IF v = w THEN c ELSE work[v]
  BY DEF WorkerInv
<1>3. (\A v \in Workers : work[v] # None => CommandOK(v, work[v]))'
  <2> SUFFICES ASSUME NEW v \in Workers, work'[v] # None PROVE CommandOK(v, work[v])'
    OBVIOUS
  <2>1. CommandOK(v, work'[v])
    BY <1>2 DEF WorkerInv
  <2>2. \A d : CommandOK(v, d) => CommandOK(v, d)'
    BY <1>1, CommandKept
  <2> QED
    BY <2>1, <2>2 DEF CommandOK, WorkTyped
<1>4. ResultsOK'
  BY <1>1, FirstIsOfKept DEF WorkerInv, ResultsOK
<1>5. (\A run \in DOMAIN runs : Complete(run[1], run[2]))'
  BY <1>1, CompleteKept DEF WorkerInv
<1>6. (line \in [Workers -> Configured])' /\ (work = [v \in Workers |-> work[v]])'
  BY DEF WorkerInv
<1> QED
  BY <1>3, <1>4, <1>5, <1>6 DEF WorkerInv

-----------------------------------------------------------------------------
\* The fields of a command's state.
Command(at, next, prior, tried, status) ==
  [at |-> at, next |-> next, prior |-> prior, attempts |-> tried, status |-> status]

\* The two updates of several fields, one field at a time.
LEMMA ClaimingRecord ==
  ASSUME NEW c, NEW s, c = Command(c.at, c.next, c.prior, c.attempts, c.status)
  PROVE [c EXCEPT !.at = "claim", !.status = s] = Command("claim", c.next, c.prior, c.attempts, s)
<1>1. PICK d : d = [c EXCEPT !.at = "claim"]
  OBVIOUS
<1>2. d = Command("claim", c.next, c.prior, c.attempts, c.status)
  BY <1>1 DEF Command
<1>3. [d EXCEPT !.status = s] = Command("claim", c.next, c.prior, c.attempts, s)
  BY <1>2 DEF Command
<1>4. [c EXCEPT !.at = "claim", !.status = s] = [d EXCEPT !.status = s]
  BY <1>1, Zenon
<1> QED
  BY <1>3, <1>4

LEMMA ClaimedRecord ==
  ASSUME NEW c, c = Command(c.at, c.next, c.prior, c.attempts, c.status)
  PROVE [c EXCEPT !.at = "next", !.next = @ + 1, !.attempts = @ + 1, !.status = None] =
          Command("next", c.next + 1, c.prior, c.attempts + 1, None)
<1>1. PICK d : d = [c EXCEPT !.at = "next"]
  OBVIOUS
<1>2. d = Command("next", c.next, c.prior, c.attempts, c.status)
  BY <1>1 DEF Command
<1>3. PICK e : e = [d EXCEPT !.next = @ + 1]
  OBVIOUS
<1>4. e = Command("next", c.next + 1, c.prior, c.attempts, c.status)
  BY <1>2, <1>3 DEF Command
<1>5. PICK f : f = [e EXCEPT !.attempts = @ + 1]
  OBVIOUS
<1>6. f = Command("next", c.next + 1, c.prior, c.attempts + 1, c.status)
  BY <1>4, <1>5 DEF Command
<1>7. [f EXCEPT !.status = None] = Command("next", c.next + 1, c.prior, c.attempts + 1, None)
  BY <1>6 DEF Command
<1>8. [c EXCEPT !.at = "next", !.next = @ + 1, !.attempts = @ + 1, !.status = None] =
        [f EXCEPT !.status = None]
  BY <1>1, <1>3, <1>5, Zenon
<1> QED
  BY <1>7, <1>8

LEMMA InitInv == WorkerInit => WorkerInv
<1> SUFFICES ASSUME WorkerInit PROVE WorkerInv
  OBVIOUS
<1>1. DOMAIN results = {} /\ DOMAIN runs = {}
  BY DEF WorkerInit
<1> QED
  BY <1>1 DEF WorkerInit, WorkerInv, ResultsOK

\* The state of a command, of w, at step at.
LEMMA AtWork ==
  ASSUME WorkerInv, NEW w \in Workers, NEW at, At(w, at)
  PROVE work[w] # None /\ work[w].at = at /\ CommandOK(w, work[w])
BY DEF At, WorkerInv

LEMMA EndWorkStep ==
  ASSUME WorkerInv, NEW w \in Workers, End(w), UNCHANGED durable
  PROVE WorkerInv'
BY WorkStep DEF End, durable

\* Only the step of a command changes.
LEMMA GoWorkStep ==
  ASSUME WorkerInv, NEW w \in Workers, NEW at \in Steps \ {"claim"}, work[w] # None,
         at \in {"reconcile", "publish", "write"} => work[w].next > 1 \/ 1 > Len(Queue),
         at \in {"publish", "write"} => Complete(line[w].base, line[w].reference),
         Go(w, at), UNCHANGED durable
  PROVE WorkerInv'
<1> DEFINE c == [work[w] EXCEPT !.at = at]
<1>1. CommandOK(w, work[w])
  BY DEF WorkerInv
<1>2. work' = [work EXCEPT ![w] = c]
  BY DEF Go
<1>3. /\ c = [at |-> at, next |-> work[w].next, prior |-> work[w].prior,
              attempts |-> work[w].attempts, status |-> work[w].status]
  BY <1>1 DEF CommandOK, WorkTyped
<1>4. CommandOK(w, c)
  BY <1>1, <1>3 DEF CommandOK, WorkTyped, Steps
<1> QED
  BY <1>2, <1>4, WorkStep DEF durable

LEMMA StartWorkInv ==
  ASSUME WorkerInv, NEW w \in Workers, Start(w)
  PROVE WorkerInv'
<1> DEFINE c == [at |-> "next", next |-> 1, prior |-> results, attempts |-> 0, status |-> None]
<1>1. CommandOK(w, c)
  BY DEF CommandOK, WorkTyped, Steps
<1>2. work' = [work EXCEPT ![w] = c]
  BY DEF Start
<1> QED
  BY <1>1, <1>2, WorkStep DEF Start, durable

LEMMA NextRequestInv ==
  ASSUME WorkerInv, NEW w \in Workers, NextRequest(w)
  PROVE WorkerInv'
<1> DEFINE c == work[w]
           e == Queue[c.next]
<1>1. work[w] # None /\ c.at = "next" /\ CommandOK(w, c) /\ UNCHANGED durable
  BY AtWork DEF NextRequest
<1>2. line[w].maximum \in Nat \ {0}
  BY DEF WorkerInv, Configured
<1>3. CASE c.next > Len(Queue)
  <2>1. Go(w, "reconcile")
    BY <1>3 DEF NextRequest
  <2>2. c.next > 1 \/ 1 > Len(Queue)
    BY <1>1, <1>3 DEF CommandOK, WorkTyped
  <2> QED
    BY <1>1, <2>1, <2>2, GoWorkStep DEF Steps
<1>4. CASE ~(c.next > Len(Queue)) /\ e \in DOMAIN c.prior
  <2>1. CASE c.prior[e].base # line[w].base
    BY <1>1, <1>4, <2>1, EndWorkStep DEF NextRequest
  <2>2. CASE c.prior[e].base = line[w].base
    <3> DEFINE d == [c EXCEPT !.next = @ + 1]
    <3>1. work' = [work EXCEPT ![w] = d]
      BY <1>4, <2>2 DEF NextRequest
    <3>2. d = [at |-> "next", next |-> c.next + 1, prior |-> c.prior, attempts |-> c.attempts, status |-> c.status]
      BY <1>1 DEF CommandOK, WorkTyped
    <3>3. FirstIsOf(line[w].base)
      <4>1. CASE c.next > 1
        BY <1>1, <4>1 DEF CommandOK
      <4>2. CASE c.next = 1
        BY <1>1, <1>4, <2>2, <4>2 DEF CommandOK, FirstIsOf
      <4> QED
        BY <1>1, <4>1, <4>2 DEF CommandOK, WorkTyped
    <3>4. CommandOK(w, d)
      BY <1>1, <3>2, <3>3 DEF CommandOK, WorkTyped
    <3> QED
      BY <1>1, <3>1, <3>4, WorkStep DEF durable
  <2> QED
    BY <2>1, <2>2
<1>5. CASE ~(c.next > Len(Queue)) /\ e \notin DOMAIN c.prior /\ c.attempts >= line[w].maximum
  <2>1. Go(w, "reconcile")
    BY <1>5 DEF NextRequest
  <2>2. c.next > 1
    BY <1>1, <1>2, <1>5 DEF CommandOK, WorkTyped
  <2> QED
    BY <1>1, <2>1, <2>2, GoWorkStep DEF Steps
<1>6. CASE ~(c.next > Len(Queue)) /\ e \notin DOMAIN c.prior /\ ~(c.attempts >= line[w].maximum)
  <2>1. PICK s \in Evaluations(line[w].base, e) : work' = [work EXCEPT ![w].at = "claim", ![w].status = s]
    BY <1>6 DEF NextRequest
  <2>2. s \in Statuses
    BY <2>1 DEF Evaluations, Statuses
  <2> DEFINE d == [at |-> "claim", next |-> c.next, prior |-> c.prior, attempts |-> c.attempts, status |-> s]
  <2>3. c = Command(c.at, c.next, c.prior, c.attempts, c.status)
    BY <1>1 DEF CommandOK, WorkTyped, Command
  <2>4. [c EXCEPT !.at = "claim", !.status = s] = d
    BY <2>3, ClaimingRecord DEF Command
  <2>5. work' = [work EXCEPT ![w] = [c EXCEPT !.at = "claim", !.status = s]]
    BY <2>1 DEF WorkerInv
  <2>6. CommandOK(w, d)
    BY <1>1, <1>6, <2>2 DEF CommandOK, WorkTyped, Steps
  <2> QED
    BY <1>1, <2>4, <2>5, <2>6, WorkStep DEF durable
<1> QED
  BY <1>3, <1>4, <1>5, <1>6

\* A result is added, or found; Kept is what both do to results.
LEMMA ClaimKeeps ==
  ASSUME NEW w \in Workers, Claim(w)
  PROVE Kept
BY DEF Claim, Kept

\* Once the claim is made or found made, the command is past the request.
LEMMA ClaimedInv ==
  ASSUME WorkerInv, NEW w \in Workers, Claim(w), work' = Claimed(w),
         FirstIsOf(line[w].base)', ResultsOK'
  PROVE WorkerInv'
<1>1. work[w] # None /\ work[w].at = "claim" /\ CommandOK(w, work[w])
  BY AtWork DEF Claim
<1>2. inbox' = inbox /\ line' = line /\ runs' = runs /\ Kept
  BY ClaimKeeps DEF Claim
<1>3. PICK c : c = work[w]
  OBVIOUS
<1>4. PICK d : d = Command("next", c.next + 1, c.prior, c.attempts + 1, None)
  OBVIOUS
<1>5. work' = [work EXCEPT ![w] = d]
  <2>1. c = Command(c.at, c.next, c.prior, c.attempts, c.status)
    BY <1>1, <1>3 DEF CommandOK, WorkTyped, Command
  <2>2. [c EXCEPT !.at = "next", !.next = @ + 1, !.attempts = @ + 1, !.status = None] = d
    BY <2>1, <1>4, ClaimedRecord
  <2>3. Claimed(w) =
          [work EXCEPT ![w] = [c EXCEPT !.at = "next", !.next = @ + 1, !.attempts = @ + 1, !.status = None]]
    BY <1>3 DEF Claimed, WorkerInv
  <2> QED
    BY <2>2, <2>3
<1>6. CommandOK(w, d)'
  <2>1. CommandOK(w, c)'
    BY <1>1, <1>2, <1>3, CommandKept
  <2>2. d = [at |-> "next", next |-> c.next + 1, prior |-> c.prior, attempts |-> c.attempts + 1, status |-> None]
    BY <1>4 DEF Command
  <2> QED
    BY <2>1, <2>2 DEF CommandOK, WorkTyped, Steps
<1>7. (\A v \in Workers : work[v] # None => CommandOK(v, work[v]))'
  <2> SUFFICES ASSUME NEW v \in Workers, work'[v] # None PROVE CommandOK(v, work[v])'
    OBVIOUS
  <2>1. PICK b : b = work'[v]
    OBVIOUS
  <2>2. CommandOK(v, b)'
    <3>1. CASE v = w
      BY <1>5, <1>6, <2>1, <3>1 DEF WorkerInv
    <3>2. CASE v # w
      <4>1. b = work[v] /\ CommandOK(v, b)
        BY <1>5, <2>1, <3>2 DEF WorkerInv
      <4> QED
        BY <1>2, <4>1, CommandKept
    <3> QED
      BY <3>1, <3>2
  <2> QED
    BY <2>1, <2>2 DEF CommandOK, WorkTyped
<1>8. (\A run \in DOMAIN runs : Complete(run[1], run[2]))'
  BY <1>2, CompleteKept DEF WorkerInv
<1> QED
  BY <1>2, <1>5, <1>7, <1>8 DEF WorkerInv

LEMMA ClaimResultInv ==
  ASSUME WorkerInv, NEW w \in Workers, Claim(w)
  PROVE WorkerInv'
<1> DEFINE e == Queue[work[w].next]
<1>1. work[w] # None /\ work[w].at = "claim" /\ CommandOK(w, work[w])
  BY AtWork DEF Claim
<1>2. inbox' = inbox /\ line' = line /\ Kept
  BY ClaimKeeps DEF Claim
<1>3. work[w].next = 1 \/ FirstIsOf(line[w].base)
  BY <1>1 DEF CommandOK, WorkTyped
<1>4. CASE e \in DOMAIN results /\ results[e] # Made(w)
  BY <1>4, EndWorkStep DEF Claim, durable
<1>5. CASE e \in DOMAIN results /\ results[e] = Made(w)
  <2>1. work' = Claimed(w) /\ results' = results
    BY <1>5 DEF Claim
  <2>2. FirstIsOf(line[w].base)
    BY <1>5 DEF WorkerInv, ResultsOK, Made
  <2>3. FirstIsOf(line[w].base)' /\ ResultsOK'
    BY <1>2, <2>1, <2>2, FirstIsOfKept DEF WorkerInv, ResultsOK
  <2> QED
    BY <2>1, <2>3, ClaimedInv
<1>6. CASE e \notin DOMAIN results
  <2>1. /\ work' = Claimed(w)
        /\ results' = [x \in DOMAIN results \cup {e} |-> IF x = e THEN Made(w) ELSE results[x]]
    BY <1>6 DEF Claim
  <2>2. results'[e].base = line[w].base /\ results'[e].status \in Statuses
    BY <1>1, <2>1 DEF Made, CommandOK, WorkTyped
  <2>3. FirstIsOf(line[w].base)'
    <3>1. CASE FirstIsOf(line[w].base)
      BY <1>2, <3>1, FirstIsOfKept
    <3>2. CASE work[w].next = 1
      <4>1. e = Queue[1] /\ ~(1 > Len(Queue))
        BY <1>1, <3>2 DEF CommandOK, WorkTyped
      <4> QED
        BY <1>2, <2>1, <2>2, <4>1, QueueFixed DEF FirstIsOf
    <3> QED
      BY <1>3, <3>1, <3>2
  <2>4. (\A x \in DOMAIN results : results[x].status \in Statuses /\ FirstIsOf(results[x].base))'
    <3> SUFFICES ASSUME NEW x \in DOMAIN results'
                 PROVE (results[x].status \in Statuses /\ FirstIsOf(results[x].base))'
      OBVIOUS
    <3>1. CASE x = e
      BY <1>2, <2>2, <2>3, <3>1 DEF FirstIsOf
    <3>2. CASE x # e
      <4>1. x \in DOMAIN results /\ results'[x] = results[x]
        BY <2>1, <3>2
      <4>2. results[x].status \in Statuses /\ FirstIsOf(results[x].base)
        BY <4>1 DEF WorkerInv, ResultsOK
      <4>3. \A b : FirstIsOf(b) => FirstIsOf(b)'
        BY <1>2, FirstIsOfKept
      <4> QED
        BY <4>1, <4>2, <4>3 DEF FirstIsOf
    <3> QED
      BY <3>1, <3>2
  <2>5. ResultsOK'
    BY <2>4 DEF ResultsOK
  <2> QED
    BY <2>1, <2>3, <2>5, ClaimedInv
<1> QED
  BY <1>4, <1>5, <1>6

\* A run is opened over complete results only.
LEMMA ReconcileInv ==
  ASSUME WorkerInv, NEW w \in Workers, Reconcile(w)
  PROVE WorkerInv'
<1>1. work[w] # None /\ work[w].at = "reconcile" /\ CommandOK(w, work[w]) /\ UNCHANGED durable
  BY AtWork DEF Reconcile
<1>2. CASE End(w)
  BY <1>1, <1>2, EndWorkStep
<1>3. CASE /\ Go(w, "publish")
           /\ DOMAIN results = Events
           /\ \A e \in Events : results[e].status \notin {"INPUT_REJECTED", "INFERENCE_FAILED"}
           /\ Parity(line[w], results)
  <2>1. \A e \in Events : results[e].base = line[w].base
    <3> SUFFICES ASSUME NEW e \in Events PROVE results[e].base = line[w].base
      OBVIOUS
    <3>1. FirstIsOf(results[e].base)
      BY <1>3 DEF WorkerInv, ResultsOK
    <3>2. FirstIsOf(line[w].base)
      BY <1>1, <3>1 DEF CommandOK, FirstIsOf
    <3> QED
      BY <3>1, <3>2 DEF FirstIsOf
  <2>2. \A e \in Events : results[e].status \in {"SCORED", "OUT_OF_SCOPE"}
    BY <1>3 DEF WorkerInv, ResultsOK, Statuses
  <2>3. Complete(line[w].base, line[w].reference)
    BY <1>3, <2>1, <2>2 DEF Complete, Parity
  <2> QED
    BY <1>1, <1>3, <2>3, GoWorkStep DEF Steps, CommandOK
<1> QED
  BY <1>2, <1>3 DEF Reconcile

\* The runs that are there, and one more, are complete.
LEMMA RunAdded ==
  ASSUME WorkerInv, NEW w \in Workers, work[w] # None, work[w].at \in {"publish", "write"},
         DOMAIN runs' \subseteq DOMAIN runs \cup {Run(w)},
         inbox' = inbox, line' = line, results' = results,
         work' = work \/ End(w) \/ Go(w, "write")
  PROVE WorkerInv'
<1>1. CommandOK(w, work[w]) /\ Complete(line[w].base, line[w].reference)
  BY DEF WorkerInv, CommandOK
<1>2. Kept
  BY DEF Kept
<1>3. (\A run \in DOMAIN runs : Complete(run[1], run[2]))'
  <2> SUFFICES ASSUME NEW run \in DOMAIN runs' PROVE Complete(run[1], run[2])'
    OBVIOUS
  <2>1. Complete(run[1], run[2])
    BY <1>1 DEF WorkerInv, Run
  <2> QED
    BY <1>2, <2>1, CompleteKept
<1>4. PICK c : /\ c = None \/ CommandOK(w, c)
               /\ work' = [work EXCEPT ![w] = c]
  <2>1. CASE work' = work
    BY <1>1, <2>1 DEF WorkerInv
  <2>2. CASE End(w)
    BY <2>2 DEF End
  <2>3. CASE Go(w, "write")
    <3>1. [work[w] EXCEPT !.at = "write"] =
            [at |-> "write", next |-> work[w].next, prior |-> work[w].prior,
             attempts |-> work[w].attempts, status |-> work[w].status]
      BY <1>1 DEF CommandOK, WorkTyped
    <3>2. CommandOK(w, [work[w] EXCEPT !.at = "write"])
      BY <1>1, <3>1 DEF CommandOK, WorkTyped, Steps
    <3> QED
      BY <2>3, <3>2 DEF Go
  <2> QED
    BY <2>1, <2>2, <2>3
<1>5. (\A v \in Workers : work[v] # None => CommandOK(v, work[v]))'
  <2> SUFFICES ASSUME NEW v \in Workers, work'[v] # None PROVE CommandOK(v, work[v])'
    OBVIOUS
  <2>1. PICK b : b = work'[v]
    OBVIOUS
  <2>2. CommandOK(v, b)
    BY <1>4, <2>1 DEF WorkerInv
  <2>3. CommandOK(v, b)'
    BY <1>2, <2>2, CommandKept
  <2> QED
    BY <2>1, <2>3 DEF CommandOK, WorkTyped
<1>6. ResultsOK'
  BY <1>2, FirstIsOfKept DEF WorkerInv, ResultsOK
<1> QED
  BY <1>3, <1>4, <1>5, <1>6 DEF WorkerInv

LEMMA RunInv ==
  ASSUME WorkerInv, NEW w \in Workers, OpenRun(w) \/ WriteRun(w)
  PROVE WorkerInv'
<1>1. work[w] # None /\ work[w].at \in {"publish", "write"}
  BY DEF OpenRun, WriteRun, At
<1>2. inbox' = inbox /\ line' = line /\ results' = results
  BY DEF OpenRun, WriteRun
<1>3. DOMAIN runs' \subseteq DOMAIN runs \cup {Run(w)}
  BY DEF OpenRun, WriteRun
<1>4. work' = work \/ End(w) \/ Go(w, "write")
  BY DEF OpenRun, WriteRun
<1> QED
  BY <1>1, <1>2, <1>3, <1>4, RunAdded

LEMMA NextInv ==
  ASSUME WorkerInv, [WorkerNext]_workerVars
  PROVE WorkerInv'
<1>1. CASE UNCHANGED workerVars
  <2>1. Kept
    BY <1>1 DEF workerVars, Kept
  <2>2. \A v \in Workers : \A c : CommandOK(v, c) => CommandOK(v, c)'
    BY <1>1, <2>1, CommandKept DEF workerVars
  <2> QED
    BY <1>1, <2>2, QueueFixed DEF workerVars, WorkerInv, ResultsOK, FirstIsOf, Complete, CommandOK, WorkTyped
<1>2. ASSUME NEW w \in Workers, Start(w) PROVE WorkerInv'
  BY <1>2, StartWorkInv
<1>3. ASSUME NEW w \in Workers, NextRequest(w) PROVE WorkerInv'
  BY <1>3, NextRequestInv
<1>4. ASSUME NEW w \in Workers, Claim(w) PROVE WorkerInv'
  BY <1>4, ClaimResultInv
<1>5. ASSUME NEW w \in Workers, Reconcile(w) PROVE WorkerInv'
  BY <1>5, ReconcileInv
<1>6. ASSUME NEW w \in Workers, OpenRun(w) \/ WriteRun(w) PROVE WorkerInv'
  BY <1>6, RunInv
<1>7. ASSUME NEW w \in Workers, Kill(w) PROVE WorkerInv'
  BY <1>7, EndWorkStep DEF Kill
<1> QED
  BY <1>1, <1>2, <1>3, <1>4, <1>5, <1>6, <1>7 DEF WorkerNext, Step

-----------------------------------------------------------------------------
\* The inductive invariant of the workers (worker.py, results.py).
THEOREM WorkerInvariant == WorkerSpec => []WorkerInv
<1> QED
  BY InitInv, NextInv, PTL DEF WorkerSpec

\* The durable results of an inbox are of one registered version and window,
\* whatever commands add to them (process_resolved).
THEOREM OneBaseHolds == WorkerSpec => []OneBase
<1>1. WorkerInv => OneBase
  BY DEF WorkerInv, ResultsOK, FirstIsOf, OneBase
<1> QED
  BY <1>1, WorkerInvariant, PTL

\* A published run vouches for the whole inbox, for good (execute).
THEOREM RunsVouchHolds == WorkerSpec => []RunsVouch
<1>1. WorkerInv => RunsVouch
  BY DEF WorkerInv, Complete, RunsVouch
<1> QED
  BY <1>1, WorkerInvariant, PTL

\* No step replaces or removes a durable result (claim_result).
THEOREM NeverReplaced == WorkerSpec => ResultsNeverReplaced
<1>1. ASSUME [WorkerNext]_workerVars
      PROVE [\A e \in DOMAIN results : e \in DOMAIN results' /\ results'[e] = results[e]]_results
  <2>1. CASE \E w \in Workers : Claim(w)
    BY <2>1, ClaimKeeps DEF Kept
  <2>2. CASE ~(\E w \in Workers : Claim(w))
    BY <1>1, <2>2 DEF WorkerNext, workerVars, Step, Start, NextRequest, Reconcile, OpenRun, WriteRun, Kill, durable
  <2> QED
    BY <2>1, <2>2
<1> QED
  BY <1>1, PTL DEF WorkerSpec, ResultsNeverReplaced
=============================================================================
