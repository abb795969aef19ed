----------------------------- MODULE ReadyOutbox -----------------------------
(***************************************************************************)
(* From committed Delta versions to a batch of ready events: a command     *)
(* reads a range of versions one after another, writes a segment for each, *)
(* then the outbox of the range and its publication batch.  An artifact is *)
(* a directory named by its content, claimed by mkdir, and inspected by    *)
(* deriving it again from the table, which meanwhile has new versions or   *)
(* is deleted and made anew.  The first version is 1 here.                 *)
(***************************************************************************)
EXTENDS LocalProcesses, Naturals, Sequences, FiniteSets, SequencesExt

CONSTANTS
  SourceEvents,  \* the events of a table, in the order of their rows
  Builders,      \* processes that run the commands
  Ranges,        \* process -> <<start, end>>: version ranges it may be given
  MaxReady,      \* MAX_READY_EVENTS, of all rows of a version
  MaxVersions,   \* bound: versions of a table
  RowCounts,     \* bound: numbers of new rows of a version
  MaxTables      \* bound: tables made at the path

VARIABLES
  tables,   \* the tables at the source path, the last one is there; a table is
            \* the sequence of its snapshots, and its index is its identity
  complete, \* artifacts written completely: [kind, table, start, end, ready]
  unfinished,  \* artifacts that have a directory and not all of their files
  build     \* process -> the state of its command, or None

outboxVars == <<tables, complete, unfinished, build, kills>>

Live == Len(tables)
Table == tables[Live]

OutboxInit ==
  /\ tables = << <<>> >> /\ complete = {} /\ unfinished = {}
  /\ build = [p \in Builders |-> None]
  /\ kills = 0

\* The feature query appends the next rows; a version may have none.
AppendVersion(rows) ==
  LET held == IF Table = <<>> THEN 0 ELSE Cardinality(Last(Table)) IN
  /\ Len(Table) < MaxVersions /\ held + rows <= Len(SourceEvents)
  /\ tables' = [tables EXCEPT ![Live] = Append(@, ToSet(SubSeq(SourceEvents, 1, held + rows)))]
  /\ UNCHANGED <<complete, unfinished, build, kills>>

\* The local reset deletes the table; the next query makes another.
ResetTable ==
  /\ Table # <<>> /\ Len(tables) < MaxTables
  /\ tables' = Append(tables, <<>>)
  /\ UNCHANGED <<complete, unfinished, build, kills>>

Snapshot(t, v) == IF v = 0 THEN {} ELSE t[v]

\* Rows that are new in a version: [event, version] for each of its events.
NewRows(t, start, end) ==
  UNION {{[event |-> e, version |-> v] : e \in Snapshot(t, v) \ Snapshot(t, v - 1)} : v \in start .. end}

-----------------------------------------------------------------------------
BuildAt(p, at) == build[p] # None /\ build[p].at = at
Fail(p) == build' = [build EXCEPT ![p] = None]

Begin(p, range) ==
  /\ build[p] = None
  /\ build' = [build EXCEPT ![p] =
       [at |-> "read", start |-> range[1], end |-> range[2], table |-> None,
        seen |-> IF range[1] = 1 THEN <<{}>> ELSE <<>>, kind |-> "segment", version |-> range[1], own |-> FALSE]]
  /\ UNCHANGED <<tables, complete, unfinished, kills>>

\* seen holds the predecessor of the range (nothing for version 1), then the
\* versions of the range as they were read.
NextVersion(p) == build[p].start + Len(build[p].seen) - 1
ReadSoFar(p) == NewRows(build[p].seen, 2, Len(build[p].seen))

Reading(p, snapshot) ==
  LET c == build[p] seen == Append(c.seen, snapshot) IN
  build' = [build EXCEPT ![p].seen = seen, ![p].table = Live,
              ![p].at = IF NextVersion(p) = c.end THEN "build" ELSE "read"]

\* Mutation: versions of different tables are compared.
ReadVersionAnyTable(p) ==
  /\ BuildAt(p, "read")
  /\ LET v == NextVersion(p) c == build[p] IN
     IF \/ v > Len(Table)
        \/ c.seen # <<>> /\ ~(Last(c.seen) \subseteq Snapshot(Table, v))
        \/ Cardinality(Snapshot(Table, v)) > MaxReady
     THEN Fail(p) ELSE Reading(p, Snapshot(Table, v))
  /\ UNCHANGED <<tables, complete, unfinished, kills>>

\* One version is read and compared with the one before: the same table, no
\* row gone.  A version of too many rows is refused, the one before the range
\* too, so the range never has too many new ones.
ReadVersion(p) ==
  /\ BuildAt(p, "read")
  /\ LET v == NextVersion(p) c == build[p] IN
     IF \/ v > Len(Table)
        \/ v > 1 /\ c.seen # <<>> /\ c.table # Live
        \/ c.seen # <<>> /\ ~(Last(c.seen) \subseteq Snapshot(Table, v))
        \/ Cardinality(Snapshot(Table, v)) > MaxReady
     THEN Fail(p) ELSE Reading(p, Snapshot(Table, v))
  /\ UNCHANGED <<tables, complete, unfinished, kills>>

-----------------------------------------------------------------------------
(* The artifacts, of a segment's version or of the whole range. *)

Artifact(kind, t, start, end, ready) ==
  [kind |-> kind, table |-> t, start |-> start, end |-> end, ready |-> ready]

InVersions(ready, start, end) == {r \in ready : r.version \in start .. end}

\* What the command has read, under the versions' own numbers.
Ready(p) == {[r EXCEPT !.version = @ + build[p].start - 2] : r \in ReadSoFar(p)}

Target(p) ==
  LET c == build[p]
      start == IF c.kind = "segment" THEN c.version ELSE c.start
      end == IF c.kind = "segment" THEN c.version ELSE c.end
  IN Artifact(c.kind, c.table, start, end, InVersions(Ready(p), start, end))

Segments(a) ==
  {Artifact("segment", a.table, v, v, InVersions(a.ready, v, v)) : v \in a.start .. a.end}

\* Complete among the artifacts that are there, and what the table that is there gives again.
Reproduced(a, there) ==
  /\ a \in there
  /\ a.table = Live /\ a.end <= Len(Table)
  /\ a.ready = NewRows(Table, a.start, a.end)

\* inspect_segment, inspect_outbox with its segments, inspect_batch with its
\* outbox.
Inspect(a, there) ==
  /\ Reproduced(a, there)
  /\ a.kind # "segment" => \A s \in Segments(a) : Reproduced(s, there)
  /\ a.kind = "batch" => Reproduced([a EXCEPT !.kind = "outbox"], there)

\* What an artifact is made from is inspected first; a batch has events.
InputsInspected(p) ==
  LET a == Target(p) IN
  CASE a.kind = "segment" -> TRUE
    [] a.kind = "outbox" -> \A s \in Segments(a) : Inspect(s, complete)
    [] a.kind = "batch" -> Inspect([a EXCEPT !.kind = "outbox"], complete) /\ a.ready # {}

NextArtifact(p) ==
  LET c == build[p] IN
  build' = [build EXCEPT ![p] =
    IF c.kind = "batch" THEN None
    ELSE IF c.kind = "segment" /\ c.version < c.end
    THEN [c EXCEPT !.version = @ + 1, !.own = FALSE]
    ELSE [c EXCEPT !.kind = IF @ = "segment" THEN "outbox" ELSE "batch", !.own = FALSE]]

\* An artifact that is there is inspected; otherwise its directory is made.
ClaimArtifact(p) ==
  /\ BuildAt(p, "build") /\ ~build[p].own
  /\ IF ~InputsInspected(p) THEN Fail(p) /\ UNCHANGED unfinished
     ELSE IF Target(p) \in complete \cup unfinished
     THEN /\ UNCHANGED unfinished
          /\ IF Inspect(Target(p), complete) THEN NextArtifact(p) ELSE Fail(p)
     ELSE unfinished' = unfinished \cup {Target(p)} /\ build' = [build EXCEPT ![p].own = TRUE]
  /\ UNCHANGED <<tables, complete, kills>>

\* Its files are written, and it is inspected.
Write(p) ==
  /\ BuildAt(p, "build") /\ build[p].own
  /\ LET a == Target(p) IN
     /\ unfinished' = unfinished \ {a} /\ complete' = complete \cup {a}
     /\ IF Inspect(a, complete') THEN NextArtifact(p) ELSE Fail(p)
  /\ UNCHANGED <<tables, kills>>

KillBuilder(p) ==
  /\ build[p] # None /\ kills < MaxKills
  /\ Fail(p) /\ kills' = kills + 1
  /\ UNCHANGED <<tables, complete, unfinished>>

OutboxNext ==
  \/ \E rows \in RowCounts : AppendVersion(rows)
  \/ ResetTable
  \/ \E p \in Builders :
       \/ \E range \in Ranges[p] : Begin(p, range)
       \/ ReadVersion(p) \/ ClaimArtifact(p) \/ Write(p) \/ KillBuilder(p)

OutboxSpec == OutboxInit /\ [][OutboxNext]_outboxVars

-----------------------------------------------------------------------------
\* An artifact states what its table held, also when the table was replaced
\* while the command read it: never rows of two tables.
OneTableEach ==
  \A a \in complete :
    /\ a.end <= Len(tables[a.table])
    /\ a.ready = NewRows(tables[a.table], a.start, a.end)

\* An event is ready in one version of its table, in whatever overlapping
\* ranges it was discovered: the ready event's identity holds the version.
ReadyOnce ==
  \A a, b \in complete : a.table = b.table =>
    \A r \in a.ready, q \in b.ready : r.event = q.event => r = q

\* A batch stays what the retained evidence reproduces, down to its segments,
\* while versions are added and commands race or die: only a reset ends that.
BatchesReproduced ==
  \A a \in complete : a.kind = "batch" /\ a.table = Live =>
    \A s \in {a, [a EXCEPT !.kind = "outbox"]} \cup Segments(a) : Reproduced(s, complete)

\* What complete artifacts say is true: each holds what one table held, an
\* event is ready in one version whatever the ranges, and batches stay
\* reproducible to their segments.
ArtifactsTrue == OneTableEach /\ ReadyOnce /\ BatchesReproduced
=============================================================================
