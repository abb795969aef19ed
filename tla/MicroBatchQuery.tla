---------------------------- MODULE MicroBatchQuery ----------------------------
(***************************************************************************)
(* One streaming application of the engine: a Delta source, a checkpoint   *)
(* (offset log, commit log and versions of the operator state) and a Delta *)
(* table written through foreachBatch.  The application is an AvailableNow *)
(* command: it processes what is committed when it starts and stops.       *)
(*                                                                         *)
(* The operator between source and table is a parameter: the modules       *)
(* RollingFeatures, AmountStatistics, CustomerActivity and Deduplication   *)
(* give its definition.  Batches are numbered from 1; Spark's batchId, and *)
(* the Delta transaction version, is one less.                             *)
(***************************************************************************)
EXTENDS Naturals, Sequences, FiniteSets

CONSTANTS
  Upstream(_),       \* Upstream(s): versions that may be committed after those of s
  InitialState,      \* operator state of an empty checkpoint
  Process(_, _, _, _), \* Process(state, rows, late, due): results of a batch
  WatermarkOf(_),    \* watermark that the rows of a batch allow
  MaxVersions,       \* bound: versions of the source
  MaxFailures,       \* bound: kills of the application or of the reset script
  MaxResets          \* bound: runs of the reset script

ASSUME BoundsAssumption ==
  MaxVersions \in Nat /\ MaxFailures \in Nat /\ MaxResets \in Nat

VARIABLES
  source,    \* the source table: a sequence of versions, each a set of rows
  offsets,   \* offset log: where each batch ends, and the watermark it runs at
  commits,   \* commit log: the watermark each committed batch leaves behind
  states,    \* state store: the operator state each batch leaves behind
  table,     \* the target table: [txn, rows] of each version, one txnAppId
  stage,     \* where the application stands
  target,    \* last source version this run of the application processes
  frame,     \* output rows of the batch at hand
  resetting, \* the reset script is between its two removals
  torn,      \* the table has been removed, and the checkpoint not yet
  resets, failures

log == <<offsets, commits, states>>
vars == <<source, log, table, stage, target, frame, resetting, torn, resets, failures>>

Stages == {"stopped", "idle", "planned", "computed", "written"}

-----------------------------------------------------------------------------
(* The checkpoint. *)

Position(b) == IF b = 0 THEN 0 ELSE offsets[b].to
Watermark(b) == IF b = 0 THEN 0 ELSE offsets[b].watermark

\* Mutation: a retried batch starts from what its first run left.
StateLeft(b) == IF states = <<>> THEN InitialState ELSE states[Len(states)]

StateBefore(b) == IF b = 1 THEN InitialState ELSE states[b - 1]
Input(b) == UNION {source[v] : v \in (Position(b - 1) + 1)..Position(b)}

\* Rows are late by the watermark of the batch before; timers are due by the
\* batch's own.  A retried batch starts from the logged ends and watermark,
\* and from the state the batch before it left.
Results(b) == Process(StateBefore(b), Input(b), Watermark(b - 1), Watermark(b))

Committed == Len(commits)
NextWatermark == IF commits = <<>> THEN 0 ELSE commits[Committed]
Larger(m, n) == IF m > n THEN m ELSE n

TxnOf(t) == IF t = <<>> THEN 0 ELSE t[Len(t)].txn

-----------------------------------------------------------------------------
Init ==
  /\ source = <<>> /\ offsets = <<>> /\ commits = <<>> /\ states = <<>>
  /\ table = <<>> /\ stage = "stopped" /\ target = 0 /\ frame = {}
  /\ resetting = FALSE /\ torn = FALSE /\ resets = 0 /\ failures = 0

\* The upstream application commits a version.
Arrive ==
  /\ Len(source) < MaxVersions
  /\ \E v \in Upstream(source) : source' = Append(source, v)
  /\ UNCHANGED <<log, table, stage, target, frame, resetting, torn, resets, failures>>

\* Mutation: a batch that was not committed is not run again.
StartAfresh ==
  /\ stage = "stopped" /\ ~resetting /\ source # <<>>
  /\ target' = Len(source) /\ stage' = "idle"
  /\ UNCHANGED <<source, log, table, frame, resetting, torn, resets, failures>>

\* The application starts on an existing source table.  A batch that is in
\* the offset log and not in the commit log is run again.
Start ==
  /\ stage = "stopped" /\ ~resetting /\ source # <<>>
  /\ target' = Len(source)
  /\ stage' = IF Len(offsets) > Committed THEN "planned" ELSE "idle"
  /\ UNCHANGED <<source, log, table, frame, resetting, torn, resets, failures>>

PlanBatch(to) ==
  /\ stage = "idle"
  /\ offsets' = Append(offsets, [to |-> to, watermark |-> NextWatermark])
  /\ stage' = "planned"
  /\ UNCHANGED <<source, commits, states, table, target, frame, resetting, torn, resets,
                 failures>>

\* The next batch takes some of the available versions.
PlanData == \E to \in (Position(Committed) + 1)..target : PlanBatch(to)

\* All are taken: a batch without rows lets the timers see the new watermark.
PlanNoData ==
  /\ Position(Committed) >= target /\ NextWatermark > Watermark(Committed)
  /\ PlanBatch(Position(Committed))

\* The tasks of the batch run: its state is stored and its rows are persisted.
\* A processor that throws ends the application.
Compute ==
  /\ stage = "planned"
  /\ LET b == Len(offsets)
     IN \E r \in Results(b) :
          IF r.ok
          THEN /\ states' = [a \in 1..b |-> IF a = b THEN r.state ELSE states[a]]
               /\ frame' = r.out /\ stage' = "computed"
          ELSE /\ stage' = "stopped" /\ UNCHANGED <<states, frame>>
  /\ UNCHANGED <<source, offsets, commits, table, target, resetting, torn, resets, failures>>

\* Mutation: a plain append, without txnAppId and txnVersion.
WritePlainAppend ==
  /\ stage = "computed"
  /\ table' = IF frame = {} THEN table
              ELSE Append(table, [txn |-> Len(offsets), rows |-> frame])
  /\ stage' = "written" /\ frame' = {}
  /\ UNCHANGED <<source, log, target, resetting, torn, resets, failures>>

\* Mutation: the sink swallows an append that fails.
WriteIgnoringFailure ==
  /\ stage = "computed"
  /\ \/ table' = table
     \/ frame # {} /\ TxnOf(table) < Len(offsets)
        /\ table' = Append(table, [txn |-> Len(offsets), rows |-> frame])
  /\ stage' = "written" /\ frame' = {}
  /\ UNCHANGED <<source, log, target, resetting, torn, resets, failures>>

\* An empty frame is not written.  Delta ignores an append whose transaction
\* version is not above the last one of its application.
WriteBatch ==
  /\ stage = "computed"
  /\ table' = IF frame = {} \/ TxnOf(table) >= Len(offsets) THEN table
              ELSE Append(table, [txn |-> Len(offsets), rows |-> frame])
  /\ stage' = "written" /\ frame' = {}
  /\ UNCHANGED <<source, log, target, resetting, torn, resets, failures>>

CommitBatch ==
  /\ stage = "written"
  /\ commits' = Append(commits, Larger(Watermark(Len(offsets)), WatermarkOf(Input(Len(offsets)))))
  /\ stage' = "idle"
  /\ UNCHANGED <<source, offsets, states, table, target, frame, resetting, torn, resets,
                 failures>>

\* Mutation: the application stops at the end of the data.
FinishWithoutTimers ==
  /\ stage = "idle" /\ Position(Committed) >= target
  /\ stage' = "stopped"
  /\ UNCHANGED <<source, log, table, target, frame, resetting, torn, resets, failures>>

Finish ==
  /\ stage = "idle" /\ Position(Committed) >= target
  /\ NextWatermark = Watermark(Committed)
  /\ stage' = "stopped"
  /\ UNCHANGED <<source, log, table, target, frame, resetting, torn, resets, failures>>

\* The application is killed, or its post-commit hook throws.
Crash ==
  /\ stage # "stopped" /\ failures < MaxFailures
  /\ stage' = "stopped" /\ frame' = {} /\ failures' = failures + 1
  /\ UNCHANGED <<source, log, table, target, resetting, torn, resets>>

\* Mutation: only the checkpoint is removed; the transaction versions of the
\* table are those of another lineage.
RemoveNoTable ==
  /\ stage = "stopped" /\ ~resetting /\ resets < MaxResets
  /\ resetting' = TRUE /\ torn' = TRUE /\ resets' = resets + 1
  /\ UNCHANGED <<source, log, table, stage, target, frame, failures>>

\* The reset script removes the table, then the checkpoint.
RemoveTable ==
  /\ stage = "stopped" /\ ~resetting /\ resets < MaxResets
  /\ table' = <<>> /\ resetting' = TRUE /\ torn' = TRUE /\ resets' = resets + 1
  /\ UNCHANGED <<source, log, stage, target, frame, failures>>

RemoveCheckpoint ==
  /\ resetting
  /\ offsets' = <<>> /\ commits' = <<>> /\ states' = <<>>
  /\ resetting' = FALSE /\ torn' = FALSE
  /\ UNCHANGED <<source, table, stage, target, frame, resets, failures>>

KillReset ==
  /\ resetting /\ failures < MaxFailures
  /\ resetting' = FALSE /\ failures' = failures + 1
  /\ UNCHANGED <<source, log, table, stage, target, frame, torn, resets>>

Run == Start \/ PlanData \/ PlanNoData \/ Compute \/ WriteBatch \/ CommitBatch \/ Finish
Reset == RemoveTable \/ RemoveCheckpoint \/ KillReset
Next == Arrive \/ Run \/ Crash \/ Reset

Spec == Init /\ [][Next]_vars

\* The operator runs the application again and again, and completes a reset.
FairSpec == Spec /\ WF_vars(Run) /\ WF_vars(RemoveCheckpoint)

-----------------------------------------------------------------------------
(* Properties. *)

\* The logs are in step with the stage of the application.
TypeOK ==
  /\ offsets \in Seq([to : Nat, watermark : Nat]) /\ commits \in Seq(Nat)
  /\ DOMAIN states \in {1..Committed, 1..Len(offsets)}
  /\ Len(offsets) \in {Committed, Committed + 1}
  /\ stage = "idle" => Len(offsets) = Committed
  /\ stage \in {"planned", "computed", "written"} => Len(offsets) = Committed + 1
  /\ stage \in Stages /\ target \in 0..Len(source)
  /\ resetting \in BOOLEAN /\ torn \in BOOLEAN
  /\ resetting => torn /\ stage = "stopped"
  /\ resets \in 0..MaxResets /\ failures \in 0..MaxFailures

\* ADR-011: a retried batch does not append its rows again.  Every version of
\* the table belongs to a batch of its own, in batch order, and its rows are
\* what that batch outputs from its logged rows, watermarks and prior state,
\* however often the application was killed and the batch run again.
TableSound ==
  \A i \in 1..Len(table) :
    LET b == table[i].txn
    IN /\ b \in 1..Len(offsets)
       /\ \A j \in 1..(i - 1) : table[j].txn < b
       /\ \E r \in Results(b) : r.ok /\ r.out = table[i].rows

\* A batch the checkpoint calls committed has its rows in the table, unless
\* the reset script removed the table and was not completed; run again, the
\* script repairs that.
TableComplete ==
  ~torn /\ ~resetting =>
    \A b \in 1..Committed :
      \/ \E r \in Results(b) : r.ok /\ r.out = {}
      \/ \E i \in 1..Len(table) : table[i].txn = b

\* The operator is run on everything: in the end every source version is in a
\* committed batch, and the timers have seen the last watermark.
Drained ==
  <>[](/\ Position(Committed) = Len(source)
       /\ Watermark(Committed) = NextWatermark)
=============================================================================
