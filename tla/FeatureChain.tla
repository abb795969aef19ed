------------------------------ MODULE FeatureChain ------------------------------
(***************************************************************************)
(* Two applications of the engine in a row: deduplication, whose state is  *)
(* that of DeduplicationQuery, writes the table that the amount statistics *)
(* read.  Each has its checkpoint and its watermark and is started, killed *)
(* and run again on its own.  Rolling features stand between them in the   *)
(* engine; they copy the rows on time in their batches                     *)
(* (RowPerAcceptedEvent of RollingFeatureQuery).                           *)
(***************************************************************************)
EXTENDS DeduplicationQuery, AmountStatistics

VARIABLES
  sOffsets, sCommits, sStates, sTable, sStage, sTarget, sFrame, sResetting, sTorn, sResets,
  sFailures   \* the statistics

statsVars == <<sOffsets, sCommits, sStates, sTable, sStage, sTarget, sFrame, sResetting,
               sTorn, sResets, sFailures>>
chainVars == <<vars, statsVars>>

\* What the statistics read: the versions of the table deduplication writes.
Deduplicated == [i \in 1..Len(table) |-> table[i].rows]

Stats == INSTANCE MicroBatchQuery WITH
  InitialState <- StatisticsInitial, Process <- StatisticsBatch,
  source <- Deduplicated, offsets <- sOffsets, commits <- sCommits, states <- sStates,
  table <- sTable, stage <- sStage, target <- sTarget, frame <- sFrame,
  resetting <- sResetting, torn <- sTorn, resets <- sResets, failures <- sFailures

ChainInit ==
  /\ Init
  /\ sOffsets = <<>> /\ sCommits = <<>> /\ sStates = <<>> /\ sTable = <<>>
  /\ sStage = "stopped" /\ sTarget = 0 /\ sFrame = {} /\ sFailures = 0
  /\ sResetting = FALSE /\ sTorn = FALSE /\ sResets = 0

\* Only the statistics are reset: Delta refuses a source that was replaced.
DedupStep == UNCHANGED statsVars /\ (Arrive \/ Run \/ Crash)
StatsStep == UNCHANGED vars /\ (Stats!Run \/ Stats!Crash \/ Stats!Reset)

ChainNext == DedupStep \/ StatsStep
ChainSpec == ChainInit /\ [][ChainNext]_chainVars

-----------------------------------------------------------------------------
(* Properties. *)

\* CustomerAmountStatisticsProcessor requires that offsets advance.  Copies of
\* an event, kills of either application and batches that are run again never
\* bring a row out of log order before it, so it never refuses a batch.
LogOrderHolds == \A b \in 1..Len(sOffsets) : \A r \in Stats!Results(b) : r.ok

\* An event counts once: no baseline holds two copies of an event, nor a copy
\* of the event it is the baseline of, and no event is output twice.
EventsCountOnce ==
  LET out == UNION {sTable[i].rows : i \in 1..Len(sTable)}
  IN /\ \A f \in out : \A e, g \in f.prior \cup {f.event} : e.id = g.id => e = g
     /\ \A f, g \in out : f.event.id = g.event.id => f = g

\* The statistics are fed in log order and count each event once.
FedOnceInOrder == LogOrderHolds /\ EventsCountOnce
=============================================================================
