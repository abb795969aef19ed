--------------------------- MODULE FeatureChainProofs ---------------------------
(***************************************************************************)
(* Proofs about FeatureChain: deduplication feeds the statistics in the    *)
(* order of the log and with each event once, so that the statistics never *)
(* refuse a batch and count no event twice.                                *)
(*                                                                         *)
(* Both applications are instances of what MicroBatchQueryProofs proves of *)
(* any: the first as it stands, the second (Fed) with the table of the     *)
(* first as its source.                                                    *)
(***************************************************************************)
EXTENDS FeatureChain, MicroBatchQueryProofs

\* The source of the statistics gains its versions by steps of deduplication,
\* and by none of its own.
NoRows(s) == {}

Fed == INSTANCE MicroBatchQueryProofs WITH
  Upstream <- NoRows,
  InitialState <- StatisticsInitial, Process <- StatisticsBatch,
  source <- Deduplicated, offsets <- sOffsets, commits <- sCommits, states <- sStates,
  table <- sTable, stage <- sStage, target <- sTarget, frame <- sFrame,
  resetting <- sResetting, torn <- sTorn, resets <- sResets, failures <- sFailures

\* Deduplication reads what Kafka delivered: the rows of a pair in the order of
\* their partition's log, which is one partition as the key is the customer.
ChainOf(Rows, Sources) ==
  /\ DeduplicationOf(Rows) /\ KeyedSource(Rows, Sources)
  /\ Logged(PairRows(Rows))
  /\ \A s \in Sources : InPartitionOrder(s) /\ InOnePartition(s)

ChainInv(Rows, Sources) == KeyedInv(Rows, Sources) /\ Fed!EngineInv(Rows)

-----------------------------------------------------------------------------
(* The statistics as an instance of the engine. *)

LEMMA FedVersions == \A Rows : Fed!Versions(Rows) = Versions(Rows)
<1>1. \A set : Fed!IsFiniteSet(set) <=> IsFiniteSet(set)
  BY Zenon DEF IsFiniteSet, Fed!IsFiniteSet
<1> QED BY <1>1 DEF Versions, Fed!Versions

LEMMA FedSource ==
  ASSUME NEW Rows, SourceOf(Rows)
  PROVE  Fed!SourceOf(Rows)
BY FedVersions DEF SourceOf, Fed!SourceOf, NoRows

LEMMA FedInit ==
  ASSUME NEW Rows, ChainInit
  PROVE  Fed!EngineInv(Rows)
<1>1. Deduplicated = <<>>
  <2>1. table = <<>> /\ 1..Len(table) = {}
    BY DEF ChainInit, Init
  <2> QED BY <2>1 DEF Deduplicated
<1>2. Fed!Init
  BY <1>1 DEF ChainInit, Fed!Init
<1> QED BY <1>2, Fed!InitInv, Fed!EmptyLog, BoundsAssumption, EventTimeAssumption, ActivityAssumption,
     WindowsAssumption, InactivityAssumption DEF Fed!EngineInv, Fed!Init

\* The steps of the statistics are those of their engine.
LEMMA StatsStepIsNext ==
  ASSUME Stats!Run \/ Stats!Crash \/ Stats!Reset
  PROVE  Fed!Next
<1>1. Stats!Start => Fed!Start
  BY DEF Stats!Start, Fed!Start, Stats!Committed, Fed!Committed, Stats!log, Fed!log
<1>2. \A to : Stats!PlanBatch(to) => Fed!PlanBatch(to)
  BY DEF Stats!PlanBatch, Fed!PlanBatch, Stats!NextWatermark, Fed!NextWatermark, Stats!Committed, Fed!Committed
<1>3. Stats!PlanData => Fed!PlanData
  BY <1>2 DEF Stats!PlanData, Fed!PlanData, Stats!Position, Fed!Position, Stats!Committed, Fed!Committed
<1>4. Stats!PlanNoData => Fed!PlanNoData
  BY <1>2 DEF Stats!PlanNoData, Fed!PlanNoData, Stats!Position, Fed!Position, Stats!Committed, Fed!Committed,
              Stats!NextWatermark, Fed!NextWatermark, Stats!Watermark, Fed!Watermark
<1>5. Stats!Compute => Fed!Compute
  BY Zenon DEF Stats!Compute, Fed!Compute, Stats!Results, Fed!Results, Stats!StateBefore, Fed!StateBefore,
         Stats!Input, Fed!Input, Stats!Position, Fed!Position, Stats!Watermark, Fed!Watermark
<1>6. Stats!WriteBatch => Fed!WriteBatch
  BY DEF Stats!WriteBatch, Fed!WriteBatch, Stats!TxnOf, Fed!TxnOf, Stats!log, Fed!log
<1>7. Stats!CommitBatch => Fed!CommitBatch
  BY DEF Stats!CommitBatch, Fed!CommitBatch, Stats!Larger, Fed!Larger, Stats!Input, Fed!Input,
         Stats!Position, Fed!Position, Stats!Watermark, Fed!Watermark
<1>8. Stats!Finish => Fed!Finish
  BY DEF Stats!Finish, Fed!Finish, Stats!Position, Fed!Position, Stats!Committed, Fed!Committed,
         Stats!NextWatermark, Fed!NextWatermark, Stats!Watermark, Fed!Watermark, Stats!log, Fed!log
<1>9. Stats!Crash => Fed!Crash
  BY DEF Stats!Crash, Fed!Crash, Stats!log, Fed!log
<1>10. Stats!Reset => Fed!Reset
  BY DEF Stats!Reset, Fed!Reset, Stats!RemoveTable, Fed!RemoveTable, Stats!RemoveCheckpoint, Fed!RemoveCheckpoint,
         Stats!KillReset, Fed!KillReset, Stats!log, Fed!log
<1> QED
  BY <1>1, <1>3, <1>4, <1>5, <1>6, <1>7, <1>8, <1>9, <1>10 DEF Stats!Run, Fed!Run, Fed!Next

-----------------------------------------------------------------------------
(* Each step keeps the invariants of both applications. *)

\* What deduplication computes for a batch are some of its rows.
LEMMA FrameIsVersion ==
  ASSUME NEW Rows, DeduplicationOf(Rows), EngineInv(Rows), stage = "computed"
  PROVE  frame \in Versions(Rows)
<1>1. Len(offsets) \in 1..Len(offsets)
  BY LogTypes DEF EngineInv, IInv, TypeOK
<1>2. PICK r \in Results(Len(offsets)) : r.ok /\ r.out = frame
  BY Zenon DEF EngineInv, IInv, BatchComputed
<1>3. r.out \subseteq Fresh(Len(offsets))
  BY <1>2, DedupResults
<1>4. Input(Len(offsets)) \in Versions(Rows)
  BY <1>1, InputInRows DEF EngineInv
<1>5. frame \subseteq Input(Len(offsets))
  BY <1>2, <1>3 DEF Fresh, Accepted, OnTime
<1> QED BY <1>4, <1>5, FS_Subset DEF Versions

\* The table of deduplication stays or gains a version.
LEMMA TableGrows ==
  ASSUME NEW Rows, DeduplicationOf(Rows), EngineInv(Rows), Arrive \/ Run \/ Crash
  PROVE  \/ table' = table
         \/ \E rows \in Versions(Rows) : \E n : table' = Append(table, [txn |-> n, rows |-> rows])
<1>1. CASE WriteBatch
  BY <1>1, FrameIsVersion DEF WriteBatch
<1>2. CASE ~WriteBatch
  BY <1>2 DEF Arrive, Run, Crash, Start, PlanData, PlanNoData, PlanBatch, Compute, CommitBatch, Finish
<1> QED BY <1>1, <1>2

LEMMA DedupStepFeeds ==
  ASSUME NEW Rows, DeduplicationOf(Rows), EngineInv(Rows), Fed!EngineInv(Rows), DedupStep
  PROVE  Fed!EngineInv(Rows)'
<1>1. UNCHANGED statsVars /\ (Arrive \/ Run \/ Crash)
  BY DEF DedupStep
<1>2. CASE table' = table
  <2>1. Deduplicated' = Deduplicated
    BY <1>2 DEF Deduplicated
  <2>2. UNCHANGED Fed!vars
    BY <1>1, <2>1 DEF statsVars, Fed!vars, Fed!log
  <2>3. Fed!SourceOf(Rows)
    BY FedSource DEF DeduplicationOf
  <2> QED
    BY <2>2, <2>3, Fed!EngineNext, BoundsAssumption, EventTimeAssumption, ActivityAssumption,
       WindowsAssumption, InactivityAssumption
<1>3. ASSUME NEW rows \in Versions(Rows), NEW n, table' = Append(table, [txn |-> n, rows |-> rows])
      PROVE  Fed!EngineInv(Rows)'
  <2>1. /\ Len(table) \in Nat /\ Len(table') = Len(table) + 1
        /\ \A i \in 1..Len(table) : table'[i] = table[i]
        /\ table'[Len(table) + 1] = [txn |-> n, rows |-> rows]
    BY <1>3, AppendToSequence DEF EngineInv, IInv
  <2>2. Deduplicated \in Seq(Versions(Rows))
    BY FedVersions DEF Fed!EngineInv, Fed!IInv
  <2>3. Deduplicated' = Append(Deduplicated, rows)
    <3>1. /\ Len(Deduplicated) = Len(table) /\ DOMAIN Deduplicated = 1..Len(table)
          /\ \A i \in 1..Len(table) : Deduplicated[i] = table[i].rows
      BY <2>1 DEF Deduplicated
    <3>2. Deduplicated' = [i \in 1..(Len(table) + 1) |-> table'[i].rows]
      BY <2>1 DEF Deduplicated
    <3>3. \A i \in 1..(Len(table) + 1) :
            table'[i].rows = IF i = Len(table) + 1 THEN rows ELSE Deduplicated[i]
      BY <2>1, <3>1
    <3>4. PICK added : added = Append(Deduplicated, rows)
      OBVIOUS
    <3>5. /\ added \in Seq(Versions(Rows)) /\ Len(added) = Len(table) + 1
          /\ \A i \in 1..Len(table) : added[i] = Deduplicated[i]
          /\ added[Len(table) + 1] = rows
      BY <2>1, <2>2, <3>1, <3>4
    <3>6. added = [i \in 1..(Len(table) + 1) |-> added[i]]
      BY <3>5
    <3>7. \A i \in 1..(Len(table) + 1) : added[i] = table'[i].rows
      BY <2>1, <3>3, <3>5
    <3> QED BY <3>2, <3>4, <3>6, <3>7, Zenon
  <2>4. Fed!Supplied(rows)
    BY <1>1, <2>3 DEF Fed!Supplied, statsVars, Fed!log
  <2>5. rows \in Fed!Versions(Rows)
    BY FedVersions
  <2> QED
    BY <2>4, <2>5, Fed!EngineSupplied, BoundsAssumption, EventTimeAssumption, ActivityAssumption,
       WindowsAssumption, InactivityAssumption
<1> QED BY <1>1, <1>2, <1>3, TableGrows

LEMMA ChainInitial ==
  ASSUME NEW Rows, NEW Sources, ChainOf(Rows, Sources), ChainInit
  PROVE  ChainInv(Rows, Sources)
<1>1. Init
  BY DEF ChainInit
<1>2. EngineInv(Rows)
  BY <1>1, InitInv, EmptyLog DEF EngineInv, Init
<1>3. source \in Sources
  BY <1>1 DEF Init, ChainOf, KeyedSource
<1> QED BY <1>2, <1>3, FedInit DEF ChainInv, KeyedInv

LEMMA ChainStep ==
  ASSUME NEW Rows, NEW Sources, ChainOf(Rows, Sources), ChainInv(Rows, Sources), [ChainNext]_chainVars
  PROVE  ChainInv(Rows, Sources)'
<1>1. /\ DeduplicationOf(Rows) /\ KeyedSource(Rows, Sources) /\ SourceOf(Rows)
      /\ EngineInv(Rows) /\ source \in Sources /\ Fed!EngineInv(Rows)
  BY DEF ChainOf, ChainInv, KeyedInv, DeduplicationOf
<1>2. [Next]_vars
  BY DEF ChainNext, DedupStep, StatsStep, chainVars, Next
<1>3. EngineInv(Rows)'
  BY <1>1, <1>2, EngineNext
<1>4. source' \in Sources
  BY <1>1, <1>2, SourceStep
<1>5. Fed!EngineInv(Rows)'
  <2>1. CASE DedupStep
    BY <1>1, <2>1, DedupStepFeeds
  <2>2. CASE StatsStep \/ UNCHANGED chainVars
    <3>1. Fed!Next \/ UNCHANGED Fed!vars
      <4>1. CASE StatsStep
        BY <4>1, StatsStepIsNext DEF StatsStep
      <4>2. CASE UNCHANGED chainVars
        BY <4>2 DEF chainVars, vars, log, statsVars, Deduplicated, Fed!vars, Fed!log
      <4> QED BY <2>2, <4>1, <4>2
    <3>2. Fed!SourceOf(Rows)
      BY <1>1, FedSource
    <3> QED
      BY <1>1, <3>1, <3>2, Fed!EngineNext, BoundsAssumption, EventTimeAssumption, ActivityAssumption,
         WindowsAssumption, InactivityAssumption
  <2> QED BY <2>1, <2>2 DEF ChainNext
<1> QED BY <1>3, <1>4, <1>5 DEF ChainInv, KeyedInv

\* Both applications keep their invariants side by side: deduplication is not
\* disturbed by the statistics, and to these each version it writes is a
\* version that their source gains.
THEOREM ChainInvariant ==
  ASSUME NEW Rows, NEW Sources, ChainOf(Rows, Sources)
  PROVE  ChainSpec => []ChainInv(Rows, Sources)
<1>1. ChainInit => ChainInv(Rows, Sources)
  BY ChainInitial
<1>2. ChainInv(Rows, Sources) /\ [ChainNext]_chainVars => ChainInv(Rows, Sources)'
  BY ChainStep
<1> QED BY <1>1, <1>2, PTL DEF ChainSpec

-----------------------------------------------------------------------------
(* What deduplication feeds to the statistics. *)

\* A row of the table is one that the batch of its version read.
LEMMA RowWasRead ==
  ASSUME NEW Rows, DeduplicationOf(Rows), EngineInv(Rows),
         NEW i \in 1..Len(table), NEW e \in table[i].rows
  PROVE  table[i].txn \in 1..Len(offsets) /\ e \in Input(table[i].txn)
<1>1. PICK b : b = table[i].txn
  OBVIOUS
<1>2. b \in 1..Len(offsets) /\ \E r \in Results(b) : r.ok /\ r.out = table[i].rows
  BY <1>1, Zenon DEF EngineInv, IInv, TableSound
<1>3. e \in Fresh(b)
  BY <1>2, DedupResults
<1> QED BY <1>1, <1>2, <1>3 DEF Fresh, Accepted, OnTime

LEMMA RowInSource ==
  ASSUME NEW Rows, EngineInv(Rows), NEW b \in 1..Len(offsets), NEW e \in Input(b)
  PROVE  \E v \in 1..Len(source) : e \in source[v]
<1>1. Position(b - 1) \in Nat /\ Position(b) \in Nat /\ Position(b) <= Len(source) /\ Len(source) \in Nat
  BY BatchNumbers
<1>2. PICK v \in (Position(b - 1) + 1)..Position(b) : e \in source[v]
  BY DEF Input
<1>3. v \in 1..Len(source)
  BY <1>1
<1> QED BY <1>2, <1>3

\* Later versions of the table are of later batches, whose rows are of later
\* versions of the source; and which copy of an event is kept does not matter.
LEMMA FedInOrder ==
  ASSUME NEW Rows, NEW Sources, ChainOf(Rows, Sources), KeyedInv(Rows, Sources)
  PROVE  InPartitionOrder(Deduplicated)
<1>1. /\ DeduplicationOf(Rows) /\ EngineInv(Rows) /\ InPartitionOrder(source) /\ Logged(PairRows(Rows))
  BY DEF ChainOf, KeyedInv
<1>2. Len(table) \in Nat
  BY <1>1, AppendToSequence DEF EngineInv, IInv
<1>3. Len(Deduplicated) = Len(table) /\ \A i \in 1..Len(table) : Deduplicated[i] = table[i].rows
  BY <1>2 DEF Deduplicated
<1>4. ASSUME NEW i \in 1..Len(table), NEW j \in 1..Len(table), i < j,
             NEW e \in table[i].rows, NEW h \in table[j].rows,
             e.key \in CustomerCurrencies, e.key = h.key, e.partition = h.partition
      PROVE  e.offset < h.offset
  <2>1. PICK a, b : a = table[i].txn /\ b = table[j].txn
    OBVIOUS
  <2>2. a \in 1..Len(offsets) /\ e \in Input(a) /\ b \in 1..Len(offsets) /\ h \in Input(b)
    BY <1>1, <2>1, RowWasRead
  <2>3. a < b
    <3>1. i \in 1..(j - 1)
      BY <1>4
    <3> QED BY <1>1, <2>1, <3>1 DEF EngineInv, IInv, TableSound
  <2>4. a \in 1..(b - 1)
    BY <1>1, <2>2, <2>3, BatchNumbers
  <2>5. PICK v \in 1..Len(source), w \in 1..Len(source) : v < w /\ e \in source[v] /\ h \in source[w]
    BY <1>1, <2>2, <2>4, EarlierVersion
  <2> QED BY <1>1, <1>4, <2>5 DEF InPartitionOrder
<1>5. ASSUME NEW i \in 1..Len(table), NEW e \in table[i].rows, NEW h \in table[i].rows,
             e.key \in CustomerCurrencies, e.key = h.key, e.partition = h.partition, e.offset = h.offset
      PROVE  e = h
  <2>1. PICK v \in 1..Len(source) : e \in source[v]
    BY <1>1, RowWasRead, RowInSource
  <2>2. PICK w \in 1..Len(source) : h \in source[w]
    BY <1>1, RowWasRead, RowInSource
  <2>3. e.offset \in Int
    <3>1. e \in Rows
      BY <1>1, RowWasRead, InputInRows DEF EngineInv, Versions
    <3> QED BY <1>1, <1>5, <3>1 DEF Logged, PairRows
  <2>4. v = w \/ v < w \/ w < v
    BY <1>1 DEF EngineInv, IInv
  <2> QED BY <1>1, <1>5, <2>1, <2>2, <2>3, <2>4 DEF InPartitionOrder
<1> QED BY <1>3, <1>4, <1>5 DEF InPartitionOrder

LEMMA FedOncePerEvent ==
  ASSUME NEW Rows, NEW Sources, ChainOf(Rows, Sources), KeyedInv(Rows, Sources)
  PROVE  ComesOnce(Deduplicated) /\ InOnePartition(Deduplicated)
<1>1. /\ DeduplicationOf(Rows) /\ EngineInv(Rows) /\ InOnePartition(source)
  BY DEF ChainOf, KeyedInv
<1>2. DedupInv(Rows)
  BY <1>1, MemoryHolds DEF DedupInv
<1>3. OneRowPerEvent
  BY <1>1, <1>2, InvOneRow
<1>4. Len(table) \in Nat
  BY <1>1, AppendToSequence DEF EngineInv, IInv
<1>5. Len(Deduplicated) = Len(table) /\ \A i \in 1..Len(table) : Deduplicated[i] = table[i].rows
  BY <1>4 DEF Deduplicated
<1>6. ASSUME NEW i \in 1..Len(table), NEW j \in 1..Len(table), NEW e \in table[i].rows, NEW h \in table[j].rows
      PROVE  /\ e.id = h.id => e = h
             /\ e.key \in CustomerCurrencies /\ e.key = h.key => e.partition = h.partition
  <2>1. e \in Written /\ h \in Written
    BY DEF Written
  <2>2. PICK v \in 1..Len(source) : e \in source[v]
    BY <1>1, RowWasRead, RowInSource
  <2>3. PICK w \in 1..Len(source) : h \in source[w]
    BY <1>1, RowWasRead, RowInSource
  <2> QED BY <1>1, <1>3, <2>1, <2>2, <2>3 DEF OneRowPerEvent, InOnePartition
<1>7. \A i, j \in 1..Len(table) : i # j => table[i].rows \cap table[j].rows = {}
  BY <1>3 DEF OneRowPerEvent
<1> QED BY <1>5, <1>6, <1>7 DEF ComesOnce, InOnePartition

-----------------------------------------------------------------------------
(* The operator of the instance is that of the chain. *)

LEMMA FedRows ==
  ASSUME NEW s, NEW rows
  PROVE  Fed!HandleRows(s, rows) = HandleRows(s, rows)
<1>1. \A acc, row : Fed!HandleRow(acc, row) = HandleRow(acc, row)
  BY Zenon DEF Fed!HandleRow, HandleRow, Fed!Advances, Advances, Fed!Max, Max
<1>2. \A set : Fed!InOrder(set, Fed!InLogOrder) = InOrder(set, InLogOrder)
  BY Zenon DEF Fed!InOrder, InOrder, Fed!InLogOrder, InLogOrder, Fed!Cardinality, Cardinality
<1>3. \A start, q : Fed!FoldLeft(Fed!HandleRow, start, q) = FoldLeft(HandleRow, start, q)
  BY Zenon DEF Fed!HandleRow, HandleRow, Fed!Advances, Advances, Fed!FoldLeft, FoldLeft,
     Fed!MapThenFoldSet, MapThenFoldSet, Fed!Max, Max
<1>4. \A previous, t : Fed!MoveTimer(previous, t) = MoveTimer(previous, t)
  BY Zenon DEF Fed!MoveTimer, MoveTimer, Fed!CeilMillis, CeilMillis
<1> QED BY <1>2, <1>3, <1>4, Zenon DEF Fed!HandleRows, HandleRows

LEMMA FedExpiries ==
  ASSUME NEW s, NEW due
  PROVE  Fed!FireExpiries(s, due) = FireExpiries(s, due)
<1>1. \A set : Fed!InOrder(set, Fed!Earlier) = InOrder(set, Earlier)
  BY Zenon DEF Fed!InOrder, InOrder, Fed!Earlier, Earlier, Fed!Cardinality, Cardinality
<1>2. \A set, t : Fed!DueTimers(set, t) = DueTimers(set, t)
  BY <1>1, Zenon DEF Fed!DueTimers, DueTimers
<1>3. \A start, q : Fed!FoldLeft(Fed!FireExpiry, start, q) = FoldLeft(FireExpiry, start, q)
  BY Zenon DEF Fed!FireExpiry, FireExpiry, Fed!ExpireTimer, ExpireTimer, Fed!NoStatistics, NoStatistics,
     Fed!NoTimer, NoTimer, Fed!FoldLeft, FoldLeft, Fed!MapThenFoldSet, MapThenFoldSet, Fed!Max, Max
<1> QED BY <1>2, <1>3, Zenon DEF Fed!FireExpiries, FireExpiries

LEMMA FedBatch ==
  ASSUME NEW state, NEW rows, NEW late, NEW due
  PROVE  Fed!StatisticsBatch(state, rows, late, due) = StatisticsBatch(state, rows, late, due)
<1>1. Fed!OnTime(rows, late) = OnTime(rows, late)
  BY DEF Fed!OnTime, OnTime
<1> QED
  BY <1>1, FedRows, FedExpiries, Zenon DEF Fed!StatisticsBatch, StatisticsBatch

OrderedSources(Rows) == {s \in Seq(Versions(Rows)) : InPartitionOrder(s)}

LEMMA FedStatistics ==
  ASSUME NEW Rows, NEW Sources, ChainOf(Rows, Sources)
  PROVE  Fed!StatisticsOf(Rows, OrderedSources(Rows))
<1>1. SourceOf(Rows) /\ Timed(Rows) /\ Logged(PairRows(Rows))
  BY DEF ChainOf, KeyedSource
<1>2. Fed!KeyedSource(Rows, OrderedSources(Rows))
  <2>1. <<>> \in OrderedSources(Rows)
    BY DEF OrderedSources, InPartitionOrder
  <2>2. Fed!SourceOf(Rows)
    BY <1>1, FedSource
  <2> QED BY <1>1, <2>1, <2>2 DEF Fed!KeyedSource, Fed!Timed, Timed, NoRows
<1>3. Fed!Logged(Fed!PairRows(Rows))
  BY <1>1 DEF Fed!Logged, Logged, Fed!PairRows, PairRows
<1>4. \A s \in OrderedSources(Rows) : Fed!InPartitionOrder(s)
  BY DEF OrderedSources, Fed!InPartitionOrder, InPartitionOrder
<1>5. \A k \in CustomerCurrencies : StatisticsInitial[k] = Fed!NoStatistics
  BY DEF StatisticsInitial, Fed!NoStatistics, NoStatistics, Fed!NoTimer, NoTimer
<1>6. \A state, rows, late, due : Fed!StatisticsBatch(state, rows, late, due) = StatisticsBatch(state, rows, late, due)
  BY FedBatch
<1> QED
  BY <1>2, <1>3, <1>4, <1>5, <1>6, Zenon DEF Fed!StatisticsOf

-----------------------------------------------------------------------------
(* The theorem. *)

\* What FedInOrder and FedOncePerEvent say, in the terms of the instance.
LEMMA FedInvariant ==
  ASSUME NEW Rows, NEW Sources, ChainOf(Rows, Sources), ChainInv(Rows, Sources)
  PROVE  /\ Fed!KeyedInv(Rows, OrderedSources(Rows))
         /\ Fed!ComesOnce(Deduplicated) /\ Fed!InOnePartition(Deduplicated)
         /\ Fed!OutputsOfPairs
<1>1. KeyedInv(Rows, Sources) /\ Fed!EngineInv(Rows)
  BY DEF ChainInv
<1>2. Deduplicated \in Seq(Versions(Rows))
  BY <1>1, FedVersions DEF Fed!EngineInv, Fed!IInv
<1>3. Fed!KeyedInv(Rows, OrderedSources(Rows))
  BY <1>1, <1>2, FedInOrder DEF OrderedSources, Fed!KeyedInv
<1>4. Fed!ComesOnce(Deduplicated) /\ Fed!InOnePartition(Deduplicated)
  BY <1>1, FedOncePerEvent DEF ComesOnce, Fed!ComesOnce, InOnePartition, Fed!InOnePartition
<1>5. Fed!OutputsOfPairs
  <2>1. \A state, rows, late, due : StatisticsBatch(state, rows, late, due) \subseteq Fed!StatisticsBatch(state, rows, late, due)
    BY FedBatch
  <2> QED
    BY <1>3, <2>1, FedStatistics, Fed!OnlyPairs, BoundsAssumption, EventTimeAssumption, ActivityAssumption,
       WindowsAssumption, InactivityAssumption
<1> QED BY <1>3, <1>4, <1>5

LEMMA LogOrder ==
  ASSUME NEW Rows, NEW Sources, ChainOf(Rows, Sources), ChainInv(Rows, Sources)
  PROVE  LogOrderHolds
<1>1. SUFFICES ASSUME NEW b \in 1..Len(sOffsets), NEW r \in Stats!Results(b) PROVE r.ok
  BY DEF LogOrderHolds
<1>2. r \in Fed!Results(b)
  BY Zenon DEF Stats!Results, Fed!Results, Stats!StateBefore, Fed!StateBefore, Stats!Input, Fed!Input,
         Stats!Position, Fed!Position, Stats!Watermark, Fed!Watermark
<1> QED
  BY <1>2, FedInvariant, FedStatistics, Fed!NeverRefused, BoundsAssumption, EventTimeAssumption, ActivityAssumption,
     WindowsAssumption, InactivityAssumption

LEMMA CountOnce ==
  ASSUME NEW Rows, NEW Sources, ChainOf(Rows, Sources), ChainInv(Rows, Sources)
  PROVE  EventsCountOnce
<1>1. \A i \in 1..Len(sTable) : \A f \in sTable[i].rows :
        /\ \A e, h \in f.prior \cup {f.event} : e.id = h.id => e = h
        /\ \A j \in 1..Len(sTable) : \A g \in sTable[j].rows : f.event.id = g.event.id => f = g
  BY FedInvariant, FedStatistics, Fed!CountedOnce, BoundsAssumption, EventTimeAssumption, ActivityAssumption,
     WindowsAssumption, InactivityAssumption
<1> QED BY <1>1 DEF EventsCountOnce

\* CustomerAmountStatisticsProcessor: the statistics refuse no batch and count
\* each event once, whatever copies Kafka delivers, which of them is kept, and
\* however either application is killed and run again or the statistics reset.
THEOREM FedOnceInOrderHolds ==
  ASSUME NEW Rows, NEW Sources, ChainOf(Rows, Sources)
  PROVE  ChainSpec => []FedOnceInOrder
<1>1. ChainInv(Rows, Sources) => FedOnceInOrder
  BY LogOrder, CountOnce DEF FedOnceInOrder
<1> QED BY <1>1, ChainInvariant, PTL

\* Deduplication keeps its promise while the statistics read its table.
THEOREM ChainKeepsEachEvent ==
  ASSUME NEW Rows, NEW Sources, ChainOf(Rows, Sources)
  PROVE  ChainSpec => []EachEventOnce
<1>1. ChainInv(Rows, Sources) => EachEventOnce
  <2>1. SUFFICES ASSUME ChainInv(Rows, Sources) PROVE EachEventOnce
    OBVIOUS
  <2>2. DeduplicationOf(Rows) /\ EngineInv(Rows)
    BY <2>1 DEF ChainOf, ChainInv, KeyedInv
  <2>3. DedupInv(Rows)
    BY <2>2, MemoryHolds DEF DedupInv
  <2> QED BY <2>2, <2>3, InvOneRow, InvNoneLost DEF EachEventOnce
<1> QED BY <1>1, ChainInvariant, PTL

\* The baselines of the chain are those BaselinesSound describes: what it
\* assumes of a source holds of the table that deduplication writes.
THEOREM ChainBaselinesSound ==
  ASSUME NEW Rows, NEW Sources, ChainOf(Rows, Sources)
  PROVE  ChainSpec => []Fed!BaselinesSound
<1>1. ChainInv(Rows, Sources) => Fed!BaselinesSound
  BY FedInvariant, FedStatistics, Fed!SoundBaselines, BoundsAssumption, EventTimeAssumption, ActivityAssumption,
     WindowsAssumption, InactivityAssumption
<1> QED BY <1>1, ChainInvariant, PTL
=============================================================================
