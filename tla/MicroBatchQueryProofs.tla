------------------------ MODULE MicroBatchQueryProofs ------------------------
(***************************************************************************)
(* Proofs about MicroBatchQuery, for every operator Process: whatever the  *)
(* application computes and however often it is killed, the table holds    *)
(* what its logged batches output, each once and none missing.             *)
(*                                                                         *)
(* From that, and for deduplication as the operator: an event has one row  *)
(* in the table, and no event is lost but by being late.                   *)
(*                                                                         *)
(* And for the operators that keep a state for each key, each by what a    *)
(* key's state has to do with the key's rows after every batch: each       *)
(* accepted event is in one lifecycle of its customer; each has a row with *)
(* the features of its customer's full history; each has a baseline of the *)
(* earlier events of its pair, as long as the pair was active.             *)
(***************************************************************************)
EXTENDS DeduplicationQuery, CustomerActivityQuery, RollingFeatureQuery, AmountStatisticsQuery,
        FoldFacts

\* What is assumed of the source: its versions are finite sets of rows, from
\* which a watermark can be computed.
Versions(Rows) == {rows \in SUBSET Rows : IsFiniteSet(rows)}
SourceOf(Rows) ==
  /\ \A s \in Seq(Versions(Rows)) : Upstream(s) \subseteq Versions(Rows)
  /\ \A rows \in Versions(Rows) : WatermarkOf(rows) \in Nat

IsSequence(s) == \E T : s \in Seq(T)

\* Batch b outputs nothing; the table has the rows of batch b.
Silent(b) == \E r \in Results(b) : r.ok /\ r.out = {}
InTable(b) == \E i \in 1..Len(table) : table[i].txn = b

OffsetsInSource == \A b \in 1..Len(offsets) : offsets[b].to <= Len(source)

\* What the batch at hand has done so far.
BatchComputed ==
  /\ stage \in {"computed", "written"} => DOMAIN states = 1..Len(offsets)
  /\ stage = "computed" => \E r \in Results(Len(offsets)) : r.ok /\ r.out = frame
BatchWritten == stage = "written" => Silent(Len(offsets)) \/ InTable(Len(offsets))

CommittedWritten == ~torn => \A b \in 1..Committed : Silent(b) \/ InTable(b)

IInv(Rows) ==
  /\ TypeOK
  /\ source \in Seq(Versions(Rows)) /\ IsSequence(table)
  /\ OffsetsInSource
  /\ TableSound
  /\ BatchComputed /\ BatchWritten /\ CommittedWritten
  /\ resetting => table = <<>>

-----------------------------------------------------------------------------
(* Sequences, and what a batch depends on. *)

LEMMA EmptyIsSequence == IsSequence(<<>>)
<1>1. <<>> \in Seq({})
  OBVIOUS
<1> QED BY <1>1 DEF IsSequence

LEMMA AppendToSequence ==
  ASSUME NEW s, IsSequence(s), NEW e
  PROVE  /\ IsSequence(Append(s, e))
         /\ Len(s) \in Nat /\ Len(Append(s, e)) = Len(s) + 1
         /\ \A i \in 1..Len(s) : Append(s, e)[i] = s[i]
         /\ Append(s, e)[Len(s) + 1] = e
<1>1. PICK T : s \in Seq(T)
  BY DEF IsSequence
<1>2. s \in Seq(T \cup {e})
  BY <1>1, SMT
<1>3. Append(s, e) \in Seq(T \cup {e})
  BY <1>2
<1> QED BY <1>2, <1>3 DEF IsSequence

LEMMA LogTypes ==
  ASSUME TypeOK
  PROVE  /\ Len(offsets) \in Nat /\ Committed \in Nat
         /\ \A b \in 1..Len(offsets) : offsets[b].to \in Nat /\ offsets[b].watermark \in Nat
         /\ \A b \in 1..Committed : commits[b] \in Nat
         /\ NextWatermark \in Nat
<1>1. offsets \in Seq([to : Nat, watermark : Nat]) /\ commits \in Seq(Nat)
  BY DEF TypeOK
<1>2. Len(offsets) \in Nat /\ Len(commits) \in Nat
  BY <1>1
<1>3. \A b \in 1..Len(offsets) : offsets[b] \in [to : Nat, watermark : Nat]
  BY <1>1, ElementOfSeq, Zenon
<1>4. \A b \in 1..Len(commits) : commits[b] \in Nat
  BY <1>1
<1>5. NextWatermark \in Nat
  BY <1>1, <1>2, <1>4 DEF NextWatermark, Committed
<1> QED BY <1>2, <1>3, <1>4, <1>5 DEF Committed

LEMMA PositionType ==
  ASSUME TypeOK, NEW b \in 0..Len(offsets)
  PROVE  Position(b) \in Nat /\ Watermark(b) \in Nat
<1>1. CASE b = 0
  BY <1>1 DEF Position, Watermark
<1>2. CASE b # 0
  <2>1. b \in 1..Len(offsets)
    BY <1>2, LogTypes
  <2> QED BY <1>2, <2>1, LogTypes DEF Position, Watermark
<1> QED BY <1>1, <1>2

\* The results of a logged batch stay what they are as long as its end and
\* the end before it are kept, the state before it is, and the source grows.
LEMMA ResultsStable ==
  ASSUME TypeOK, NEW b \in 1..Len(offsets),
         \A a \in 1..b : offsets'[a] = offsets[a],
         b # 1 => states'[b - 1] = states[b - 1],
         \A v \in 1..Position(b) : source'[v] = source[v]
  PROVE  Results(b)' = Results(b)
<1>0. Len(offsets) \in Nat /\ b \in Nat \ {0} /\ b - 1 \in 0..Len(offsets)
      /\ b \in 0..Len(offsets) /\ (b # 1 => b - 1 \in 1..b)
  BY LogTypes
<1>1. Position(b) \in Nat /\ Position(b - 1) \in Nat
  BY <1>0, PositionType
<1>2. \A a \in 0..b : Position(a)' = Position(a) /\ Watermark(a)' = Watermark(a)
  <2>1. SUFFICES ASSUME NEW a \in 0..b
                 PROVE  Position(a)' = Position(a) /\ Watermark(a)' = Watermark(a)
    BY Zenon
  <2>2. CASE a = 0
    BY <2>2 DEF Position, Watermark
  <2>3. CASE a # 0
    <3>1. offsets'[a] = offsets[a]
      BY <2>3, <1>0
    <3> QED BY <2>3, <3>1, Zenon DEF Position, Watermark
  <2> QED BY <2>2, <2>3
<1>3. /\ Position(b)' = Position(b) /\ Watermark(b)' = Watermark(b)
      /\ Position(b - 1)' = Position(b - 1) /\ Watermark(b - 1)' = Watermark(b - 1)
  <2>1. b \in 0..b /\ b - 1 \in 0..b
    BY <1>0
  <2> QED BY <1>2, <2>1
<1>4. Input(b)' = Input(b)
  <2>1. \A v \in (Position(b - 1) + 1)..Position(b) : source'[v] = source[v]
    BY <1>1
  <2>2. {source'[v] : v \in (Position(b - 1) + 1)..Position(b)}
        = {source[v] : v \in (Position(b - 1) + 1)..Position(b)}
    BY <2>1, Zenon
  <2> QED BY <1>3, <2>2, Zenon DEF Input
<1>5. StateBefore(b)' = StateBefore(b)
  BY Zenon DEF StateBefore
<1> QED BY <1>3, <1>4, <1>5, Zenon DEF Results

-----------------------------------------------------------------------------
(* What a step that keeps the logged batches preserves. *)

ResultsKept == \A b \in 1..Len(offsets) : Results(b)' = Results(b)

LEMMA SoundKept ==
  ASSUME NEW Rows, IInv(Rows), ResultsKept, UNCHANGED table,
         Len(offsets') \in Nat, Len(offsets) <= Len(offsets')
  PROVE  TableSound'
<1>1. Len(offsets) \in Nat
  BY LogTypes DEF IInv
<1>2. SUFFICES ASSUME NEW i \in 1..Len(table)
               PROVE  /\ table[i].txn \in 1..Len(offsets')
                      /\ \A j \in 1..(i - 1) : table[j].txn < table[i].txn
                      /\ \E r \in Results(table[i].txn)' : r.ok /\ r.out = table[i].rows
  BY Zenon DEF TableSound
<1>3. /\ table[i].txn \in 1..Len(offsets)
      /\ \A j \in 1..(i - 1) : table[j].txn < table[i].txn
      /\ \E r \in Results(table[i].txn) : r.ok /\ r.out = table[i].rows
  BY Zenon DEF IInv, TableSound
<1>4. Results(table[i].txn)' = Results(table[i].txn)
  BY <1>3, Zenon DEF ResultsKept
<1>5. table[i].txn \in 1..Len(offsets')
  BY <1>1, <1>3
<1> QED BY <1>3, <1>4, <1>5, Zenon

LEMMA CommittedKept ==
  ASSUME NEW Rows, IInv(Rows), ResultsKept, UNCHANGED <<table, commits>>,
         torn' = torn
  PROVE  CommittedWritten'
<1>1. Committed <= Len(offsets) /\ Committed \in Nat /\ Len(offsets) \in Nat
  <2>1. Len(offsets) \in {Committed, Committed + 1}
    BY DEF IInv, TypeOK
  <2> QED BY <2>1, LogTypes DEF IInv
<1>2. SUFFICES ASSUME ~torn, NEW b \in 1..Committed
               PROVE  Silent(b)' \/ InTable(b)
  BY Zenon DEF CommittedWritten, Committed, InTable
<1>3. Silent(b) \/ InTable(b)
  BY <1>2, Zenon DEF IInv, CommittedWritten
<1>4. b \in 1..Len(offsets)
  BY <1>1
<1> QED BY <1>3, <1>4, Zenon DEF ResultsKept, Silent

LEMMA LogKept ==
  ASSUME NEW Rows, IInv(Rows), UNCHANGED <<source, offsets, states>>
  PROVE  ResultsKept
BY ResultsStable, Zenon DEF IInv, ResultsKept

\* A step that keeps the checkpoint and the table, and lets the batch at hand
\* be or abandons it.
LEMMA QuietStep ==
  ASSUME NEW Rows, IInv(Rows), TypeOK', ResultsKept, UNCHANGED <<log, table>>,
         source' \in Seq(Versions(Rows)), OffsetsInSource',
         torn' = torn,
         stage' \in {"computed", "written"} => stage' = stage,
         stage' = "computed" => frame' = frame,
         resetting' => resetting
  PROVE  IInv(Rows)'
<1>1. TableSound'
  BY SoundKept, LogTypes DEF log, IInv
<1>2. CommittedWritten'
  BY CommittedKept DEF log
<1>3. stage' \in {"computed", "written"} => Len(offsets) \in 1..Len(offsets)
  BY LogTypes DEF IInv, TypeOK
<1>4. BatchComputed'
  <2>1. SUFFICES ASSUME stage' = "computed"
                 PROVE  \E r \in Results(Len(offsets))' : r.ok /\ r.out = frame'
    BY Zenon DEF log, BatchComputed, IInv
  <2>2. \E r \in Results(Len(offsets)) : r.ok /\ r.out = frame
    BY <2>1, Zenon DEF IInv, BatchComputed
  <2> QED BY <1>3, <2>1, <2>2, Zenon DEF ResultsKept, log
<1>5. BatchWritten'
  <2>1. SUFFICES ASSUME stage' = "written"
                 PROVE  Silent(Len(offsets))' \/ InTable(Len(offsets))'
    BY Zenon DEF log, BatchWritten
  <2>2. Silent(Len(offsets)) \/ InTable(Len(offsets))
    BY <2>1, Zenon DEF IInv, BatchWritten
  <2> QED BY <1>3, <2>1, <2>2, Zenon DEF ResultsKept, Silent, InTable, log
<1> QED BY <1>1, <1>2, <1>4, <1>5 DEF IInv, log

-----------------------------------------------------------------------------
(* Each action keeps the types and the positions of the logs. *)

\* The source gains a version v and nothing else changes.
Supplied(v) ==
  /\ source' = Append(source, v)
  /\ UNCHANGED <<log, table, stage, target, frame, resetting, torn, resets, failures>>

LEMMA ArriveSupplies ==
  ASSUME NEW Rows, SourceOf(Rows), IInv(Rows), Arrive
  PROVE  \E v \in Versions(Rows) : Supplied(v)
<1>1. PICK v \in Upstream(source) : source' = Append(source, v)
  BY DEF Arrive
<1>2. v \in Versions(Rows)
  BY <1>1 DEF SourceOf, IInv
<1> QED BY <1>1, <1>2 DEF Arrive, Supplied

LEMMA SuppliedType ==
  ASSUME NEW Rows, IInv(Rows), NEW v \in Versions(Rows), Supplied(v)
  PROVE  /\ TypeOK' /\ source' \in Seq(Versions(Rows))
         /\ Len(source') = Len(source) + 1
         /\ \A w \in 1..Len(source) : source'[w] = source[w]
<1>1. source' = Append(source, v) /\ source \in Seq(Versions(Rows))
  BY DEF Supplied, IInv
<1>2. /\ source' \in Seq(Versions(Rows)) /\ Len(source) \in Nat
      /\ Len(source') = Len(source) + 1
      /\ \A w \in 1..Len(source) : source'[w] = source[w]
  BY <1>1
<1>3. TypeOK'
  BY <1>2 DEF IInv, TypeOK, Supplied, log, Committed
<1> QED BY <1>2, <1>3

LEMMA PlanType ==
  ASSUME NEW Rows, IInv(Rows), NEW to \in Nat, PlanBatch(to)
  PROVE  /\ TypeOK' /\ Len(offsets') = Len(offsets) + 1
         /\ \A b \in 1..Len(offsets) : offsets'[b] = offsets[b]
         /\ offsets'[Len(offsets) + 1].to = to
<1> DEFINE end == [to |-> to, watermark |-> NextWatermark]
<1>1. end \in [to : Nat, watermark : Nat] /\ offsets \in Seq([to : Nat, watermark : Nat])
  BY LogTypes DEF IInv, TypeOK
<1>2. offsets' = Append(offsets, end)
  BY DEF PlanBatch
<1> HIDE DEF end
<1>3. /\ offsets' \in Seq([to : Nat, watermark : Nat]) /\ Len(offsets) \in Nat
      /\ Len(offsets') = Len(offsets) + 1
      /\ \A b \in 1..Len(offsets) : offsets'[b] = offsets[b]
      /\ offsets'[Len(offsets) + 1] = end
  BY <1>1, <1>2
<1>4. TypeOK'
  BY <1>3 DEF IInv, TypeOK, PlanBatch, Committed, Stages
<1> QED BY <1>3, <1>4 DEF end

LEMMA ComputeType ==
  ASSUME NEW Rows, IInv(Rows), Compute
  PROVE  TypeOK'
BY LogTypes DEF IInv, TypeOK, Compute, Committed, Stages

\* A batch takes finitely many rows.
LEMMA InputInRows ==
  ASSUME NEW Rows, IInv(Rows), NEW b \in 1..Len(offsets)
  PROVE  Input(b) \in Versions(Rows)
<1>1. /\ b \in 0..Len(offsets) /\ b - 1 \in 0..Len(offsets) /\ b # 0
  BY LogTypes DEF IInv
<1>2. Position(b) = offsets[b].to /\ Position(b - 1) \in Nat /\ Position(b) \in Nat
  BY <1>1, PositionType DEF IInv, Position
<1>3. Position(b) <= Len(source) /\ Len(source) \in Nat
  BY <1>2 DEF IInv, OffsetsInSource
<1>4. \A v \in 1..Len(source) : source[v] \in Versions(Rows)
  BY ElementOfSeq, Zenon DEF IInv
<1> DEFINE taken == (Position(b - 1) + 1)..Position(b)
           version == [v \in taken |-> source[v]]
<1>5. \A v \in taken : version[v] \in Versions(Rows)
  BY <1>2, <1>3, <1>4
<1>6. IsFiniteSet(taken)
  <2>1. Position(b - 1) + 1 \in Int /\ Position(b) \in Int
    BY <1>2
  <2> QED BY <2>1, FS_Interval
<1>7. Input(b) = UNION {version[v] : v \in taken}
  BY DEF Input
<1>8. IsFiniteSet({version[v] : v \in taken})
  BY <1>6, ImageFinite
<1> HIDE DEF taken, version
<1>9. \A rows \in {version[v] : v \in taken} : rows \subseteq Rows /\ IsFiniteSet(rows)
  BY <1>5 DEF Versions
<1>10. IsFiniteSet(Input(b))
  BY <1>7, <1>8, <1>9, FS_UNION
<1>11. Input(b) \subseteq Rows
  BY <1>7, <1>9
<1> QED BY <1>10, <1>11 DEF Versions

LEMMA CommitType ==
  ASSUME NEW Rows, SourceOf(Rows), IInv(Rows), CommitBatch
  PROVE  TypeOK' /\ Len(commits') = Committed + 1 /\ Committed + 1 = Len(offsets)
<1> DEFINE b == Len(offsets)
           w == Larger(Watermark(b), WatermarkOf(Input(b)))
<1>1. b = Committed + 1 /\ b \in 1..Len(offsets) /\ b \in Nat /\ Committed \in Nat
      /\ b - 1 \in 0..Len(offsets) /\ b \in 0..Len(offsets)
  BY LogTypes DEF IInv, TypeOK, CommitBatch
<1>2. Input(b) \in Versions(Rows)
  BY <1>1, InputInRows
<1>3. w \in Nat
  BY <1>1, <1>2, PositionType DEF SourceOf, Larger, IInv
<1>4. commits' = Append(commits, w) /\ commits \in Seq(Nat)
  BY DEF CommitBatch, IInv, TypeOK
<1> HIDE DEF w
<1>5. commits' \in Seq(Nat) /\ Len(commits') = Committed + 1
  BY <1>3, <1>4 DEF Committed
<1>6. DOMAIN states = 1..Len(offsets)
  BY DEF IInv, BatchComputed, CommitBatch
<1>7. TypeOK'
  BY <1>1, <1>5, <1>6 DEF IInv, TypeOK, CommitBatch, Committed, Stages
<1> QED BY <1>1, <1>5, <1>7

LEMMA OtherTypes ==
  ASSUME NEW Rows, IInv(Rows)
  PROVE  /\ Start => TypeOK'
         /\ WriteBatch => TypeOK'
         /\ Finish => TypeOK'
         /\ Crash => TypeOK'
         /\ RemoveTable => TypeOK'
         /\ RemoveCheckpoint => TypeOK'
         /\ KillReset => TypeOK'
<1> USE DEF IInv, TypeOK, Committed, Stages, log
<1>0. Len(source) \in Nat
  OBVIOUS
<1>1. Start => TypeOK'
  BY <1>0, LogTypes DEF Start
<1>2. WriteBatch => TypeOK'
  BY DEF WriteBatch
<1>3. Finish => TypeOK'
  BY DEF Finish
<1>4. Crash => TypeOK'
  BY BoundsAssumption DEF Crash, BoundsAssumption
<1>5. RemoveTable => TypeOK'
  BY BoundsAssumption DEF RemoveTable, BoundsAssumption
<1>6. ASSUME RemoveCheckpoint PROVE TypeOK'
  <2>1. /\ offsets' = <<>> /\ commits' = <<>> /\ states' = <<>>
        /\ resetting' = FALSE /\ torn' = FALSE
        /\ UNCHANGED <<source, stage, target, resets, failures>>
    BY <1>6 DEF RemoveCheckpoint
  <2>2. stage = "stopped"
    BY <1>6 DEF RemoveCheckpoint
  <2>3. /\ offsets' \in Seq([to : Nat, watermark : Nat]) /\ commits' \in Seq(Nat)
        /\ Len(offsets') = 0 /\ Len(commits') = 0 /\ DOMAIN states' = 1..0
    BY <2>1
  <2> QED BY <2>1, <2>2, <2>3
<1>7. ASSUME KillReset PROVE TypeOK'
  <2>1. /\ resetting' = FALSE /\ failures' = failures + 1 /\ failures < MaxFailures
        /\ UNCHANGED <<source, offsets, commits, states, stage, target, torn, resets>>
    BY <1>7 DEF KillReset
  <2>2. stage = "stopped"
    BY <1>7 DEF KillReset
  <2>3. failures' \in 0..MaxFailures
    BY <2>1, BoundsAssumption DEF BoundsAssumption
  <2> QED BY <2>1, <2>2, <2>3
<1> QED BY <1>1, <1>2, <1>3, <1>4, <1>5, <1>6, <1>7

-----------------------------------------------------------------------------
(* Each action preserves the invariant. *)

LEMMA InitInv == ASSUME NEW Rows, Init PROVE IInv(Rows)
<1>1. TypeOK
  <2>1. /\ offsets \in Seq([to : Nat, watermark : Nat]) /\ commits \in Seq(Nat)
        /\ Len(offsets) = 0 /\ Len(commits) = 0 /\ Len(source) = 0
        /\ DOMAIN states = 1..0
    BY DEF Init
  <2>2. /\ stage = "stopped" /\ target = 0 /\ resets \in 0..MaxResets
        /\ failures \in 0..MaxFailures /\ resetting = FALSE /\ torn = FALSE
    BY BoundsAssumption DEF Init, BoundsAssumption
  <2>3. DOMAIN states = 1..Committed /\ Len(offsets) = Committed /\ target \in 0..Len(source)
    BY <2>1, <2>2 DEF Committed
  <2>4. stage \in Stages /\ resetting \in BOOLEAN /\ torn \in BOOLEAN /\ ~resetting
    BY <2>2 DEF Stages
  <2> QED BY <2>1, <2>2, <2>3, <2>4, Zenon DEF TypeOK
<1>2. TableSound /\ OffsetsInSource /\ BatchComputed /\ BatchWritten /\ CommittedWritten
  BY DEF Init, TableSound, OffsetsInSource, BatchComputed, BatchWritten, CommittedWritten,
         Committed
<1>3. source \in Seq(Versions(Rows)) /\ IsSequence(table)
  BY EmptyIsSequence DEF Init
<1> QED BY <1>1, <1>2, <1>3 DEF Init, IInv

LEMMA SuppliedInv ==
  ASSUME NEW Rows, IInv(Rows), NEW v \in Versions(Rows), Supplied(v)
  PROVE  IInv(Rows)'
<1>1. /\ TypeOK' /\ source' \in Seq(Versions(Rows))
      /\ Len(source') = Len(source) + 1
      /\ \A w \in 1..Len(source) : source'[w] = source[w]
  BY SuppliedType
<1>2. Len(source) \in Nat
  BY DEF IInv
<1>3. ResultsKept
  <2>1. SUFFICES ASSUME NEW b \in 1..Len(offsets)
                 PROVE  Results(b)' = Results(b)
    BY Zenon DEF ResultsKept
  <2>2. Position(b) \in Nat /\ Position(b) <= Len(source)
    BY LogTypes DEF IInv, OffsetsInSource, Position
  <2>3. \A w \in 1..Position(b) : source'[w] = source[w]
    BY <1>1, <1>2, <2>2
  <2>4. offsets' = offsets /\ states' = states /\ TypeOK
    BY DEF Supplied, log, IInv
  <2> QED BY <2>3, <2>4, ResultsStable, Zenon
<1>4. OffsetsInSource'
  <2>1. \A b \in 1..Len(offsets) : offsets[b].to \in Nat /\ offsets[b].to <= Len(source)
    BY LogTypes DEF IInv, OffsetsInSource
  <2> QED BY <1>1, <1>2, <2>1 DEF OffsetsInSource, Supplied, log
<1> QED BY <1>1, <1>3, <1>4, QuietStep DEF Supplied, IInv

LEMMA ArriveInv ==
  ASSUME NEW Rows, SourceOf(Rows), IInv(Rows), Arrive
  PROVE  IInv(Rows)'
BY ArriveSupplies, SuppliedInv

LEMMA PlanInv ==
  ASSUME NEW Rows, IInv(Rows), NEW to \in Nat, to <= Len(source), PlanBatch(to)
  PROVE  IInv(Rows)'
<1>1. /\ TypeOK' /\ Len(offsets') = Len(offsets) + 1
      /\ \A b \in 1..Len(offsets) : offsets'[b] = offsets[b]
      /\ offsets'[Len(offsets) + 1].to = to
  BY PlanType
<1>2. Len(offsets) \in Nat
  BY LogTypes DEF IInv
<1>3. UNCHANGED <<source, commits, states, table, torn, resetting>> /\ stage' = "planned"
  BY DEF PlanBatch
<1>4. ResultsKept
  <2>1. SUFFICES ASSUME NEW b \in 1..Len(offsets)
                 PROVE  Results(b)' = Results(b)
    BY Zenon DEF ResultsKept
  <2>2. \A a \in 1..b : offsets'[a] = offsets[a]
    BY <1>1, <1>2
  <2> QED BY <1>3, <2>2, ResultsStable, Zenon DEF IInv
<1>5. TableSound'
  BY <1>1, <1>2, <1>3, <1>4, SoundKept
<1>6. CommittedWritten'
  BY <1>3, <1>4, CommittedKept
<1>7. OffsetsInSource'
  <2>1. SUFFICES ASSUME NEW b \in 1..(Len(offsets) + 1)
                 PROVE  offsets'[b].to <= Len(source)
    BY <1>1, <1>3 DEF OffsetsInSource
  <2>2. CASE b \in 1..Len(offsets)
    BY <1>1, <2>2 DEF IInv, OffsetsInSource
  <2>3. CASE b = Len(offsets) + 1
    BY <1>1, <2>3
  <2> QED BY <1>2, <2>2, <2>3
<1>8. BatchComputed' /\ BatchWritten'
  BY <1>3 DEF BatchComputed, BatchWritten
<1> QED BY <1>1, <1>3, <1>5, <1>6, <1>7, <1>8 DEF IInv

LEMMA ComputeInv ==
  ASSUME NEW Rows, IInv(Rows), Compute
  PROVE  IInv(Rows)'
<1> DEFINE n == Len(offsets)
<1>1. TypeOK'
  BY ComputeType
<1>2. n = Committed + 1 /\ n \in 1..n /\ n \in Nat
  BY LogTypes DEF IInv, TypeOK, Compute
<1>3. /\ UNCHANGED <<source, offsets, commits, table, torn, resetting>> /\ stage = "planned"
      /\ \E r \in Results(n) :
           \/ /\ r.ok /\ stage' = "computed" /\ frame' = r.out
              /\ states' = [a \in 1..n |-> IF a = n THEN r.state ELSE states[a]]
           \/ stage' = "stopped" /\ UNCHANGED <<states, frame>>
  BY Zenon DEF Compute
<1>4. CASE stage' = "stopped" /\ UNCHANGED states
  <2>1. ResultsKept
    BY <1>3, <1>4, LogKept
  <2> QED BY <1>1, <1>3, <1>4, <2>1, QuietStep DEF log, IInv, OffsetsInSource
<1>5. ASSUME NEW r \in Results(n), r.ok, stage' = "computed", frame' = r.out,
             states' = [a \in 1..n |-> IF a = n THEN r.state ELSE states[a]]
      PROVE  IInv(Rows)'
  <2>1. ResultsKept
    <3>1. SUFFICES ASSUME NEW b \in 1..n
                   PROVE  Results(b)' = Results(b)
      BY Zenon DEF ResultsKept
    <3>2. b # 1 => states'[b - 1] = states[b - 1]
      <4>1. b # 1 => b - 1 \in 1..n /\ b - 1 # n
        BY <1>2
      <4> QED BY <1>5, <4>1, Zenon
    <3> QED BY <1>3, <3>2, ResultsStable, Zenon DEF IInv
  <2>2. TableSound'
    BY <1>2, <1>3, <2>1, SoundKept
  <2>3. CommittedWritten'
    BY <1>3, <2>1, CommittedKept
  <2>4. BatchComputed'
    <3>1. Results(n)' = Results(n)
      BY <1>2, <1>3, <2>1, Zenon DEF ResultsKept
    <3>2. DOMAIN states' = 1..n
      BY <1>5
    <3> QED BY <1>3, <1>5, <3>1, <3>2, Zenon DEF BatchComputed
  <2>5. BatchWritten'
    BY <1>5 DEF BatchWritten
  <2> QED BY <1>1, <1>3, <2>2, <2>3, <2>4, <2>5 DEF IInv, OffsetsInSource
<1> QED BY <1>3, <1>4, <1>5, Zenon

LEMMA WriteInv ==
  ASSUME NEW Rows, IInv(Rows), WriteBatch
  PROVE  IInv(Rows)'
<1> DEFINE n == Len(offsets)
           version == [txn |-> n, rows |-> frame]
<1>1. TypeOK'
  BY OtherTypes
<1>2. n = Committed + 1 /\ n \in 1..n /\ n \in Nat /\ Committed \in Nat
  BY LogTypes DEF IInv, TypeOK, WriteBatch
<1>3. /\ UNCHANGED <<source, offsets, commits, states, torn, resetting>>
      /\ stage = "computed" /\ stage' = "written" /\ resetting = FALSE
  BY DEF WriteBatch, log, IInv, TypeOK
<1>4. ResultsKept
  BY <1>3, LogKept
<1>5. PICK r \in Results(n) : r.ok /\ r.out = frame
  BY <1>3, Zenon DEF IInv, BatchComputed
<1>6. Results(n)' = Results(n)
  BY <1>2, <1>3, <1>4, Zenon DEF ResultsKept
<1>7. BatchComputed' /\ OffsetsInSource'
  BY <1>3 DEF BatchComputed, OffsetsInSource, IInv
<1>8. PICK T : table \in Seq(T)
  BY DEF IInv, IsSequence
<1>9. Len(table) \in Nat
  BY <1>8
<1>10. CASE frame = {} \/ TxnOf(table) >= n
  <2>1. table' = table
    BY <1>10 DEF WriteBatch
  <2>2. TableSound' /\ CommittedWritten'
    BY <1>2, <1>3, <1>4, <2>1, SoundKept, CommittedKept
  <2>3. BatchWritten'
    <3>1. CASE frame = {}
      BY <1>3, <1>5, <1>6, <3>1, Zenon DEF BatchWritten, Silent
    <3>2. CASE TxnOf(table) >= n
      <4>1. Len(table) \in 1..Len(table) /\ TxnOf(table) = table[Len(table)].txn
        BY <1>2, <1>8, <1>9, <3>2 DEF TxnOf
      <4>2. table[Len(table)].txn \in 1..n
        BY <4>1, Zenon DEF IInv, TableSound
      <4>3. table[Len(table)].txn = n
        BY <1>2, <3>2, <4>1, <4>2
      <4>4. InTable(n)
        BY <4>1, <4>3, Zenon DEF InTable
      <4> QED BY <1>3, <2>1, <4>4, Zenon DEF BatchWritten, InTable
    <3> QED BY <1>10, <3>1, <3>2
  <2> QED BY <1>1, <1>3, <1>7, <2>1, <2>2, <2>3 DEF IInv
<1>11. CASE ~(frame = {} \/ TxnOf(table) >= n)
  <2>1. table' = Append(table, version)
    BY <1>11 DEF WriteBatch
  <2> HIDE DEF version
  <2>2. /\ IsSequence(table') /\ Len(table') = Len(table) + 1
        /\ \A i \in 1..Len(table) : table'[i] = table[i]
        /\ table'[Len(table) + 1] = version
    BY <2>1, AppendToSequence DEF IInv
  <2>3. version.txn = n /\ version.rows = frame
    BY DEF version
  <2>4. \A i \in 1..Len(table) : table[i].txn \in Nat /\ table[i].txn < n
    <3>1. SUFFICES ASSUME NEW i \in 1..Len(table)
                   PROVE  table[i].txn \in Nat /\ table[i].txn < n
      OBVIOUS
    <3>2. Len(table) \in 1..Len(table) /\ TxnOf(table) = table[Len(table)].txn
      BY <1>8, <1>9 DEF TxnOf
    <3>3. table[i].txn \in 1..n /\ table[Len(table)].txn \in 1..n
      BY <3>2, Zenon DEF IInv, TableSound
    <3>4. table[Len(table)].txn < n
      BY <1>2, <1>11, <3>2, <3>3
    <3>5. i < Len(table) => table[i].txn < table[Len(table)].txn
      <4>1. i < Len(table) => i \in 1..(Len(table) - 1)
        BY <1>9
      <4> QED BY <3>2, <4>1, Zenon DEF IInv, TableSound
    <3> QED BY <1>2, <1>9, <3>3, <3>4, <3>5
  <2>5. TableSound'
    <3>1. SUFFICES ASSUME NEW i \in 1..(Len(table) + 1)
                   PROVE  \E b \in 1..n :
                            /\ table'[i].txn = b
                            /\ \A j \in 1..(i - 1) : table'[j].txn < b
                            /\ \E q \in Results(b)' : q.ok /\ q.out = table'[i].rows
      BY <1>3, <2>2, Zenon DEF TableSound
    <3>2. CASE i \in 1..Len(table)
      <4>1. PICK b \in 1..n :
               /\ table[i].txn = b
               /\ \A j \in 1..(i - 1) : table[j].txn < b
               /\ \E q \in Results(b) : q.ok /\ q.out = table[i].rows
        BY <3>2, Zenon DEF IInv, TableSound
      <4>2. Results(b)' = Results(b)
        BY <1>4, Zenon DEF ResultsKept
      <4>3. \A j \in 1..(i - 1) : table'[j] = table[j]
        <5>1. \A j \in 1..(i - 1) : j \in 1..Len(table)
          BY <1>9, <3>2
        <5> QED BY <2>2, <5>1, Zenon
      <4>4. table'[i] = table[i]
        BY <2>2, <3>2, Zenon
      <4> QED BY <4>1, <4>2, <4>3, <4>4, Zenon
    <3>3. CASE i = Len(table) + 1
      <4>1. table'[i].txn = n /\ table'[i].rows = frame
        BY <2>2, <2>3, <3>3, Zenon
      <4>2. \A j \in 1..(i - 1) : table'[j].txn < n
        <5>1. \A j \in 1..(i - 1) : j \in 1..Len(table)
          BY <1>9, <3>3
        <5> QED BY <2>2, <2>4, <5>1, Zenon
      <4>3. PICK b \in 1..n : b = n
        BY <1>2
      <4>4. Results(b)' = Results(n)
        BY <1>3, <1>6, <4>3, Zenon
      <4> QED BY <1>5, <4>1, <4>2, <4>3, <4>4, Zenon
    <3> QED BY <1>9, <3>2, <3>3
  <2>6. InTable(n)'
    <3>1. Len(table) + 1 \in 1..Len(table')
      BY <1>9, <2>2
    <3> QED BY <1>3, <2>2, <2>3, <3>1, Zenon DEF InTable
  <2>7. BatchWritten'
    BY <1>3, <2>6, Zenon DEF BatchWritten, InTable
  <2>8. CommittedWritten'
    <3>1. SUFFICES ASSUME ~torn, NEW b \in 1..Committed
                   PROVE  Silent(b)' \/ InTable(b)'
      BY <1>3, Zenon DEF CommittedWritten, Committed
    <3>2. Silent(b) \/ InTable(b)
      BY <3>1, Zenon DEF IInv, CommittedWritten
    <3>3. b \in 1..n
      BY <1>2
    <3>4. Silent(b) => Silent(b)'
      BY <1>4, <3>3, Zenon DEF ResultsKept, Silent
    <3>5. InTable(b) => InTable(b)'
      <4>1. \A i \in 1..Len(table) : i \in 1..Len(table')
        BY <1>9, <2>2
      <4> QED BY <2>2, <4>1, Zenon DEF InTable
    <3> QED BY <3>2, <3>4, <3>5
  <2> QED BY <1>1, <1>3, <1>7, <2>2, <2>5, <2>7, <2>8 DEF IInv
<1> QED BY <1>10, <1>11

LEMMA CommitInv ==
  ASSUME NEW Rows, SourceOf(Rows), IInv(Rows), CommitBatch
  PROVE  IInv(Rows)'
<1>1. TypeOK' /\ Len(commits') = Committed + 1 /\ Committed + 1 = Len(offsets)
  BY CommitType
<1>2. /\ UNCHANGED <<source, offsets, states, table, torn, resetting>>
      /\ stage = "written" /\ stage' = "idle"
  BY DEF CommitBatch
<1>3. ResultsKept
  BY <1>2, LogKept
<1>4. Len(offsets) \in Nat /\ Committed \in Nat
  BY LogTypes DEF IInv
<1>5. TableSound'
  BY <1>2, <1>3, <1>4, SoundKept
<1>6. CommittedWritten'
  <2>1. SUFFICES ASSUME ~torn, NEW b \in 1..(Committed + 1)
                 PROVE  Silent(b)' \/ InTable(b)'
    BY <1>1, <1>2, Zenon DEF CommittedWritten, Committed
  <2>2. Silent(b) \/ InTable(b)
    <3>1. CASE b \in 1..Committed
      BY <2>1, <3>1, Zenon DEF IInv, CommittedWritten
    <3>2. CASE b = Len(offsets)
      BY <1>2, <3>2, Zenon DEF IInv, BatchWritten
    <3> QED BY <1>1, <1>4, <3>1, <3>2
  <2>3. b \in 1..Len(offsets)
    BY <1>1
  <2> QED BY <1>2, <1>3, <2>2, <2>3, Zenon DEF ResultsKept, Silent, InTable
<1> QED BY <1>1, <1>2, <1>5, <1>6 DEF IInv, OffsetsInSource, BatchComputed, BatchWritten

LEMMA RemoveTableInv ==
  ASSUME NEW Rows, IInv(Rows), RemoveTable
  PROVE  IInv(Rows)'
<1>1. TypeOK'
  BY OtherTypes
<1>2. /\ UNCHANGED <<source, offsets, commits, states>>
      /\ table' = <<>> /\ stage' = "stopped" /\ torn' = TRUE
  BY DEF RemoveTable, log
<1>3. TableSound' /\ CommittedWritten'
  BY <1>2 DEF TableSound, CommittedWritten
<1>4. BatchComputed' /\ BatchWritten'
  BY <1>2 DEF BatchComputed, BatchWritten
<1> QED BY <1>1, <1>2, <1>3, <1>4, EmptyIsSequence DEF IInv, OffsetsInSource

LEMMA RemoveCheckpointInv ==
  ASSUME NEW Rows, IInv(Rows), RemoveCheckpoint
  PROVE  IInv(Rows)'
<1>1. TypeOK'
  BY OtherTypes
<1>2. /\ UNCHANGED <<source, table>> /\ table = <<>> /\ stage' = "stopped"
      /\ offsets' = <<>> /\ commits' = <<>> /\ resetting' = FALSE
  BY DEF RemoveCheckpoint, IInv, TypeOK
<1>3. TableSound' /\ OffsetsInSource' /\ CommittedWritten'
  BY <1>2 DEF TableSound, OffsetsInSource, CommittedWritten, Committed
<1>4. BatchComputed' /\ BatchWritten'
  BY <1>2 DEF BatchComputed, BatchWritten
<1> QED BY <1>1, <1>2, <1>3, <1>4 DEF IInv

LEMMA QuietInv ==
  ASSUME NEW Rows, IInv(Rows), Start \/ Finish \/ Crash \/ KillReset \/ UNCHANGED vars
  PROVE  IInv(Rows)'
<1>1. UNCHANGED <<source, log, table>> /\ torn' = torn
  BY DEF Start, Finish, Crash, KillReset, vars
<1>2. ResultsKept
  BY <1>1, LogKept DEF log
<1>3. TypeOK'
  <2>1. UNCHANGED vars => TypeOK'
    BY DEF vars, log, IInv, TypeOK, Committed
  <2> QED BY <2>1, OtherTypes
<1>4. OffsetsInSource' /\ source' \in Seq(Versions(Rows))
  BY <1>1 DEF log, IInv, OffsetsInSource
<1>5. /\ stage' \in {"computed", "written"} => stage' = stage
      /\ stage' = "computed" => frame' = frame
      /\ resetting' => resetting
  BY DEF Start, Finish, Crash, KillReset, vars
<1> QED BY <1>1, <1>2, <1>3, <1>4, <1>5, QuietStep

LEMMA NextInv ==
  ASSUME NEW Rows, SourceOf(Rows), IInv(Rows), [Next]_vars
  PROVE  IInv(Rows)'
<1>1. Len(source) \in Nat /\ target \in 0..Len(source)
  BY DEF IInv, TypeOK
<1>2. CASE Arrive
  BY <1>2, ArriveInv
<1>3. CASE PlanData
  <2>1. Position(Committed) \in Nat
    <3>1. Committed \in 0..Len(offsets)
      BY LogTypes DEF IInv, TypeOK
    <3> QED BY <3>1, PositionType DEF IInv
  <2>2. PICK to \in (Position(Committed) + 1)..target : PlanBatch(to)
    BY <1>3 DEF PlanData
  <2>3. to \in Nat /\ to <= Len(source)
    BY <1>1, <2>1
  <2> QED BY <2>2, <2>3, PlanInv
<1>4. CASE PlanNoData
  <2>1. Committed = Len(offsets) /\ Committed \in Nat
    BY <1>4, LogTypes DEF IInv, TypeOK, PlanNoData, PlanBatch
  <2>2. Position(Committed) \in Nat /\ Position(Committed) <= Len(source)
    <3>1. Position(Committed) \in Nat
      BY <2>1, PositionType DEF IInv
    <3>2. Committed # 0 => offsets[Committed].to <= Len(source)
      BY <2>1 DEF IInv, OffsetsInSource
    <3> QED BY <1>1, <3>1, <3>2 DEF Position
  <2> QED BY <1>4, <2>2, PlanInv DEF PlanNoData
<1>5. CASE Compute
  BY <1>5, ComputeInv
<1>6. CASE WriteBatch
  BY <1>6, WriteInv
<1>7. CASE CommitBatch
  BY <1>7, CommitInv
<1>8. CASE RemoveTable
  BY <1>8, RemoveTableInv
<1>9. CASE RemoveCheckpoint
  BY <1>9, RemoveCheckpointInv
<1>10. CASE Start \/ Finish \/ Crash \/ KillReset \/ UNCHANGED vars
  BY <1>10, QuietInv
<1> QED BY <1>2, <1>3, <1>4, <1>5, <1>6, <1>7, <1>8, <1>9, <1>10 DEF Next, Run, Reset

-----------------------------------------------------------------------------
(* The theorems. *)

\* The invariant holds in every run of the application.
THEOREM InvariantHolds ==
  ASSUME NEW Rows, SourceOf(Rows)
  PROVE  Spec => []IInv(Rows)
<1>1. Init => IInv(Rows)
  BY InitInv
<1>2. IInv(Rows) /\ [Next]_vars => IInv(Rows)'
  BY NextInv
<1> QED BY <1>1, <1>2, PTL DEF Spec

\* The checkpoint's logs stay in step with the application, across kills,
\* retries and resets.
THEOREM TypeCorrect ==
  ASSUME NEW Rows, SourceOf(Rows)
  PROVE  Spec => []TypeOK
<1>1. IInv(Rows) => TypeOK
  BY DEF IInv
<1> QED BY <1>1, InvariantHolds, PTL

\* DeltaTransactionSink and its checkpoint: each version of the table is the
\* output of a batch of its own, and no batch is written twice.
THEOREM EveryVersionSound ==
  ASSUME NEW Rows, SourceOf(Rows)
  PROVE  Spec => []TableSound
<1>1. IInv(Rows) => TableSound
  BY DEF IInv
<1> QED BY <1>1, InvariantHolds, PTL

\* No committed batch is missing from the table, unless a reset was begun and
\* not completed.
THEOREM NoBatchLost ==
  ASSUME NEW Rows, SourceOf(Rows)
  PROVE  Spec => []TableComplete
<1>1. IInv(Rows) => TableComplete
  BY DEF IInv, TableComplete, CommittedWritten, Silent, InTable
<1> QED BY <1>1, InvariantHolds, PTL

-----------------------------------------------------------------------------
(* What the logged batches have to do with each other: ends and watermarks *)
(* never go back, and each state comes of the batch that left it.          *)

LogGrows ==
  /\ \A b \in 1..Len(offsets) : Position(b - 1) <= Position(b) /\ Watermark(b - 1) <= Watermark(b)
  /\ \A b \in 1..Committed : Watermark(b) <= commits[b]

Traced ==
  /\ IsSequence(states)
  /\ \A b \in DOMAIN states : \E r \in Results(b) : r.ok /\ r.state = states[b]

EngineInv(Rows) == IInv(Rows) /\ LogGrows /\ Traced

\* The log of batches and the source are only added to.
LogExtended ==
  /\ Len(offsets) <= Len(offsets') /\ \A a \in 1..Len(offsets) : offsets'[a] = offsets[a]
  /\ \A v \in 1..Len(source) : source'[v] = source[v]

LEMMA StateOfBatch ==
  ASSUME NEW Rows, IInv(Rows), NEW b \in 1..Len(offsets), b # 1
  PROVE  /\ b - 1 \in 1..Len(offsets) /\ b - 1 \in DOMAIN states /\ StateBefore(b) = states[b - 1]
         /\ \A a \in 1..(b - 1) : a \in 1..Len(offsets)
<1>1. /\ Len(offsets) \in Nat /\ Committed \in Nat /\ Len(offsets) \in {Committed, Committed + 1}
      /\ DOMAIN states \in {1..Committed, 1..Len(offsets)}
  BY LogTypes DEF IInv, TypeOK
<1>2. b - 1 \in 1..Committed /\ b - 1 \in 1..Len(offsets) /\ \A a \in 1..(b - 1) : a \in 1..Len(offsets)
  BY <1>1
<1> QED BY <1>1, <1>2 DEF StateBefore

\* The ends, the watermark and the results of a logged batch stay.
LEMMA BatchKept ==
  ASSUME NEW Rows, IInv(Rows), LogExtended, NEW b \in 1..Len(offsets)
  PROVE  /\ Position(b)' = Position(b) /\ Position(b - 1)' = Position(b - 1)
         /\ Watermark(b)' = Watermark(b) /\ Watermark(b - 1)' = Watermark(b - 1)
         /\ (b # 1 => states'[b - 1] = states[b - 1]) => Results(b)' = Results(b)
<1>1. /\ Len(offsets) \in Nat /\ b \in 0..Len(offsets) /\ b # 0
      /\ (b - 1 # 0 => b - 1 \in 1..Len(offsets)) /\ \A a \in 1..b : a \in 1..Len(offsets)
  BY LogTypes DEF IInv
<1>2. Position(b) \in Nat /\ Position(b) = offsets[b].to
  BY <1>1, PositionType DEF IInv, Position
<1>3. Position(b) <= Len(source) /\ Len(source) \in Nat
  BY <1>2 DEF IInv, OffsetsInSource
<1>4. offsets'[b] = offsets[b] /\ (b - 1 # 0 => offsets'[b - 1] = offsets[b - 1])
  BY <1>1 DEF LogExtended
<1>5. /\ Position(b)' = Position(b) /\ Position(b - 1)' = Position(b - 1)
      /\ Watermark(b)' = Watermark(b) /\ Watermark(b - 1)' = Watermark(b - 1)
  BY <1>4, Zenon DEF Position, Watermark
<1>6. /\ \A a \in 1..b : offsets'[a] = offsets[a]
      /\ \A v \in 1..Position(b) : source'[v] = source[v]
  BY <1>1, <1>2, <1>3 DEF LogExtended
<1>7. (b # 1 => states'[b - 1] = states[b - 1]) => Results(b)' = Results(b)
  BY <1>6, ResultsStable, Zenon DEF IInv
<1> QED BY <1>5, <1>7

LEMMA StatesOfBatches ==
  ASSUME NEW Rows, IInv(Rows), NEW b \in DOMAIN states
  PROVE  b \in 1..Len(offsets) /\ b \in Nat \ {0} /\ (b # 1 => b - 1 \in DOMAIN states)
<1>1. /\ Len(offsets) \in Nat /\ Committed \in Nat /\ Len(offsets) \in {Committed, Committed + 1}
      /\ DOMAIN states \in {1..Committed, 1..Len(offsets)}
  BY LogTypes DEF IInv, TypeOK
<1> QED BY <1>1

LEMMA TracesKept ==
  ASSUME NEW Rows, EngineInv(Rows), LogExtended, NEW b \in DOMAIN states,
         states'[b] = states[b], b # 1 => states'[b - 1] = states[b - 1]
  PROVE  \E r \in Results(b)' : r.ok /\ r.state = states'[b]
<1>1. Results(b)' = Results(b)
  BY StatesOfBatches, BatchKept DEF EngineInv
<1>2. \E r \in Results(b) : r.ok /\ r.state = states[b]
  BY DEF EngineInv, Traced
<1> QED BY <1>1, <1>2, Zenon

LEMMA TracedKept ==
  ASSUME NEW Rows, EngineInv(Rows), LogExtended, states' = states
  PROVE  Traced'
<1>1. \A b \in DOMAIN states : \E r \in Results(b)' : r.ok /\ r.state = states'[b]
  BY TracesKept
<1>2. IsSequence(states')
  BY DEF EngineInv, Traced
<1> QED BY <1>1, <1>2, Zenon DEF Traced, IsSequence

LEMMA LogGrowsStill ==
  ASSUME NEW Rows, EngineInv(Rows), LogExtended, Len(offsets') = Len(offsets), commits' = commits
  PROVE  LogGrows'
<1>1. /\ Len(offsets) \in Nat /\ Committed \in Nat /\ Committed <= Len(offsets)
      /\ \A b \in 1..Committed : b \in 1..Len(offsets)
  <2>1. /\ Len(offsets) \in Nat /\ Committed \in Nat /\ Len(offsets) \in {Committed, Committed + 1}
    BY LogTypes DEF EngineInv, IInv, TypeOK
  <2> QED BY <2>1
<1>2. \A b \in 1..Len(offsets) :
        /\ Position(b)' = Position(b) /\ Position(b - 1)' = Position(b - 1)
        /\ Watermark(b)' = Watermark(b) /\ Watermark(b - 1)' = Watermark(b - 1)
  BY BatchKept DEF EngineInv
<1>3. Committed' = Committed
  BY DEF Committed
<1> QED
  BY <1>1, <1>2, <1>3, Zenon DEF EngineInv, LogGrows

\* Every step but a plan, a computation, a commit and the removal of the
\* checkpoint leaves the log; the source only grows.
LEMMA LogStep ==
  ASSUME NEW Rows, EngineInv(Rows), LogExtended, UNCHANGED log
  PROVE  LogGrows' /\ Traced'
BY LogGrowsStill, TracedKept DEF log

LEMMA SuppliedLog ==
  ASSUME NEW Rows, IInv(Rows), NEW v \in Versions(Rows), Supplied(v)
  PROVE  LogExtended /\ UNCHANGED log
<1>1. \A w \in 1..Len(source) : source'[w] = source[w]
  BY SuppliedType
<1> QED
  BY <1>1, LogTypes DEF Supplied, LogExtended, log, IInv

LEMMA SameLog ==
  ASSUME NEW Rows, IInv(Rows), UNCHANGED <<source, log>>
  PROVE  LogExtended
BY LogTypes DEF LogExtended, log, IInv

LEMMA PlanGrows ==
  ASSUME NEW Rows, EngineInv(Rows), NEW to \in Nat, PlanBatch(to), Position(Committed) <= to
  PROVE  LogGrows' /\ Traced'
<1>0. PICK n : n = Len(offsets)
  OBVIOUS
<1>1. n \in Nat /\ Committed = n
  BY <1>0, LogTypes DEF EngineInv, IInv, TypeOK, PlanBatch
<1>2. /\ Len(offsets') = n + 1 /\ \A b \in 1..n : offsets'[b] = offsets[b]
      /\ UNCHANGED <<source, commits, states>>
  BY <1>0, PlanType DEF EngineInv, PlanBatch
<1>3. offsets'[n + 1].watermark = NextWatermark /\ offsets'[n + 1].to = to
  <2> DEFINE end == [to |-> to, watermark |-> NextWatermark]
  <2>1. end \in [to : Nat, watermark : Nat] /\ offsets \in Seq([to : Nat, watermark : Nat])
    BY LogTypes DEF EngineInv, IInv, TypeOK
  <2>2. offsets' = Append(offsets, end)
    BY DEF PlanBatch
  <2>3. offsets'[n + 1] = end
    BY <1>0, <2>1, <2>2
  <2> QED BY <2>3
<1>4. LogExtended
  BY <1>0, <1>1, <1>2 DEF LogExtended
<1>5. Traced'
  BY <1>2, <1>4, TracedKept
<1>6. \A b \in 0..n : Watermark(b)' = Watermark(b) /\ Position(b)' = Position(b)
  <2>1. SUFFICES ASSUME NEW b \in 0..n PROVE Watermark(b)' = Watermark(b) /\ Position(b)' = Position(b)
    BY Zenon
  <2>2. b # 0 => offsets'[b] = offsets[b]
    BY <1>1, <1>2
  <2> QED BY <2>2, Zenon DEF Watermark, Position
<1>7. Watermark(n + 1)' = NextWatermark /\ Position(n + 1)' = to
  <2>1. n + 1 # 0
    BY <1>1
  <2> QED BY <1>3, <2>1, Zenon DEF Watermark, Position
<1>8. Watermark(n) <= NextWatermark /\ Position(n) <= to
  <2>1. CASE n = 0
    <3>1. Watermark(n) = 0 /\ NextWatermark \in Nat
      BY <2>1, LogTypes DEF Watermark, EngineInv, IInv
    <3> QED BY <1>1, <3>1
  <2>2. CASE n # 0
    <3>1. n \in 1..Committed /\ commits # <<>>
      BY <1>1, <2>2 DEF Committed
    <3>2. NextWatermark = commits[n]
      BY <1>1, <3>1 DEF NextWatermark
    <3> QED BY <1>1, <3>1, <3>2 DEF EngineInv, LogGrows
  <2> QED BY <2>1, <2>2
<1>9. LogGrows'
  <2>1. Committed' = Committed
    BY <1>2 DEF Committed
  <2>2. \A b \in 1..Committed : Watermark(b)' <= commits[b]
    <3>1. \A b \in 1..Committed : b \in 0..n
      BY <1>1
    <3> QED BY <1>6, <3>1 DEF EngineInv, LogGrows
  <2>3. ASSUME NEW b \in 1..(n + 1) PROVE Position(b - 1)' <= Position(b)' /\ Watermark(b - 1)' <= Watermark(b)'
    <3>1. CASE b = n + 1
      <4>1. b - 1 = n /\ n \in 0..n
        BY <1>1, <3>1
      <4>2. Watermark(b - 1)' = Watermark(n) /\ Position(b - 1)' = Position(n)
        BY <1>6, <4>1, Zenon
      <4>3. Watermark(b)' = NextWatermark /\ Position(b)' = to
        BY <1>7, <3>1, Zenon
      <4> QED BY <1>8, <4>2, <4>3, Zenon
    <3>2. CASE b # n + 1
      <4>1. b \in 1..n /\ b \in 0..n /\ b - 1 \in 0..n
        BY <1>1, <3>2
      <4>2. Position(b - 1) <= Position(b) /\ Watermark(b - 1) <= Watermark(b)
        BY <1>0, <4>1 DEF EngineInv, LogGrows
      <4>3. Watermark(b)' = Watermark(b) /\ Position(b)' = Position(b)
        BY <1>6, <4>1
      <4>4. Watermark(b - 1)' = Watermark(b - 1) /\ Position(b - 1)' = Position(b - 1)
        <5>1. PICK a \in 0..n : a = b - 1
          BY <4>1
        <5> QED BY <1>6, <5>1
      <4> QED BY <4>2, <4>3, <4>4
    <3> QED BY <3>1, <3>2
  <2> QED
    BY <1>0, <1>2, <2>1, <2>2, <2>3 DEF LogGrows
<1> QED
  BY <1>5, <1>9

LEMMA CommitGrows ==
  ASSUME NEW Rows, SourceOf(Rows), EngineInv(Rows), CommitBatch
  PROVE  LogGrows' /\ Traced'
<1> DEFINE n == Len(offsets)
           w == Larger(Watermark(n), WatermarkOf(Input(n)))
<1>1. UNCHANGED <<source, offsets, states>> /\ commits' = Append(commits, w)
  BY DEF CommitBatch
<1>2. n \in 1..n /\ n \in Nat /\ Committed \in Nat /\ n = Committed + 1
  BY LogTypes DEF EngineInv, IInv, TypeOK, CommitBatch
<1>3. LogExtended
  BY <1>1, <1>2 DEF LogExtended
<1>4. Traced'
  BY <1>1, <1>3, TracedKept
<1>5. w \in Nat /\ Watermark(n) <= w
  <2>1. Input(n) \in Versions(Rows)
    BY <1>2, InputInRows DEF EngineInv
  <2>2. WatermarkOf(Input(n)) \in Nat
    BY <2>1 DEF SourceOf
  <2>3. Watermark(n) \in Nat
    BY <1>2, PositionType DEF EngineInv, IInv
  <2> QED BY <2>2, <2>3 DEF Larger
<1> HIDE DEF w
<1>6. /\ Len(commits') = n /\ commits'[n] = w
      /\ \A b \in 1..Committed : commits'[b] = commits[b]
  <2>1. commits \in Seq(Nat)
    BY DEF EngineInv, IInv, TypeOK
  <2> QED BY <1>1, <1>2, <1>5, <2>1 DEF Committed
<1>7. \A b : Watermark(b)' = Watermark(b) /\ Position(b)' = Position(b)
  BY <1>1, Zenon DEF Watermark, Position
<1>8. \A b \in 1..n : b \in 1..Committed \/ b = n
  BY <1>2
<1>9. \A b \in 1..n : Watermark(b) <= commits'[b]
  BY <1>5, <1>6, <1>8 DEF EngineInv, LogGrows
<1>10. Committed' = n
  BY <1>6 DEF Committed
<1>11. LogGrows'
  BY <1>1, <1>7, <1>9, <1>10 DEF EngineInv, LogGrows
<1> QED
  BY <1>4, <1>11

LEMMA FiniteFunction ==
  ASSUME NEW n \in Nat, NEW f, f = [a \in 1..n |-> f[a]]
  PROVE  f \in Seq({f[a] : a \in 1..n})
<1>1. f \in [1..n -> {f[a] : a \in 1..n}]
  OBVIOUS
<1> QED BY <1>1, SeqDef

LEMMA ComputeGrows ==
  ASSUME NEW Rows, EngineInv(Rows), Compute
  PROVE  LogGrows' /\ Traced'
<1>0. PICK n : n = Len(offsets)
  OBVIOUS
<1>1. /\ n \in Nat \ {0} /\ n \in 1..n /\ DOMAIN states \in {1..(n - 1), 1..n}
      /\ \A a \in 1..n : a = n \/ a \in 1..(n - 1)
      /\ \A a \in 1..n : a # 1 => a - 1 \in 1..(n - 1)
  <2>1. Committed \in Nat /\ n = Committed + 1 /\ DOMAIN states \in {1..Committed, 1..n}
    BY <1>0, LogTypes DEF EngineInv, IInv, TypeOK, Compute
  <2>2. n - 1 = Committed
    BY <2>1
  <2> QED BY <2>1, <2>2
<1>2. UNCHANGED <<source, offsets, commits>>
  BY DEF Compute
<1>3. LogExtended
  BY <1>0, <1>1, <1>2 DEF LogExtended
<1>4. LogGrows'
  BY <1>2, <1>3, LogGrowsStill
<1>5. PICK r \in Results(n) :
        \/ r.ok /\ states' = [a \in 1..n |-> IF a = n THEN r.state ELSE states[a]]
        \/ states' = states
  BY <1>0, Zenon DEF Compute
<1>6. CASE states' = states
  BY <1>3, <1>4, <1>6, TracedKept
<1>7. CASE r.ok /\ states' = [a \in 1..n |-> IF a = n THEN r.state ELSE states[a]]
  <2>1. /\ DOMAIN states' = 1..n /\ states'[n] = r.state
        /\ \A a \in 1..(n - 1) : a \in DOMAIN states /\ states'[a] = states[a]
    BY <1>1, <1>7
  <2>2. ASSUME NEW b \in 1..n PROVE \E q \in Results(b)' : q.ok /\ q.state = states'[b]
    <3>1. b # 1 => states'[b - 1] = states[b - 1]
      BY <1>1, <2>1
    <3>2. CASE b = n
      <4>1. Results(b)' = Results(b)
        BY <1>0, <1>3, <3>1, BatchKept DEF EngineInv
      <4> QED BY <1>5, <1>7, <2>1, <3>2, <4>1, Zenon
    <3>3. CASE b # n
      <4>1. b \in DOMAIN states /\ states'[b] = states[b]
        BY <1>1, <2>1, <3>3
      <4> QED BY <1>3, <3>1, <4>1, TracesKept
    <3> QED BY <3>2, <3>3
  <2>3. IsSequence(states')
    <3>1. states' \in Seq({states'[a] : a \in 1..n})
      <4>1. states' = [a \in 1..n |-> states'[a]]
        BY <1>7
      <4> QED BY <1>1, <4>1, FiniteFunction
    <3> QED BY <3>1, Zenon DEF IsSequence
  <2> QED BY <1>4, <2>1, <2>2, <2>3, Zenon DEF Traced, IsSequence
<1> QED BY <1>5, <1>6, <1>7

LEMMA EmptyLog ==
  ASSUME offsets = <<>>, commits = <<>>, states = <<>>
  PROVE  LogGrows /\ Traced
<1>1. 1..Len(offsets) = {} /\ 1..Committed = {} /\ DOMAIN states = {}
  BY DEF Committed
<1> QED
  BY <1>1, EmptyIsSequence DEF LogGrows, Traced

LEMMA RemovalGrows ==
  ASSUME RemoveCheckpoint
  PROVE  LogGrows' /\ Traced'
<1>1. offsets' = <<>> /\ commits' = <<>> /\ states' = <<>>
  BY DEF RemoveCheckpoint
<1>2. 1..Len(offsets') = {} /\ 1..Len(commits') = {} /\ DOMAIN states' = {}
  BY <1>1
<1> QED
  BY <1>1, <1>2, EmptyIsSequence DEF LogGrows, Traced, Committed, IsSequence

\* The source may gain a version from anywhere.
LEMMA EngineSupplied ==
  ASSUME NEW Rows, EngineInv(Rows), NEW v \in Versions(Rows), Supplied(v)
  PROVE  EngineInv(Rows)'
BY SuppliedInv, SuppliedLog, LogStep DEF EngineInv

LEMMA EngineNext ==
  ASSUME NEW Rows, SourceOf(Rows), EngineInv(Rows), [Next]_vars
  PROVE  EngineInv(Rows)'
<1>1. IInv(Rows)'
  BY NextInv DEF EngineInv
<1>2. SUFFICES LogGrows' /\ Traced'
  BY <1>1 DEF EngineInv
<1>3. CASE Arrive
  BY <1>3, ArriveSupplies, SuppliedLog, LogStep DEF EngineInv
<1>4. CASE PlanData \/ PlanNoData
  <2>1. Committed \in 0..Len(offsets) /\ Len(source) \in Nat /\ target \in 0..Len(source)
    BY LogTypes DEF EngineInv, IInv, TypeOK
  <2>2. Position(Committed) \in Nat
    BY <2>1, PositionType DEF EngineInv, IInv
  <2>3. \E to \in Nat : PlanBatch(to) /\ Position(Committed) <= to
    <3>1. CASE PlanData
      <4>1. PICK to \in (Position(Committed) + 1)..target : PlanBatch(to)
        BY <3>1 DEF PlanData
      <4>2. to \in Nat /\ Position(Committed) <= to
        BY <2>1, <2>2
      <4> QED BY <4>1, <4>2
    <3>2. CASE PlanNoData
      BY <2>2, <3>2 DEF PlanNoData
    <3> QED BY <1>4, <3>1, <3>2
  <2> QED BY <2>3, PlanGrows
<1>5. CASE Compute
  BY <1>5, ComputeGrows
<1>6. CASE CommitBatch
  BY <1>6, CommitGrows
<1>7. CASE RemoveCheckpoint
  BY <1>7, RemovalGrows
<1>8. CASE Start \/ WriteBatch \/ Finish \/ Crash \/ RemoveTable \/ KillReset \/ UNCHANGED vars
  <2>1. UNCHANGED <<source, log>>
    BY <1>8 DEF Start, WriteBatch, Finish, Crash, RemoveTable, KillReset, vars
  <2> QED BY <2>1, SameLog, LogStep DEF EngineInv
<1> QED
  BY <1>3, <1>4, <1>5, <1>6, <1>7, <1>8 DEF Next, Run, Reset

\* Watermarks never go back, and each state of the operator is what its batch
\* computed from the state before it, across kills, retries and resets.
THEOREM EngineInvariant ==
  ASSUME NEW Rows, SourceOf(Rows)
  PROVE  Spec => []EngineInv(Rows)
<1>1. Init => EngineInv(Rows)
  BY InitInv, EmptyLog DEF EngineInv, Init
<1>2. EngineInv(Rows) /\ [Next]_vars => EngineInv(Rows)'
  BY EngineNext
<1> QED BY <1>1, <1>2, PTL DEF Spec

-----------------------------------------------------------------------------
(* Deduplication. *)

\* The application is deduplication, and copies of an event have its time.
DeduplicationOf(Rows) ==
  /\ SourceOf(Rows)
  /\ InitialState = DedupInitial
  /\ \A state, rows, late, due : Process(state, rows, late, due) = DedupBatch(state, rows, late, due)
  /\ \A r \in Rows : r.time \in Nat
  /\ \A r, q \in Rows : r.id = q.id => r.time = q.time

\* Rows of a batch that are on time, and those of them whose id is not remembered.
Accepted(b) == OnTime(Input(b), Watermark(b - 1))
Fresh(b) == {r \in Accepted(b) : r.id \notin Remembered(StateBefore(b))}

Expiry(r) == r.time + WatermarkDelay * Milli
Entry(r) == [id |-> r.id, expires |-> Expiry(r)]

\* What is remembered after a batch comes from a row an earlier batch gave.
Grounded(b) == \A m \in states[b] : \E a \in 1..b : \E e \in Fresh(a) : m = Entry(e)

\* What was accepted is remembered until the watermark has passed its expiry.
Remembers(b) ==
  \A a \in 1..b : \A e \in Accepted(a) :
    Entry(e) \in states[b] \/ Expiry(e) <= Watermark(b) * Milli

Memory == \A b \in DOMAIN states : Grounded(b) /\ Remembers(b)

DedupInv(Rows) == EngineInv(Rows) /\ Memory

-----------------------------------------------------------------------------
(* The results of a batch. *)

LEMMA DedupResults ==
  ASSUME NEW Rows, DeduplicationOf(Rows), NEW b, NEW r \in Results(b)
  PROVE  /\ r.ok
         /\ r.out \subseteq Fresh(b)
         /\ \A e \in Fresh(b) : \E f \in r.out : f.id = e.id
         /\ \A f, g \in r.out : f.id = g.id => f = g
         /\ r.state = {m \in StateBefore(b) \cup {Entry(f) : f \in r.out} :
                         m.expires > Watermark(b) * Milli}
<1> DEFINE first(w) == {w[i] : i \in DOMAIN w}
           ids == {e.id : e \in Fresh(b)}
<1>1. r \in DedupBatch(StateBefore(b), Input(b), Watermark(b - 1), Watermark(b))
  BY Zenon DEF Results, DeduplicationOf
<1>2. Fresh(b) = {e \in OnTime(Input(b), Watermark(b - 1)) : e.id \notin Remembered(StateBefore(b))}
  BY Zenon DEF Fresh, Accepted
<1>3. PICK w \in Winners(Fresh(b)) :
        r = [ok |-> TRUE,
             state |-> {m \in StateBefore(b) \cup {[id |-> f.id, expires |-> f.time + WatermarkDelay * Milli]
                                                     : f \in first(w)} :
                          m.expires > Watermark(b) * Milli},
             out |-> first(w)]
  BY <1>1, <1>2, Zenon DEF DedupBatch
<1>4. w \in [ids -> Fresh(b)] /\ \A i \in ids : w[i].id = i
  BY <1>3, Zenon DEF Winners
<1>5. r.ok /\ r.out = first(w)
  BY <1>3, Zenon
<1>6. r.state = {m \in StateBefore(b) \cup {Entry(f) : f \in r.out} : m.expires > Watermark(b) * Milli}
  BY <1>3, <1>5, Zenon DEF Entry, Expiry
<1>7. \A f \in first(w) : f \in Fresh(b) /\ f = w[f.id]
  BY <1>4
<1>8. \A e \in Fresh(b) : w[e.id] \in first(w) /\ w[e.id].id = e.id
  BY <1>4
<1> QED
  BY <1>5, <1>6, <1>7, <1>8

LEMMA AcceptedRows ==
  ASSUME NEW Rows, DeduplicationOf(Rows), IInv(Rows), NEW b \in 1..Len(offsets), NEW e \in Accepted(b)
  PROVE  /\ e \in Rows /\ e.time \in Nat /\ Watermark(b - 1) \in Nat /\ Watermark(b) \in Nat
         /\ e.time > Watermark(b - 1) * Milli
<1>1. e \in Input(b) /\ e.time > Watermark(b - 1) * Milli
  BY DEF Accepted, OnTime
<1>2. e \in Rows
  BY <1>1, InputInRows DEF Versions
<1>3. Watermark(b - 1) \in Nat /\ Watermark(b) \in Nat
  <2>1. b - 1 \in 0..Len(offsets) /\ b \in 0..Len(offsets)
    BY LogTypes DEF IInv
  <2> QED BY <2>1, PositionType DEF IInv
<1> QED BY <1>1, <1>2, <1>3 DEF DeduplicationOf

\* The watermark of a batch is at least that of any batch before it.
LEMMA ScaledLater ==
  ASSUME NEW m \in Nat, NEW n \in Nat, m <= n
  PROVE  m * Milli <= n * Milli /\ m * Milli \in Nat
BY EventTimeAssumption

LEMMA CopiesAlike ==
  ASSUME NEW Rows, DeduplicationOf(Rows), NEW r \in Rows, NEW q \in Rows, r.id = q.id
  PROVE  Entry(r) = Entry(q) /\ Expiry(r) = Expiry(q) /\ r.time = q.time
BY DEF DeduplicationOf, Entry, Expiry

-----------------------------------------------------------------------------
(* What an event's row leaves for the batches after it. *)

\* No row of an event comes after an accepted one of an earlier batch.
LEMMA NoSecondRow ==
  ASSUME NEW Rows, DeduplicationOf(Rows), DedupInv(Rows),
         NEW b \in 1..Len(offsets), NEW a \in 1..(b - 1),
         NEW e \in Accepted(a), NEW g \in Fresh(b)
  PROVE  e.id # g.id
<1> SUFFICES ASSUME e.id = g.id PROVE FALSE
  OBVIOUS
<1>1. b \in Nat /\ b # 1
  BY LogTypes DEF DedupInv, EngineInv, IInv
<1>2. /\ b - 1 \in 1..Len(offsets) /\ b - 1 \in DOMAIN states /\ StateBefore(b) = states[b - 1]
      /\ a \in 1..Len(offsets)
  BY <1>1, StateOfBatch DEF DedupInv, EngineInv
<1>3. g \in Accepted(b) /\ g.id \notin Remembered(StateBefore(b))
  BY DEF Fresh
<1>4. e \in Rows /\ g \in Rows /\ g.time \in Nat /\ e.time = g.time
      /\ g.time > Watermark(b - 1) * Milli /\ Watermark(b - 1) \in Nat
  <2>1. e \in Rows /\ g \in Rows /\ g.time \in Nat /\ g.time > Watermark(b - 1) * Milli /\ Watermark(b - 1) \in Nat
    BY <1>2, <1>3, AcceptedRows DEF DedupInv, EngineInv
  <2> QED BY <2>1, CopiesAlike
<1>5. CASE Entry(e) \in states[b - 1]
  <2>1. Entry(e).id = e.id
    BY DEF Entry
  <2> QED BY <1>2, <1>3, <1>5, <2>1 DEF Remembered
<1>6. CASE Expiry(e) <= Watermark(b - 1) * Milli
  <2>1. Expiry(e) >= e.time /\ Expiry(e) \in Nat
    <3>1. WatermarkDelay * Milli \in Nat
      BY EventTimeAssumption
    <3> QED BY <1>4, <3>1 DEF Expiry
  <2>2. Watermark(b - 1) * Milli \in Nat
    BY <1>4, ScaledLater
  <2> QED BY <1>4, <1>6, <2>1, <2>2
<1> QED
  BY <1>2, <1>5, <1>6 DEF DedupInv, Memory, Remembers

LEMMA InvOneRow ==
  ASSUME NEW Rows, DeduplicationOf(Rows), DedupInv(Rows)
  PROVE  OneRowPerEvent
<1>0. Len(offsets) \in Nat
  BY LogTypes DEF DedupInv, EngineInv, IInv
<1>1. ASSUME NEW i \in 1..Len(table)
      PROVE  /\ table[i].txn \in 1..Len(offsets)
             /\ \A f \in table[i].rows : f \in Fresh(table[i].txn)
             /\ \A f, g \in table[i].rows : f.id = g.id => f = g
             /\ \A j \in 1..(i - 1) : table[j].txn < table[i].txn
  <2>1. /\ table[i].txn \in 1..Len(offsets) /\ \A j \in 1..(i - 1) : table[j].txn < table[i].txn
        /\ \E r \in Results(table[i].txn) : r.ok /\ r.out = table[i].rows
    BY Zenon DEF DedupInv, EngineInv, IInv, TableSound
  <2>2. PICK r \in Results(table[i].txn) : r.out = table[i].rows
    BY <2>1, Zenon
  <2>3. PICK n : n = table[i].txn
    OBVIOUS
  <2>4. r.out \subseteq Fresh(n) /\ \A f, g \in r.out : f.id = g.id => f = g
    BY <2>2, <2>3, DedupResults
  <2> QED BY <2>1, <2>2, <2>3, <2>4
<1>2. ASSUME NEW i \in 1..Len(table), NEW j \in 1..Len(table), i < j,
             NEW f \in table[i].rows, NEW g \in table[j].rows
      PROVE  f.id # g.id
  <2>1. table[i].txn \in 1..(table[j].txn - 1)
    <3>1. Len(table) \in Nat
      <4>1. PICK T : table \in Seq(T)
        BY DEF DedupInv, EngineInv, IInv, IsSequence
      <4> QED BY <4>1
    <3>2. i \in 1..(j - 1)
      BY <1>2, <3>1
    <3>3. table[i].txn < table[j].txn /\ table[i].txn \in 1..Len(offsets) /\ table[j].txn \in 1..Len(offsets)
      BY <1>1, <3>2
    <3> QED BY <1>0, <3>3
  <2>2. f \in Accepted(table[i].txn)
    BY <1>1 DEF Fresh
  <2>3. PICK a, b : a = table[i].txn /\ b = table[j].txn
    OBVIOUS
  <2>4. b \in 1..Len(offsets) /\ a \in 1..(b - 1) /\ f \in Accepted(a) /\ g \in Fresh(b)
    BY <1>1, <2>1, <2>2, <2>3
  <2> QED BY <2>4, NoSecondRow
<1>3. \A i, j \in 1..Len(table) : i = j \/ i < j \/ j < i
  <2>1. PICK T : table \in Seq(T)
    BY DEF DedupInv, EngineInv, IInv, IsSequence
  <2>2. Len(table) \in Nat
    BY <2>1
  <2> QED BY <2>2
<1>4. ASSUME NEW f \in Written, NEW g \in Written, f.id = g.id PROVE f = g
  <2>1. PICK i \in 1..Len(table) : f \in table[i].rows
    BY DEF Written
  <2>2. PICK j \in 1..Len(table) : g \in table[j].rows
    BY DEF Written
  <2>3. i = j
    BY <1>2, <1>3, <1>4, <2>1, <2>2
  <2> QED BY <1>1, <1>4, <2>1, <2>2, <2>3
<1>5. ASSUME NEW i \in 1..Len(table), NEW j \in 1..Len(table), i # j
      PROVE  table[i].rows \cap table[j].rows = {}
  BY <1>2, <1>3, <1>5
<1> QED
  BY <1>4, <1>5, Zenon DEF OneRowPerEvent

\* A committed batch has a row of each of its fresh events in the table.
LEMMA FreshWritten ==
  ASSUME NEW Rows, DeduplicationOf(Rows), DedupInv(Rows), ~torn,
         NEW b \in 1..Committed, NEW e \in Fresh(b)
  PROVE  \E i \in 1..Len(table) : table[i].txn = b /\ \E f \in table[i].rows : f.id = e.id
<1>1. \A r \in Results(b) : \E f \in r.out : f.id = e.id
  BY DedupResults
<1>2. ~Silent(b)
  BY <1>1 DEF Silent
<1>3. PICK i \in 1..Len(table) : table[i].txn = b
  BY <1>2 DEF DedupInv, EngineInv, IInv, CommittedWritten, InTable
<1>4. \E r \in Results(table[i].txn) : r.ok /\ r.out = table[i].rows
  BY Zenon DEF DedupInv, EngineInv, IInv, TableSound
<1> QED
  BY <1>1, <1>3, <1>4

LEMMA InvNoneLost ==
  ASSUME NEW Rows, DeduplicationOf(Rows), DedupInv(Rows)
  PROVE  NoEventLost
<1>1. SUFFICES ASSUME ~torn, NEW b \in 1..Committed, NEW e \in Accepted(b)
               PROVE  \E i \in 1..Len(table) : table[i].txn <= b /\ \E f \in table[i].rows : f.id = e.id
  BY Zenon DEF NoEventLost, Accepted
<1>2. Committed \in Nat /\ Len(offsets) \in Nat /\ Committed <= Len(offsets) /\ b \in 1..Len(offsets) /\ b \in Nat
  <2>1. Len(offsets) \in {Committed, Committed + 1} /\ Committed \in Nat /\ Len(offsets) \in Nat
    BY LogTypes DEF DedupInv, EngineInv, IInv, TypeOK
  <2> QED BY <2>1
<1>3. CASE e \in Fresh(b)
  <2>1. PICK i \in 1..Len(table) : table[i].txn = b /\ \E f \in table[i].rows : f.id = e.id
    BY <1>1, <1>3, FreshWritten
  <2> QED BY <1>2, <2>1
<1>4. CASE e \notin Fresh(b)
  <2>1. PICK m \in StateBefore(b) : m.id = e.id
    BY <1>1, <1>4 DEF Fresh, Remembered
  <2>2. b # 1
    BY <2>1 DEF StateBefore, DeduplicationOf, DedupInitial
  <2>3. b - 1 \in DOMAIN states /\ StateBefore(b) = states[b - 1]
    BY <1>2, <2>2, StateOfBatch DEF DedupInv, EngineInv
  <2>4. PICK a \in 1..(b - 1) : \E d \in Fresh(a) : m = Entry(d)
    BY <2>1, <2>3, Zenon DEF DedupInv, Memory, Grounded
  <2>5. PICK d \in Fresh(a) : d.id = e.id
    BY <2>1, <2>4 DEF Entry
  <2>6. a \in 1..Committed /\ a <= b
    BY <1>2
  <2>7. PICK i \in 1..Len(table) : table[i].txn = a /\ \E f \in table[i].rows : f.id = d.id
    BY <1>1, <2>6, FreshWritten
  <2> QED BY <2>5, <2>6, <2>7
<1> QED
  BY <1>3, <1>4

\* What a result of the batch at hand remembers.
LEMMA ResultRemembers ==
  ASSUME NEW Rows, DeduplicationOf(Rows), EngineInv(Rows),
         NEW n \in 1..Len(offsets), NEW r \in Results(n),
         n # 1 => Grounded(n - 1) /\ Remembers(n - 1)
  PROVE  /\ \A m \in r.state : \E a \in 1..n : \E e \in Fresh(a) : m = Entry(e)
         /\ \A a \in 1..n : \A e \in Accepted(a) :
              Entry(e) \in r.state \/ Expiry(e) <= Watermark(n) * Milli
<1>1. n \in Nat \ {0} /\ n \in 1..n /\ \A a \in 1..n : a = n \/ (n # 1 /\ a \in 1..(n - 1))
  BY LogTypes DEF EngineInv, IInv
<1>2. ASSUME n # 1
      PROVE  /\ StateBefore(n) = states[n - 1] /\ Grounded(n - 1) /\ Remembers(n - 1)
             /\ \A a \in 1..(n - 1) : a \in 1..Len(offsets) /\ a \in 1..n
  <2>1. /\ n - 1 \in DOMAIN states /\ StateBefore(n) = states[n - 1]
        /\ \A a \in 1..(n - 1) : a \in 1..Len(offsets)
    BY <1>2, StateOfBatch DEF EngineInv
  <2>4. \A a \in 1..(n - 1) : a \in 1..n
    BY <1>1
  <2> QED BY <1>2, <2>1, <2>4
<1>3. StateBefore(n) # {} => n # 1
  BY DEF StateBefore, DeduplicationOf, DedupInitial
<1>4. /\ r.out \subseteq Fresh(n)
      /\ \A e \in Fresh(n) : \E f \in r.out : f.id = e.id
      /\ r.state = {m \in StateBefore(n) \cup {Entry(f) : f \in r.out} :
                      m.expires > Watermark(n) * Milli}
  BY DedupResults
<1>5. ASSUME NEW m \in StateBefore(n)
      PROVE  \E a \in 1..(n - 1) : \E e \in Fresh(a) : m = Entry(e)
  <2>1. n # 1
    BY <1>3, <1>5
  <2> QED BY <1>2, <1>5, <2>1, Zenon DEF Grounded
<1>6. ASSUME NEW m \in r.state PROVE \E a \in 1..n : \E e \in Fresh(a) : m = Entry(e)
  <2>1. CASE m \in StateBefore(n)
    <3>1. PICK a \in 1..(n - 1) : \E e \in Fresh(a) : m = Entry(e)
      BY <1>5, <2>1
    <3> QED BY <1>2, <1>3, <2>1, <3>1
  <2>2. CASE m \in {Entry(f) : f \in r.out}
    BY <1>1, <1>4, <2>2
  <2> QED BY <1>4, <1>6, <2>1, <2>2
<1>7. ASSUME NEW a \in 1..n, NEW e \in Accepted(a), ~(Expiry(e) <= Watermark(n) * Milli)
      PROVE  Entry(e) \in r.state
  <2>1. a \in 1..Len(offsets)
    BY <1>1, <1>2
  <2>2. /\ e \in Rows /\ e.time \in Nat /\ Watermark(n - 1) \in Nat /\ Watermark(n) \in Nat
        /\ Watermark(n - 1) <= Watermark(n)
    <3>1. e \in Rows /\ e.time \in Nat
      BY <1>7, <2>1, AcceptedRows DEF EngineInv
    <3>2. n - 1 \in 0..Len(offsets) /\ n \in 0..Len(offsets)
      BY LogTypes DEF EngineInv, IInv
    <3>3. Watermark(n - 1) \in Nat /\ Watermark(n) \in Nat
      BY <3>2, PositionType DEF EngineInv, IInv
    <3> QED BY <3>1, <3>3 DEF EngineInv, LogGrows
  <2>3. /\ Expiry(e) \in Nat /\ Watermark(n) * Milli \in Nat /\ Watermark(n - 1) * Milli \in Nat
        /\ Watermark(n - 1) * Milli <= Watermark(n) * Milli
    <3>1. WatermarkDelay * Milli \in Nat
      BY EventTimeAssumption
    <3>2. Expiry(e) \in Nat
      BY <2>2, <3>1 DEF Expiry
    <3> QED BY <2>2, <3>2, ScaledLater
  <2>4. Entry(e).expires > Watermark(n) * Milli
    BY <1>7, <2>3 DEF Entry
  <2>5. SUFFICES Entry(e) \in StateBefore(n) \cup {Entry(f) : f \in r.out}
    BY <1>4, <2>4
  <2>6. CASE a # n
    <3>1. n # 1 /\ a \in 1..(n - 1)
      BY <1>1, <2>6
    <3>2. Entry(e) \in states[n - 1] \/ Expiry(e) <= Watermark(n - 1) * Milli
      BY <1>2, <1>7, <3>1, Zenon DEF Remembers
    <3> QED BY <1>2, <1>7, <2>3, <3>1, <3>2
  <2>7. CASE a = n /\ e \in Fresh(n)
    <3>1. PICK f \in r.out : f.id = e.id
      BY <1>4, <2>7
    <3>2. f \in Accepted(n)
      BY <1>4, <3>1 DEF Fresh
    <3>3. f \in Rows
      BY <3>2, AcceptedRows DEF EngineInv
    <3>4. Entry(f) = Entry(e)
      BY <2>2, <3>1, <3>3, CopiesAlike
    <3> QED BY <3>1, <3>4
  <2>8. CASE a = n /\ e \notin Fresh(n)
    <3>1. PICK m \in StateBefore(n) : m.id = e.id
      BY <1>7, <2>8 DEF Fresh, Remembered
    <3>2. PICK c \in 1..(n - 1) : \E d \in Fresh(c) : m = Entry(d)
      BY <1>5, <3>1
    <3>3. PICK d \in Fresh(c) : m = Entry(d)
      BY <3>2
    <3>4. c \in 1..Len(offsets) /\ d \in Accepted(c) /\ d.id = e.id
      <4>1. c \in 1..Len(offsets)
        BY <1>2, <1>3, <3>1, <3>2
      <4> QED BY <3>1, <3>3, <4>1 DEF Fresh, Entry
    <3>5. d \in Rows
      BY <3>4, AcceptedRows DEF EngineInv
    <3>6. Entry(d) = Entry(e)
      BY <2>2, <3>4, <3>5, CopiesAlike
    <3> QED BY <3>1, <3>3, <3>6
  <2> QED BY <2>6, <2>7, <2>8
<1> QED
  BY <1>6, <1>7

\* The first batch whose state did not remember would come after one that did.
LEMMA MemoryHolds ==
  ASSUME NEW Rows, DeduplicationOf(Rows), EngineInv(Rows)
  PROVE  Memory
<1> DEFINE bad == {b \in DOMAIN states : ~(Grounded(b) /\ Remembers(b))}
<1>1. bad \in SUBSET Nat
  BY StatesOfBatches DEF EngineInv
<1>2. ASSUME bad # {} PROVE FALSE
  <2>1. PICK n \in bad : \A m \in bad : n <= m
    BY <1>1, <1>2, LeastNumber, Zenon
  <2>2. n \in DOMAIN states /\ n \in Nat \ {0} /\ n \in 1..Len(offsets) /\ (n # 1 => n - 1 \in DOMAIN states)
    BY <2>1, StatesOfBatches DEF EngineInv
  <2>3. n # 1 => Grounded(n - 1) /\ Remembers(n - 1)
    <3>1. n - 1 \notin bad
      BY <2>1, <2>2
    <3> QED BY <2>2, <3>1
  <2>4. PICK r \in Results(n) : r.state = states[n]
    BY <2>2 DEF EngineInv, Traced
  <2>5. /\ \A m \in r.state : \E a \in 1..n : \E e \in Fresh(a) : m = Entry(e)
        /\ \A a \in 1..n : \A e \in Accepted(a) : Entry(e) \in r.state \/ Expiry(e) <= Watermark(n) * Milli
    BY <2>2, <2>3, ResultRemembers
  <2>6. Grounded(n)
    BY <2>4, <2>5, Zenon DEF Grounded
  <2>7. Remembers(n)
    BY <2>4, <2>5, Zenon DEF Remembers
  <2> QED BY <2>1, <2>6, <2>7
<1> QED BY <1>2 DEF Memory

-----------------------------------------------------------------------------
(* The theorems. *)

\* dropDuplicatesWithinWatermark: an id is remembered until no row of it can
\* be on time, whatever the order, the batches and the kills.
THEOREM DeduplicationInvariant ==
  ASSUME NEW Rows, DeduplicationOf(Rows)
  PROVE  Spec => []DedupInv(Rows)
<1>1. EngineInv(Rows) => DedupInv(Rows)
  BY MemoryHolds DEF DedupInv
<1> QED BY <1>1, EngineInvariant, PTL DEF DeduplicationOf

\* transactions_deduplicated has one row of an event, and a row of each event
\* that a committed batch found on time.
THEOREM EachEventOnceHolds ==
  ASSUME NEW Rows, DeduplicationOf(Rows)
  PROVE  Spec => []EachEventOnce
<1>1. DedupInv(Rows) => EachEventOnce
  BY InvOneRow, InvNoneLost DEF EachEventOnce
<1> QED BY <1>1, DeduplicationInvariant, PTL

-----------------------------------------------------------------------------
(* Applications whose operator keeps a state for each key. *)

\* Every row has an event time.
Timed(Rows) == \A r \in Rows : r.time \in Nat

\* Sources are the histories Upstream can lead to.
KeyedSource(Rows, Sources) ==
  /\ SourceOf(Rows)
  /\ Timed(Rows)
  /\ <<>> \in Sources
  /\ \A s \in Sources : \A v \in Upstream(s) : Append(s, v) \in Sources

KeyedInv(Rows, Sources) == EngineInv(Rows) /\ source \in Sources

\* What follows from the engine's invariant and no step disturbs on its own: the
\* source is one of the sources.
LEMMA SourceStep ==
  ASSUME NEW Rows, NEW Sources, KeyedSource(Rows, Sources), source \in Sources, [Next]_vars
  PROVE  source' \in Sources
<1>1. CASE Arrive
  BY <1>1 DEF Arrive, KeyedSource
<1>2. CASE UNCHANGED source
  BY <1>2
<1>3. Arrive \/ UNCHANGED source
  BY DEF Next, vars, Run, Reset, Start, PlanData, PlanNoData, PlanBatch, Compute, WriteBatch,
         CommitBatch, Finish, Crash, RemoveTable, RemoveCheckpoint, KillReset
<1> QED BY <1>1, <1>2, <1>3

LEMMA KeyedInvariant ==
  ASSUME NEW Rows, NEW Sources, KeyedSource(Rows, Sources)
  PROVE  Spec => []KeyedInv(Rows, Sources)
<1>1. SourceOf(Rows)
  BY DEF KeyedSource
<1>2. Init => source \in Sources
  BY DEF Init, KeyedSource
<1>3. source \in Sources /\ [Next]_vars => (source \in Sources)'
  BY SourceStep
<1>4. Spec => []EngineInv(Rows)
  BY <1>1, EngineInvariant
<1> QED BY <1>2, <1>3, <1>4, PTL DEF Spec, KeyedInv

-----------------------------------------------------------------------------
(* Rows of the batches. *)

LEMMA BatchNumbers ==
  ASSUME NEW Rows, EngineInv(Rows), NEW b \in 1..Len(offsets)
  PROVE  /\ b \in Nat \ {0} /\ Len(offsets) \in Nat /\ b - 1 \in 0..Len(offsets) /\ b \in 0..Len(offsets)
         /\ Watermark(b - 1) \in Nat /\ Watermark(b) \in Nat /\ Watermark(b - 1) <= Watermark(b)
         /\ Position(b - 1) \in Nat /\ Position(b) \in Nat /\ Position(b - 1) <= Position(b)
         /\ Position(b) <= Len(source) /\ Len(source) \in Nat
<1>1. /\ b \in Nat \ {0} /\ Len(offsets) \in Nat /\ b - 1 \in 0..Len(offsets) /\ b \in 0..Len(offsets)
  BY LogTypes DEF EngineInv, IInv
<1>2. /\ Watermark(b - 1) \in Nat /\ Watermark(b) \in Nat
      /\ Position(b - 1) \in Nat /\ Position(b) \in Nat /\ Position(b) = offsets[b].to
  BY <1>1, PositionType DEF EngineInv, IInv, Position
<1>3. Position(b) <= Len(source) /\ Len(source) \in Nat
  BY <1>2 DEF EngineInv, IInv, OffsetsInSource
<1> QED BY <1>1, <1>2, <1>3 DEF EngineInv, LogGrows

LEMMA AcceptedOnTime ==
  ASSUME NEW Rows, NEW Sources, KeyedSource(Rows, Sources), KeyedInv(Rows, Sources),
         NEW b \in 1..Len(offsets), NEW k
  PROVE  /\ IsFiniteSet(AcceptedOf(b, k)) /\ AcceptedOf(b, k) \subseteq Input(b)
         /\ \A e \in AcceptedOf(b, k) :
              e \in Rows /\ e.time \in Nat /\ e.time > Watermark(b - 1) * Milli /\ e.key = k
<1>1. Input(b) \subseteq Rows /\ IsFiniteSet(Input(b))
  BY InputInRows DEF KeyedInv, EngineInv, Versions
<1>2. AcceptedOf(b, k) \subseteq Input(b)
  BY DEF AcceptedOf, OnTime
<1>3. IsFiniteSet(AcceptedOf(b, k))
  BY <1>1, <1>2, FS_Subset
<1>4. \A e \in AcceptedOf(b, k) : e.time > Watermark(b - 1) * Milli /\ e.key = k
  BY DEF AcceptedOf, OnTime
<1> QED BY <1>1, <1>2, <1>3, <1>4 DEF KeyedSource, Timed

LEMMA SeenGrows ==
  ASSUME NEW b \in Nat \ {0}, NEW k
  PROVE  SeenOf(b, k) = SeenOf(b - 1, k) \cup AcceptedOf(b, k)
<1>1. 1..b = (1..(b - 1)) \cup {b}
  OBVIOUS
<1> QED BY <1>1 DEF SeenOf

LEMMA NothingSeen == \A k : SeenOf(0, k) = {}
<1>1. 1..0 = {}
  OBVIOUS
<1> QED BY <1>1 DEF SeenOf

LEMMA SeenRows ==
  ASSUME NEW Rows, NEW Sources, KeyedSource(Rows, Sources), KeyedInv(Rows, Sources),
         NEW b \in 0..Len(offsets), NEW k
  PROVE  IsFiniteSet(SeenOf(b, k)) /\ SeenOf(b, k) \subseteq Rows
<1> DEFINE accepted == [a \in 1..b |-> AcceptedOf(a, k)]
<1>1. IsFiniteSet(1..b) /\ \A a \in 1..b : a \in 1..Len(offsets)
  <2>1. Len(offsets) \in Nat
    BY LogTypes DEF KeyedInv, EngineInv, IInv
  <2>2. b \in Int /\ 1 \in Int
    BY <2>1
  <2> QED BY <2>1, <2>2, FS_Interval
<1>2. \A a \in 1..b : IsFiniteSet(AcceptedOf(a, k)) /\ AcceptedOf(a, k) \subseteq Rows
  BY <1>1, AcceptedOnTime
<1>3. IsFiniteSet({accepted[a] : a \in 1..b})
  <2>1. DOMAIN accepted = 1..b
    OBVIOUS
  <2> HIDE DEF accepted
  <2> QED BY <1>1, <2>1, ImageFinite
<1>4. SeenOf(b, k) = UNION {accepted[a] : a \in 1..b}
  BY DEF SeenOf
<1>5. \A T \in {accepted[a] : a \in 1..b} : IsFiniteSet(T) /\ T \subseteq Rows
  BY <1>2
<1> HIDE DEF accepted
<1> QED BY <1>3, <1>4, <1>5, FS_UNION

\* The rows of a batch come of earlier versions than those of a later batch.
LEMMA EarlierVersion ==
  ASSUME NEW Rows, EngineInv(Rows), NEW b \in 1..Len(offsets), NEW a \in 1..(b - 1),
         NEW e \in Input(a), NEW f \in Input(b)
  PROVE  \E i, j \in 1..Len(source) : i < j /\ e \in source[i] /\ f \in source[j]
<1> DEFINE bad == {n \in Nat : n >= a /\ n <= b - 1 /\ ~(Position(a) <= Position(n))}
<1>1. b \in Nat \ {0} /\ a \in Nat \ {0} /\ a \in 1..Len(offsets)
      /\ Position(a) \in Nat /\ Position(a) <= Len(source) /\ Len(source) \in Nat
      /\ Position(b) <= Len(source) /\ Position(b) \in Nat /\ Position(b - 1) \in Nat /\ Position(a - 1) \in Nat
  <2>1. a \in 1..Len(offsets)
    BY BatchNumbers
  <2> QED BY <2>1, BatchNumbers
<1>2. bad = {}
  <2>1. SUFFICES ASSUME bad # {} PROVE FALSE
    OBVIOUS
  <2>2. PICK n \in bad : \A k \in bad : n <= k
    <3>1. bad \in SUBSET Nat
      OBVIOUS
    <3> HIDE DEF bad
    <3> QED BY <2>1, <3>1, LeastNumber
  <2>3. n \in Nat /\ n >= a /\ n <= b - 1 /\ ~(Position(a) <= Position(n))
    BY <2>2
  <2>4. Len(offsets) \in Nat /\ b <= Len(offsets)
    BY BatchNumbers
  <2>5. n # a
    BY <1>1, <2>3
  <2>6. n \in 1..Len(offsets) /\ n - 1 \in Nat /\ n - 1 >= a /\ n - 1 <= b - 1 /\ ~(n <= n - 1)
    BY <1>1, <2>3, <2>4, <2>5
  <2>7. Position(a) <= Position(n - 1)
    BY <2>2, <2>6
  <2>8. Position(n - 1) \in Nat /\ Position(n) \in Nat /\ Position(n - 1) <= Position(n)
    BY <2>6, BatchNumbers
  <2> QED BY <1>1, <2>3, <2>7, <2>8
<1>3. Position(a) <= Position(b - 1)
  <2>1. b - 1 \in Nat /\ b - 1 >= a
    BY <1>1
  <2> QED BY <1>2, <2>1
<1>4. PICK i \in (Position(a - 1) + 1)..Position(a) : e \in source[i]
  BY DEF Input
<1>5. PICK j \in (Position(b - 1) + 1)..Position(b) : f \in source[j]
  BY DEF Input
<1>6. i \in 1..Len(source) /\ j \in 1..Len(source) /\ i < j
  BY <1>1, <1>3, <1>4, <1>5
<1> QED BY <1>4, <1>5, <1>6

\* What a batch left in the table of a key, if all its results agree on it.
LEMMA RowsOfBatch ==
  ASSUME NEW Rows, EngineInv(Rows), NEW b \in 1..Len(offsets), NEW k, NEW out,
         \A r \in Results(b) : r.ok => {f \in r.out : f.key = k} = out
  PROVE  /\ RowsOf(b, k) = {} \/ RowsOf(b, k) = out
         /\ ~torn /\ b \in 1..Committed => RowsOf(b, k) = out
<1>1. ASSUME NEW i \in 1..Len(table), table[i].txn = b
      PROVE  RowsOf(b, k) = out
  <2>1. PICK r \in Results(b) : r.ok /\ r.out = table[i].rows
    BY <1>1 DEF EngineInv, IInv, TableSound
  <2>2. ASSUME NEW j \in 1..Len(table), table[j].txn = b PROVE j = i
    <3>1. i \in Int /\ j \in Int
      OBVIOUS
    <3>2. ~(i < j) /\ ~(j < i)
      <4>1. \A m \in 1..Len(table) : \A l \in 1..(m - 1) : table[l].txn < table[m].txn
        BY DEF EngineInv, IInv, TableSound
      <4>2. \A m, l \in 1..Len(table) : l < m => l \in 1..(m - 1)
        OBVIOUS
      <4>3. b \in Int
        BY BatchNumbers
      <4> QED BY <1>1, <2>2, <4>1, <4>2, <4>3
    <3> QED BY <3>1, <3>2
  <2>3. WrittenBy(b) = r.out
    BY <1>1, <2>1, <2>2 DEF WrittenBy
  <2> QED BY <2>1, <2>3 DEF RowsOf
<1>2. CASE InTable(b)
  BY <1>1, <1>2 DEF InTable
<1>3. CASE ~InTable(b)
  <2>1. RowsOf(b, k) = {}
    BY <1>3 DEF RowsOf, WrittenBy, InTable
  <2>2. ASSUME ~torn, b \in 1..Committed PROVE out = {}
    <3>1. PICK r \in Results(b) : r.ok /\ r.out = {}
      BY <1>3, <2>2 DEF EngineInv, IInv, CommittedWritten, Silent
    <3> QED BY <3>1
  <2> QED BY <2>1, <2>2
<1> QED BY <1>2, <1>3

LEMMA CommittedBatch ==
  ASSUME NEW Rows, EngineInv(Rows), NEW b \in 1..Committed
  PROVE  b \in DOMAIN states /\ b \in 1..Len(offsets) /\ b \in Nat \ {0} /\ Committed \in Nat
         /\ \A a \in 1..b : a \in 1..Committed
<1>1. /\ Len(offsets) \in Nat /\ Committed \in Nat /\ Len(offsets) \in {Committed, Committed + 1}
      /\ DOMAIN states \in {1..Committed, 1..Len(offsets)}
  BY LogTypes DEF EngineInv, IInv, TypeOK
<1> QED BY <1>1

-----------------------------------------------------------------------------
(* Timers. *)

LEMMA InTimeOrder ==
  ASSUME NEW S \in SUBSET Int, IsFiniteSet(S)
  PROVE  LET s == InOrder(S, Earlier)
         IN /\ s \in [1..Cardinality(S) -> S] /\ {s[i] : i \in DOMAIN s} = S
            /\ \A i, j \in DOMAIN s : i < j => s[i] < s[j]
<1> DEFINE R == {p \in Int \X Int : p[1] < p[2]}
<1>1. \A x, y \in Int : <<x, y>> \in R <=> x < y
  OBVIOUS
<1> HIDE DEF R
<1>2. Orders(R, S)
  BY <1>1 DEF Orders
<1>3. PICK s : InOrderOf(s, S, R)
  BY <1>2, OrderedElements
<1>4. s \in [1..Cardinality(S) -> S] /\ {s[i] : i \in DOMAIN s} = S
  BY <1>3 DEF InOrderOf
<1>5. \A i, j \in DOMAIN s : i < j => Earlier(s[i], s[j])
  BY <1>1, <1>3, <1>4 DEF InOrderOf, Earlier
<1>6. \E q \in [1..Cardinality(S) -> S] :
        /\ {q[i] : i \in DOMAIN q} = S
        /\ \A i, j \in DOMAIN q : i < j => Earlier(q[i], q[j])
  BY <1>4, <1>5
<1> DEFINE q == InOrder(S, Earlier)
<1>7. /\ q \in [1..Cardinality(S) -> S] /\ {q[i] : i \in DOMAIN q} = S
      /\ \A i, j \in DOMAIN q : i < j => Earlier(q[i], q[j])
  BY <1>6, Zenon DEF InOrder
<1> HIDE DEF q
<1>8. \A i, j \in DOMAIN q : i < j => q[i] < q[j]
  BY <1>7, Zenon DEF Earlier
<1> QED BY <1>7, <1>8, Zenon DEF q

LEMMA OneDueTimer ==
  ASSUME NEW due \in Nat, NEW t \in Nat
  PROVE  /\ DueTimers({}, due) = <<>>
         /\ t < due => DueTimers({t}, due) = Append(<<>>, t)
         /\ ~(t < due) => DueTimers({t}, due) = <<>>
<1>1. InOrder({}, Earlier) = <<>>
  <2> DEFINE q == InOrder({}, Earlier)
  <2>1. q \in [1..Cardinality({}) -> {}]
    BY InTimeOrder, FS_EmptySet, Zenon
  <2>2. Cardinality({}) = 0
    BY FS_EmptySet
  <2> HIDE DEF q
  <2>3. q \in [1..0 -> {}]
    BY <2>1, <2>2
  <2>4. q = <<>>
    BY <2>3
  <2> QED BY <2>4 DEF q
<1>2. InOrder({t}, Earlier) = Append(<<>>, t)
  <2> DEFINE q == InOrder({t}, Earlier)
  <2>1. IsFiniteSet({t}) /\ Cardinality({t}) = 1
    BY FS_Singleton
  <2>2. q \in [1..Cardinality({t}) -> {t}]
    <3>1. {t} \in SUBSET Int
      OBVIOUS
    <3> QED BY <2>1, <3>1, InTimeOrder, Zenon
  <2> HIDE DEF q
  <2>3. q \in [1..1 -> {t}]
    BY <2>1, <2>2
  <2>4. q = Append(<<>>, t)
    BY <2>3
  <2> QED BY <2>4 DEF q
<1>3. {x \in {} : x < due} = {} /\ (t < due => {x \in {t} : x < due} = {t})
      /\ (~(t < due) => {x \in {t} : x < due} = {})
  OBVIOUS
<1> QED BY <1>1, <1>2, <1>3, Zenon DEF DueTimers

-----------------------------------------------------------------------------
(* Milliseconds. *)

LEMMA FloorType == \A t \in Nat : FloorMillis(t) \in Nat
BY EventTimeAssumption DEF FloorMillis

LEMMA FloorGrows ==
  ASSUME NEW t \in Nat, NEW u \in Nat, t <= u
  PROVE  FloorMillis(t) <= FloorMillis(u)
BY EventTimeAssumption DEF FloorMillis

LEMMA FloorAbove ==
  ASSUME NEW t \in Nat, NEW w \in Nat, t > w * Milli
  PROVE  FloorMillis(t) >= w
BY EventTimeAssumption DEF FloorMillis

\* The rows of a finite set that is not empty have a latest time.
LEMMA LatestTime ==
  ASSUME NEW rows, IsFiniteSet(rows), rows # {}, \A e \in rows : e.time \in Nat
  PROVE  /\ Latest(rows) \in Nat /\ \E e \in rows : e.time = Latest(rows)
         /\ \A e \in rows : e.time <= Latest(rows)
<1> DEFINE f == [e \in rows |-> e.time]
<1>1. Times(rows) = {f[e] : e \in rows}
  BY DEF Times
<1>2. IsFiniteSet(Times(rows))
  <2>1. DOMAIN f = rows
    OBVIOUS
  <2> HIDE DEF f
  <2> QED BY <1>1, <2>1, ImageFinite
<1>3. Times(rows) \in SUBSET Int /\ Times(rows) # {}
  BY DEF Times
<1>4. Latest(rows) \in Times(rows) /\ \A t \in Times(rows) : t <= Latest(rows)
  BY <1>2, <1>3, FiniteMax, Zenon DEF Latest
<1>5. Times(rows) = {e.time : e \in rows}
  BY DEF Times
<1>6. Latest(rows) \in {e.time : e \in rows} /\ \A e \in rows : e.time <= Latest(rows)
  BY <1>4, <1>5
<1> QED BY <1>6

\* What is assumed of a watermark holds for that of the applications.
LEMMA EventTimeWatermarkType ==
  ASSUME NEW Rows, Timed(Rows)
  PROVE  \A rows \in Versions(Rows) : EventTimeWatermark(rows) \in Nat
<1>1. SUFFICES ASSUME NEW rows \in Versions(Rows), rows # {}
               PROVE  EventTimeWatermark(rows) \in Nat
  BY DEF EventTimeWatermark
<1> DEFINE w == FloorMillis(Latest(rows)) - WatermarkDelay
<1>2. w \in Int
  <2>1. Latest(rows) \in Nat
    BY <1>1, LatestTime DEF Versions, Timed
  <2> QED BY <2>1, FloorType, EventTimeAssumption
<1>3. EventTimeWatermark(rows) = Max({0, w})
  BY <1>1 DEF EventTimeWatermark, Latest
<1> HIDE DEF w
<1>4. {0, w} \in SUBSET Int /\ {0, w} # {} /\ IsFiniteSet({0, w})
  <2>1. IsFiniteSet({0}) /\ {0, w} = {0} \cup {w}
    BY FS_Singleton
  <2>2. IsFiniteSet({0, w})
    BY <2>1, FS_AddElement
  <2> QED BY <1>2, <2>2
<1>5. Max({0, w}) \in {0, w} /\ \A y \in {0, w} : y <= Max({0, w})
  BY <1>4, FiniteMax, Zenon
<1>6. Max({0, w}) \in Nat
  BY <1>2, <1>5
<1> QED BY <1>3, <1>6

-----------------------------------------------------------------------------
(* The lifecycle of a customer. *)

LifecycleStates(Rows) == [events : SUBSET Rows, timer : Nat, registered : SUBSET Nat]
Snapshots(Rows) ==
  [key : CustomerIds, lifecycle : {"UPDATED", "EXPIRED"}, batch : SUBSET Rows, events : SUBSET Rows,
   expiry : Nat]
Handled(Rows) == [state : LifecycleStates(Rows), out : SUBSET Snapshots(Rows)]

LEMMA SnapshotTyped ==
  ASSUME NEW Rows, NEW c \in CustomerIds, NEW s \in LifecycleStates(Rows),
         NEW l \in {"UPDATED", "EXPIRED"}, NEW rows \in SUBSET Rows
  PROVE  Snapshot(c, l, rows, s) \in Snapshots(Rows)
BY DEF LifecycleStates, Snapshots, Snapshot

LEMMA NoActivityTyped == \A Rows : NoActivity \in LifecycleStates(Rows)
BY DEF NoActivity, LifecycleStates, NoTimer

\* A fired timer ends the lifecycle it belongs to, and is gone.
EndsLifecycle(s, t) == s.events # {} /\ s.timer = t

LEMMA InactivityTimer ==
  ASSUME NEW Rows, NEW c \in CustomerIds, NEW a \in Handled(Rows), NEW t \in Nat
  PROVE  /\ FireInactivityTimer(c, a, t) \in Handled(Rows)
         /\ EndsLifecycle(a.state, t) =>
              FireInactivityTimer(c, a, t) = [state |-> [NoActivity EXCEPT !.registered = a.state.registered \ {t}],
                                              out |-> a.out \cup {Snapshot(c, "EXPIRED", {}, a.state)}]
         /\ ~EndsLifecycle(a.state, t) =>
              FireInactivityTimer(c, a, t) = [state |-> [a.state EXCEPT !.registered = @ \ {t}], out |-> a.out]
<1>1. a.state \in LifecycleStates(Rows) /\ a.out \in SUBSET Snapshots(Rows)
  BY DEF Handled
<1>2. a.state.registered \in SUBSET Nat
  BY <1>1 DEF LifecycleStates
<1>3. CASE EndsLifecycle(a.state, t)
  <2> DEFINE ended == [NoActivity EXCEPT !.registered = a.state.registered]
             out == a.out \cup {Snapshot(c, "EXPIRED", {}, a.state)}
  <2>1. HandleInactivity(c, a, t) = [state |-> ended, out |-> out]
    BY <1>3 DEF HandleInactivity, EndsLifecycle
  <2>2. ended \in LifecycleStates(Rows) /\ out \in SUBSET Snapshots(Rows)
    BY <1>1, <1>2, SnapshotTyped DEF NoActivity, LifecycleStates, NoTimer
  <2>3. [ended EXCEPT !.registered = @ \ {t}] = [NoActivity EXCEPT !.registered = a.state.registered \ {t}]
    BY DEF NoActivity
  <2>4. [ended EXCEPT !.registered = @ \ {t}] \in LifecycleStates(Rows)
    BY <1>2, <2>2 DEF LifecycleStates
  <2> HIDE DEF ended, out
  <2>5. FireInactivityTimer(c, a, t) = [state |-> [ended EXCEPT !.registered = @ \ {t}], out |-> out]
    <3>1. [state |-> ended, out |-> out] \in Handled(Rows)
      BY <2>2 DEF Handled
    <3> QED BY <2>1, <3>1 DEF FireInactivityTimer, Handled
  <2>6. FireInactivityTimer(c, a, t) \in Handled(Rows)
    BY <2>2, <2>4, <2>5 DEF Handled
  <2>7. out = a.out \cup {Snapshot(c, "EXPIRED", {}, a.state)}
    BY DEF out
  <2> QED BY <1>3, <2>3, <2>5, <2>6, <2>7
<1>4. CASE ~EndsLifecycle(a.state, t)
  <2>1. HandleInactivity(c, a, t) = a
    BY <1>4 DEF HandleInactivity, EndsLifecycle
  <2>2. [a.state EXCEPT !.registered = @ \ {t}] \in LifecycleStates(Rows)
    BY <1>1 DEF LifecycleStates
  <2>3. FireInactivityTimer(c, a, t) = [state |-> [a.state EXCEPT !.registered = @ \ {t}], out |-> a.out]
    BY <2>1 DEF FireInactivityTimer, Handled
  <2>4. FireInactivityTimer(c, a, t) \in Handled(Rows)
    BY <1>1, <2>2, <2>3 DEF Handled
  <2> QED BY <1>4, <2>3, <2>4
<1> QED BY <1>3, <1>4

InactivityFired(c, acc, timers) == FoldLeft(LAMBDA a, t : FireInactivityTimer(c, a, t), acc, timers)

\* One timer after the other.
LEMMA InactivityFold ==
  ASSUME NEW Rows, NEW c \in CustomerIds, NEW acc \in Handled(Rows)
  PROVE  /\ InactivityFired(c, acc, <<>>) = acc
         /\ \A s \in Seq(Nat) : InactivityFired(c, acc, s) \in Handled(Rows)
         /\ \A s \in Seq(Nat), x \in Nat : InactivityFired(c, acc, Append(s, x)) = FireInactivityTimer(c, InactivityFired(c, acc, s), x)
<1> DEFINE h == [p \in Handled(Rows) \X Nat |-> FireInactivityTimer(c, p[1], p[2])]
<1>1. /\ h \in [Handled(Rows) \X Nat -> Handled(Rows)]
      /\ \A a \in Handled(Rows), x \in Nat : h[<<a, x>>] = FireInactivityTimer(c, a, x)
  BY InactivityTimer
<1> HIDE DEF h
<1>2. acc \in Handled(Rows)
  OBVIOUS
<1>3. HasValues(Handled(Rows), Nat, h, acc)
      /\ \E F : IsFold(Handled(Rows), Nat, h, acc, F) /\ EndsValues(Handled(Rows), Nat, h, acc, F)
  BY <1>1, <1>2, FoldRuns
<1>4. PICK F : IsFold(Handled(Rows), Nat, h, acc, F) /\ EndsValues(Handled(Rows), Nat, h, acc, F)
  BY <1>3
<1>5. ASSUME NEW s \in Seq(Nat) PROVE InactivityFired(c, acc, s) = F[s]
  <2> DEFINE unroll(g) ==
        [t \in SUBSET (DOMAIN s) |->
           IF t = {} THEN acc ELSE FireInactivityTimer(c, g[t \ {Max(t)}], s[Max(t)])]
  <2>1. PICK g \in [SUBSET (DOMAIN s) -> Handled(Rows)] : Values(h, acc, s, g)
    BY <1>3 DEF HasValues
  <2>2. g = unroll(g)
    <3>1. \A t \in SUBSET (DOMAIN s) :
            t # {} => h[<<g[t \ {Max(t)}], s[Max(t)]>>] = FireInactivityTimer(c, g[t \ {Max(t)}], s[Max(t)])
      BY <1>1, <2>1, DomainMax
    <3> QED BY <2>1, <3>1 DEF Values
  <2>3. PICK f : f = CHOOSE e : e = unroll(e)
    OBVIOUS
  <2>4. f = unroll(f)
    BY <2>2, <2>3, Zenon
  <2>5. Reaches(Handled(Rows), h, acc, s, f)
    <3>1. f[{}] = acc
      BY <2>4
    <3>2. ASSUME NEW t \in SUBSET (DOMAIN s), t # {}, f[t \ {Max(t)}] \in Handled(Rows)
          PROVE  f[t] = h[<<f[t \ {Max(t)}], s[Max(t)]>>]
      <4>1. f[t] = FireInactivityTimer(c, f[t \ {Max(t)}], s[Max(t)])
        BY <2>4, <3>2
      <4>2. s[Max(t)] \in Nat
        BY <3>2, DomainMax
      <4> QED BY <1>1, <3>2, <4>1, <4>2
    <3> QED BY <3>1, <3>2 DEF Reaches
  <2>6. InactivityFired(c, acc, s) = f[DOMAIN s]
    BY <2>3, Zenon DEF InactivityFired, FoldLeft, MapThenFoldSet
  <2> QED BY <1>4, <2>5, <2>6 DEF EndsValues
<1>6. <<>> \in Seq(Nat) /\ \A s \in Seq(Nat), x \in Nat : Append(s, x) \in Seq(Nat)
  OBVIOUS
<1>7. \A s \in Seq(Nat) : F[s] \in Handled(Rows)
  BY <1>4 DEF IsFold
<1>8. \A s \in Seq(Nat), x \in Nat : F[Append(s, x)] = FireInactivityTimer(c, F[s], x)
  BY <1>1, <1>4, <1>7 DEF IsFold
<1> QED BY <1>4, <1>5, <1>6, <1>7, <1>8 DEF IsFold


-----------------------------------------------------------------------------
(* What a batch does to a lifecycle. *)

\* One timer is registered, that of the lifecycle.
OwnTimer(s) == s.registered = IF s.events = {} THEN {} ELSE {s.timer}

LEMMA InactivityOnce ==
  ASSUME NEW Rows, NEW c \in CustomerIds, NEW a \in Handled(Rows), NEW due \in Nat, OwnTimer(a.state)
  PROVE  LET q == FireInactivity(c, a, due)
             ends == a.state.events # {} /\ a.state.timer < due
         IN /\ ends => q.state = NoActivity /\ q.out = a.out \cup {Snapshot(c, "EXPIRED", {}, a.state)}
            /\ ~ends => q = a
<1> DEFINE s == a.state
           q == FireInactivity(c, a, due)
<1>1. s \in LifecycleStates(Rows) /\ s.timer \in Nat
  BY DEF Handled, LifecycleStates
<1>2. q = InactivityFired(c, a, DueTimers(s.registered, due))
  BY Zenon DEF FireInactivity, InactivityFired
<1>3. InactivityFired(c, a, <<>>) = a
  BY InactivityFold, Zenon
<1>4. ASSUME ~(s.events # {} /\ s.timer < due) PROVE q = a
  <2>1. DueTimers(s.registered, due) = <<>>
    BY <1>1, <1>4, OneDueTimer DEF OwnTimer
  <2> QED BY <1>2, <1>3, <2>1
<1>5. ASSUME s.events # {} /\ s.timer < due
      PROVE  q.state = NoActivity /\ q.out = a.out \cup {Snapshot(c, "EXPIRED", {}, a.state)}
  <2>1. DueTimers(s.registered, due) = Append(<<>>, s.timer)
    BY <1>1, <1>5, OneDueTimer DEF OwnTimer
  <2>2. PICK t \in Nat : t = s.timer
    BY <1>1
  <2>3. q = FireInactivityTimer(c, a, t)
    <3>1. <<>> \in Seq(Nat)
      OBVIOUS
    <3>2. \A z \in Seq(Nat), x \in Nat :
            InactivityFired(c, a, Append(z, x)) = FireInactivityTimer(c, InactivityFired(c, a, z), x)
      BY InactivityFold, SMT
    <3>3. InactivityFired(c, a, Append(<<>>, t)) = FireInactivityTimer(c, InactivityFired(c, a, <<>>), t)
      BY <3>1, <3>2, Zenon
    <3> QED BY <1>2, <1>3, <2>1, <2>2, <3>3, Zenon
  <2>4. FireInactivityTimer(c, a, t) = [state |-> [NoActivity EXCEPT !.registered = a.state.registered \ {t}],
                                        out |-> a.out \cup {Snapshot(c, "EXPIRED", {}, a.state)}]
    <3>1. EndsLifecycle(a.state, t)
      BY <1>5, <2>2 DEF EndsLifecycle
    <3> QED BY <3>1, InactivityTimer
  <2>5. s.registered \ {t} = {}
    BY <1>5, <2>2 DEF OwnTimer
  <2>6. [NoActivity EXCEPT !.registered = {}] = NoActivity
    BY DEF NoActivity
  <2> QED BY <2>3, <2>4, <2>5, <2>6
<1> QED BY <1>4, <1>5

\* What holds of a customer whose rows so far are seen, at watermark w.
LifecycleSound(Rows, s, seen, w) ==
  /\ s \in LifecycleStates(Rows) /\ s.events \subseteq seen /\ OwnTimer(s)
  /\ s.events # {} => s.timer = FloorMillis(Latest(s.events)) + InactivityMillis /\ s.timer >= w
  /\ \A e \in seen \ s.events :
       /\ FloorMillis(e.time) + InactivityMillis < w
       /\ \A h \in s.events : FloorMillis(h.time) >= FloorMillis(e.time) + InactivityMillis

\* The lifecycle after the rows of a batch and before its timers.
Updated(s, rows) == IF rows = {} THEN s ELSE Observe(s, rows)

LEMMA ObservedLifecycle ==
  ASSUME NEW Rows, Timed(Rows), NEW s, NEW seen \in SUBSET Rows, NEW w \in Nat,
         IsFiniteSet(seen), LifecycleSound(Rows, s, seen, w),
         NEW rows \in SUBSET Rows, IsFiniteSet(rows), rows # {}, NEW u, u = Observe(s, rows)
  PROVE  /\ u \in LifecycleStates(Rows) /\ u.events = s.events \cup rows /\ OwnTimer(u)
         /\ u.timer = FloorMillis(Latest(u.events)) + InactivityMillis
<1> DEFINE events == s.events \cup rows
           replacement == FloorMillis(Latest(events)) + InactivityMillis
<1>1. s \in LifecycleStates(Rows) /\ s.events \in SUBSET Rows /\ s.registered \in SUBSET Nat /\ s.timer \in Nat
      /\ s.events \subseteq seen
  BY DEF LifecycleSound, LifecycleStates
<1>2. IsFiniteSet(s.events) /\ IsFiniteSet(events) /\ events \in SUBSET Rows /\ events # {}
      /\ \A e \in events : e.time \in Nat
  BY <1>1, FS_Subset, FS_Union DEF Timed
<1>3. /\ Latest(events) \in Nat /\ \E e \in events : e.time = Latest(events)
      /\ \A e \in events : e.time <= Latest(events)
  BY <1>2, LatestTime
<1>4. /\ Latest(rows) \in Nat /\ \E e \in rows : e.time = Latest(rows)
      /\ \A e \in rows : e.time <= Latest(rows) /\ e.time \in Nat
  <2>1. \A e \in rows : e.time \in Nat
    BY DEF Timed
  <2> QED BY <2>1, LatestTime
<1>5. s.events # {} => /\ Latest(s.events) \in Nat /\ \E e \in s.events : e.time = Latest(s.events)
                       /\ \A e \in s.events : e.time <= Latest(s.events)
  BY <1>1, <1>2, LatestTime
<1>6. replacement \in Nat
  BY <1>3, FloorType, ActivityAssumption
<1>7. CASE s.events # {} /\ Latest(s.events) >= Latest(rows)
  <2>1. u = [s EXCEPT !.events = events]
    BY <1>7 DEF Observe
  <2>2. u \in LifecycleStates(Rows) /\ u.events = events /\ u.timer = s.timer /\ u.registered = s.registered
    BY <1>1, <1>2, <2>1 DEF LifecycleStates
  <2>3. Latest(events) = Latest(s.events)
    <3>1. PICK e \in events : e.time = Latest(events)
      BY <1>3
    <3>2. Latest(events) <= Latest(s.events)
      <4>1. CASE e \in s.events
        BY <1>5, <1>7, <3>1, <4>1
      <4>2. CASE e \in rows
        <5>1. e.time <= Latest(rows) /\ e.time \in Nat
          BY <1>4, <4>2
        <5> QED BY <1>4, <1>5, <1>7, <3>1, <5>1
      <4> QED BY <4>1, <4>2
    <3>3. PICK h \in s.events : h.time = Latest(s.events)
      BY <1>5, <1>7
    <3>4. Latest(s.events) <= Latest(events)
      BY <1>3, <3>3
    <3> QED BY <1>3, <1>5, <1>7, <3>2, <3>4
  <2>4. s.registered = {s.timer} /\ s.timer = FloorMillis(Latest(s.events)) + InactivityMillis
    BY <1>7 DEF LifecycleSound, OwnTimer
  <2> QED BY <1>2, <2>2, <2>3, <2>4 DEF OwnTimer
<1>8. CASE ~(s.events # {} /\ Latest(s.events) >= Latest(rows))
  <2>1. u = [events |-> events, timer |-> replacement,
             registered |-> (s.registered \ {s.timer}) \cup {replacement}]
    BY <1>8 DEF Observe
  <2>2. u \in LifecycleStates(Rows) /\ u.events = events /\ u.timer = replacement
    BY <1>1, <1>2, <1>6, <2>1 DEF LifecycleStates
  <2>3. s.registered \ {s.timer} = {}
    BY DEF LifecycleSound, OwnTimer
  <2>4. u.registered = {replacement}
    BY <2>1, <2>3
  <2> QED BY <1>2, <2>2, <2>4 DEF OwnTimer
<1> QED BY <1>7, <1>8

LEMMA BatchLifecycle ==
  ASSUME NEW Rows, Timed(Rows), NEW c \in CustomerIds,
         NEW s, NEW seen \in SUBSET Rows, NEW w \in Nat, NEW due \in Nat, w <= due,
         IsFiniteSet(seen), LifecycleSound(Rows, s, seen, w),
         NEW rows \in SUBSET Rows, IsFiniteSet(rows), \A e \in rows : e.time > w * Milli
  PROVE  LET u == Updated(s, rows)
             ends == u.events # {} /\ u.timer < due
             q == FireInactivity(c, HandleBatchRows(c, s, rows), due)
         IN /\ u.events = s.events \cup rows
            /\ q.out = (IF rows = {} THEN {} ELSE {Snapshot(c, "UPDATED", rows, u)})
                         \cup (IF ends THEN {Snapshot(c, "EXPIRED", {}, u)} ELSE {})
            /\ q.state.events = IF ends THEN {} ELSE u.events
            /\ LifecycleSound(Rows, q.state, seen \cup rows, due)
<1> DEFINE u == Updated(s, rows)
           ends == u.events # {} /\ u.timer < due
           a == HandleBatchRows(c, s, rows)
           q == FireInactivity(c, a, due)
           out == IF rows = {} THEN {} ELSE {Snapshot(c, "UPDATED", rows, u)}
<1>1. /\ s \in LifecycleStates(Rows) /\ s.events \subseteq seen /\ s.events \in SUBSET Rows
  BY DEF LifecycleSound, LifecycleStates
<1>2. /\ u \in LifecycleStates(Rows) /\ u.events = s.events \cup rows /\ OwnTimer(u)
      /\ u.events # {} => u.timer = FloorMillis(Latest(u.events)) + InactivityMillis
  <2>1. CASE rows = {}
    BY <1>1, <2>1 DEF Updated, LifecycleSound
  <2>2. CASE rows # {}
    <3>1. u = Observe(s, rows)
      BY <2>2 DEF Updated
    <3> HIDE DEF u
    <3> QED BY <2>2, <3>1, ObservedLifecycle
  <2> QED BY <2>1, <2>2
<1> HIDE DEF u
<1>3. a = [state |-> u, out |-> out]
  BY DEF HandleBatchRows, Updated, u
<1>4. a \in Handled(Rows) /\ a.state = u /\ a.out = out
  <2>1. out \in SUBSET Snapshots(Rows)
    BY <1>2, SnapshotTyped
  <2> QED BY <1>2, <1>3, <2>1 DEF Handled
<1>5. /\ ends => q.state = NoActivity /\ q.out = out \cup {Snapshot(c, "EXPIRED", {}, u)}
      /\ ~ends => q.state = u /\ q.out = out
  <2>1. LET p == FireInactivity(c, a, due)
            over == a.state.events # {} /\ a.state.timer < due
        IN /\ over => p.state = NoActivity /\ p.out = a.out \cup {Snapshot(c, "EXPIRED", {}, a.state)}
           /\ ~over => p = a
    BY <1>2, <1>4, InactivityOnce
  <2> QED BY <1>4, <2>1
<1>6. NoActivity.events = {} /\ NoActivity.registered = {} /\ NoActivity \in LifecycleStates(Rows)
  BY NoActivityTyped DEF NoActivity
<1>7. \A e \in seen \cup rows : e.time \in Nat /\ FloorMillis(e.time) \in Nat
  BY FloorType DEF Timed
<1>8. /\ \A e \in (seen \cup rows) \ u.events : e \in seen \ s.events
      /\ \A e \in seen \ s.events : FloorMillis(e.time) + InactivityMillis < w
  BY <1>2 DEF LifecycleSound
<1>9. InactivityMillis \in Nat
  BY ActivityAssumption
<1>10. ASSUME ends PROVE LifecycleSound(Rows, q.state, seen \cup rows, due)
  <2>1. q.state = NoActivity
    BY <1>5, <1>10
  <2>2. ASSUME NEW e \in seen \cup rows PROVE FloorMillis(e.time) + InactivityMillis < due
    <3>1. CASE e \in u.events
      <4>1. IsFiniteSet(u.events)
        BY <1>1, <1>2, FS_Subset, FS_Union
      <4>2. e.time <= Latest(u.events) /\ Latest(u.events) \in Nat
        <5>1. \A x \in u.events : x.time \in Nat
          BY <1>1, <1>2 DEF Timed
        <5> QED BY <3>1, <4>1, <5>1, <1>10, LatestTime
      <4>3. FloorMillis(e.time) <= FloorMillis(Latest(u.events)) /\ FloorMillis(Latest(u.events)) \in Nat
        BY <1>7, <4>2, FloorGrows, FloorType
      <4> QED BY <1>2, <1>7, <1>9, <1>10, <4>3
    <3>2. CASE e \notin u.events
      BY <1>7, <1>8, <1>9, <3>2
    <3> QED BY <3>1, <3>2
  <2> QED BY <1>6, <2>1, <2>2 DEF LifecycleSound, OwnTimer
<1>11. ASSUME ~ends PROVE LifecycleSound(Rows, q.state, seen \cup rows, due)
  <2>1. q.state = u
    BY <1>5, <1>11
  <2>2. u.events # {} => u.timer >= due
    <3>1. u.timer \in Nat
      BY <1>2 DEF LifecycleStates
    <3> QED BY <1>11, <3>1
  <2>3. ASSUME NEW e \in (seen \cup rows) \ u.events
        PROVE  /\ FloorMillis(e.time) + InactivityMillis < due
               /\ \A h \in u.events : FloorMillis(h.time) >= FloorMillis(e.time) + InactivityMillis
    <3>1. e \in seen \ s.events /\ FloorMillis(e.time) + InactivityMillis < w
      BY <1>8
    <3>2. ASSUME NEW h \in rows PROVE FloorMillis(h.time) >= FloorMillis(e.time) + InactivityMillis
      <4>1. FloorMillis(h.time) >= w
        BY <1>7, FloorAbove
      <4> QED BY <1>7, <1>9, <3>1, <4>1
    <3>3. \A h \in s.events : FloorMillis(h.time) >= FloorMillis(e.time) + InactivityMillis
      BY <3>1 DEF LifecycleSound
    <3> QED BY <1>2, <1>7, <1>9, <3>1, <3>2, <3>3
  <2>4. u.events \subseteq seen \cup rows
    BY <1>1, <1>2
  <2> QED BY <1>2, <2>1, <2>2, <2>3, <2>4 DEF LifecycleSound
<1>12. /\ u.events = s.events \cup rows
       /\ q.out = out \cup (IF ends THEN {Snapshot(c, "EXPIRED", {}, u)} ELSE {})
       /\ q.state.events = IF ends THEN {} ELSE u.events
       /\ LifecycleSound(Rows, q.state, seen \cup rows, due)
  BY <1>2, <1>5, <1>6, <1>10, <1>11
<1> QED BY <1>12, Zenon DEF u

-----------------------------------------------------------------------------
(* The application of the lifecycles. *)

\* Each event arrives once, and on its customers the operator is that of the
\* lifecycles.
ActivityOf(Rows, Sources) ==
  /\ KeyedSource(Rows, Sources)
  /\ \A s \in Sources : \A i, j \in 1..Len(s) : i < j => s[i] \cap s[j] = {}
  /\ \A c \in CustomerIds : InitialState[c] = NoActivity
  /\ \A state, late, due : \A rows \in Versions(Rows) : \A r \in Process(state, rows, late, due) :
       \E q \in ActivityBatch(state, rows, late, due) : \A c \in CustomerIds :
         r.state[c] = q.state[c] /\ {f \in r.out : f.key = c} = {f \in q.out : f.key = c}

\* The lifecycle of a customer in batch b before its timers, whether they end
\* it, and what the batch reports of it.
UpdatedIn(b, c) == Updated(StateBefore(b)[c], AcceptedOf(b, c))
EndsIn(b, c) == UpdatedIn(b, c).events # {} /\ UpdatedIn(b, c).timer < Watermark(b)
ReportedIn(b, c) ==
  (IF AcceptedOf(b, c) = {} THEN {} ELSE {Snapshot(c, "UPDATED", AcceptedOf(b, c), UpdatedIn(b, c))})
    \cup (IF EndsIn(b, c) THEN {Snapshot(c, "EXPIRED", {}, UpdatedIn(b, c))} ELSE {})

SoundBefore(Rows, b) ==
  \A c \in CustomerIds : LifecycleSound(Rows, StateBefore(b)[c], SeenOf(b - 1, c), Watermark(b - 1))
SoundAfter(Rows, b) ==
  \A c \in CustomerIds : LifecycleSound(Rows, states[b][c], SeenOf(b, c), Watermark(b))

LEMMA HandledLifecycle ==
  ASSUME NEW Rows, NEW Sources, ActivityOf(Rows, Sources), KeyedInv(Rows, Sources),
         NEW b \in 1..Len(offsets), SoundBefore(Rows, b), NEW c \in CustomerIds,
         NEW q, q = FireInactivity(c, HandleBatchRows(c, StateBefore(b)[c], AcceptedOf(b, c)), Watermark(b))
  PROVE  /\ UpdatedIn(b, c).events = StateBefore(b)[c].events \cup AcceptedOf(b, c)
         /\ q.out = ReportedIn(b, c)
         /\ q.state.events = IF EndsIn(b, c) THEN {} ELSE UpdatedIn(b, c).events
         /\ LifecycleSound(Rows, q.state, SeenOf(b, c), Watermark(b))
<1> DEFINE s == StateBefore(b)[c]
           seen == SeenOf(b - 1, c)
           rows == AcceptedOf(b, c)
           w == Watermark(b - 1)
           due == Watermark(b)
<1>1. KeyedSource(Rows, Sources) /\ Timed(Rows)
  BY DEF ActivityOf, KeyedSource
<1>2. b \in Nat \ {0} /\ w \in Nat /\ due \in Nat /\ w <= due /\ b - 1 \in 0..Len(offsets)
  BY BatchNumbers DEF KeyedInv
<1>3. IsFiniteSet(seen) /\ seen \in SUBSET Rows
  BY <1>1, <1>2, SeenRows
<1>4. IsFiniteSet(rows) /\ rows \in SUBSET Rows /\ \A e \in rows : e.time > w * Milli
  BY <1>1, AcceptedOnTime
<1>5. LifecycleSound(Rows, s, seen, w)
  BY DEF SoundBefore
<1>6. SeenOf(b, c) = seen \cup rows
  BY <1>2, SeenGrows
<1> HIDE DEF s, seen, rows, w, due
<1>7. LET u == Updated(s, rows)
          ends == u.events # {} /\ u.timer < due
          p == FireInactivity(c, HandleBatchRows(c, s, rows), due)
      IN /\ u.events = s.events \cup rows
         /\ p.out = (IF rows = {} THEN {} ELSE {Snapshot(c, "UPDATED", rows, u)})
                      \cup (IF ends THEN {Snapshot(c, "EXPIRED", {}, u)} ELSE {})
         /\ p.state.events = IF ends THEN {} ELSE u.events
         /\ LifecycleSound(Rows, p.state, seen \cup rows, due)
  BY <1>1, <1>2, <1>3, <1>4, <1>5, BatchLifecycle
<1> QED
  BY <1>6, <1>7, Zenon DEF UpdatedIn, EndsIn, ReportedIn, s, seen, rows, w, due

LEMMA ActivityResult ==
  ASSUME NEW Rows, NEW Sources, ActivityOf(Rows, Sources), KeyedInv(Rows, Sources),
         NEW b \in 1..Len(offsets), SoundBefore(Rows, b), NEW r \in Results(b), NEW c \in CustomerIds
  PROVE  /\ UpdatedIn(b, c).events = StateBefore(b)[c].events \cup AcceptedOf(b, c)
         /\ {f \in r.out : f.key = c} = ReportedIn(b, c)
         /\ r.state[c].events = IF EndsIn(b, c) THEN {} ELSE UpdatedIn(b, c).events
         /\ LifecycleSound(Rows, r.state[c], SeenOf(b, c), Watermark(b))
<1> DEFINE handled ==
      [d \in CustomerIds |->
         FireInactivity(d, HandleBatchRows(d, StateBefore(b)[d], AcceptedOf(b, d)), Watermark(b))]
<1>1. Input(b) \in Versions(Rows)
  BY InputInRows DEF KeyedInv, EngineInv
<1>2. r \in Process(StateBefore(b), Input(b), Watermark(b - 1), Watermark(b))
  BY Zenon DEF Results
<1>3. PICK q \in ActivityBatch(StateBefore(b), Input(b), Watermark(b - 1), Watermark(b)) :
        \A d \in CustomerIds :
          r.state[d] = q.state[d] /\ {f \in r.out : f.key = d} = {f \in q.out : f.key = d}
  <2>1. \A rows \in Versions(Rows) : \A p \in Process(StateBefore(b), rows, Watermark(b - 1), Watermark(b)) :
          \E q \in ActivityBatch(StateBefore(b), rows, Watermark(b - 1), Watermark(b)) : \A d \in CustomerIds :
            p.state[d] = q.state[d] /\ {f \in p.out : f.key = d} = {f \in q.out : f.key = d}
    BY DEF ActivityOf
  <2> QED BY <1>1, <1>2, <2>1, Zenon
<1>4. q = [ok |-> TRUE, state |-> [d \in CustomerIds |-> handled[d].state],
           out |-> UNION {handled[d].out : d \in CustomerIds}]
  BY <1>3, Zenon DEF ActivityBatch, AcceptedOf
<1>5. \A d \in CustomerIds :
        /\ UpdatedIn(b, d).events = StateBefore(b)[d].events \cup AcceptedOf(b, d)
        /\ handled[d].out = ReportedIn(b, d)
        /\ handled[d].state.events = IF EndsIn(b, d) THEN {} ELSE UpdatedIn(b, d).events
        /\ LifecycleSound(Rows, handled[d].state, SeenOf(b, d), Watermark(b))
  BY HandledLifecycle
<1> HIDE DEF handled
<1>6. r.state[c] = handled[c].state
  BY <1>3, <1>4
<1>7. {f \in r.out : f.key = c} = ReportedIn(b, c)
  <2>1. \A d \in CustomerIds : \A f \in ReportedIn(b, d) : f.key = d
    BY DEF ReportedIn, Snapshot
  <2>2. q.out = UNION {ReportedIn(b, d) : d \in CustomerIds}
    BY <1>4, <1>5
  <2>3. {f \in q.out : f.key = c} = ReportedIn(b, c)
    BY <2>1, <2>2
  <2> QED BY <1>3, <2>3
<1> QED BY <1>5, <1>6, <1>7

LEMMA BeforeAfter ==
  ASSUME NEW Rows, NEW Sources, ActivityOf(Rows, Sources), KeyedInv(Rows, Sources),
         NEW b \in 1..Len(offsets), b # 1 => SoundAfter(Rows, b - 1)
  PROVE  SoundBefore(Rows, b)
<1>1. CASE b = 1
  <2>1. ASSUME NEW c \in CustomerIds
        PROVE  LifecycleSound(Rows, StateBefore(b)[c], SeenOf(b - 1, c), Watermark(b - 1))
    <3>1. StateBefore(b)[c] = NoActivity
      BY <1>1 DEF StateBefore, ActivityOf
    <3>2. SeenOf(b - 1, c) = {}
      BY <1>1, NothingSeen
    <3>3. LifecycleSound(Rows, NoActivity, {}, Watermark(b - 1))
      BY NoActivityTyped DEF LifecycleSound, OwnTimer, NoActivity
    <3> QED BY <3>1, <3>2, <3>3
  <2> QED BY <2>1 DEF SoundBefore
<1>2. CASE b # 1
  <2>1. StateBefore(b) = states[b - 1]
    BY <1>2, StateOfBatch DEF KeyedInv, EngineInv
  <2> QED BY <1>2, <2>1 DEF SoundBefore, SoundAfter
<1> QED BY <1>1, <1>2

\* The first batch that left an unsound lifecycle would come after one that did not.
LEMMA LifecyclesKept ==
  ASSUME NEW Rows, NEW Sources, ActivityOf(Rows, Sources), KeyedInv(Rows, Sources)
  PROVE  /\ \A b \in DOMAIN states : SoundAfter(Rows, b)
         /\ \A b \in 1..Len(offsets) : SoundBefore(Rows, b)
<1> DEFINE bad == {b \in DOMAIN states : ~SoundAfter(Rows, b)}
<1>1. bad \in SUBSET Nat
  BY StatesOfBatches DEF KeyedInv, EngineInv
<1>2. ASSUME bad # {} PROVE FALSE
  <2>1. PICK n \in bad : \A m \in bad : n <= m
    BY <1>1, <1>2, LeastNumber, Zenon
  <2>2. n \in DOMAIN states /\ n \in Nat \ {0} /\ n \in 1..Len(offsets) /\ (n # 1 => n - 1 \in DOMAIN states)
    BY <2>1, StatesOfBatches DEF KeyedInv, EngineInv
  <2>3. n # 1 => SoundAfter(Rows, n - 1)
    <3>1. n - 1 \notin bad
      BY <2>1, <2>2
    <3> QED BY <2>2, <3>1
  <2>4. SoundBefore(Rows, n)
    BY <2>2, <2>3, BeforeAfter
  <2>5. PICK r \in Results(n) : r.state = states[n]
    BY <2>2 DEF KeyedInv, EngineInv, Traced
  <2>6. SoundAfter(Rows, n)
    BY <2>2, <2>4, <2>5, ActivityResult, Zenon DEF SoundAfter
  <2> QED BY <2>1, <2>6
<1>3. \A b \in DOMAIN states : SoundAfter(Rows, b)
  BY <1>2
<1>4. ASSUME NEW b \in 1..Len(offsets) PROVE SoundBefore(Rows, b)
  <2>1. b # 1 => b - 1 \in DOMAIN states
    BY StateOfBatch DEF KeyedInv, EngineInv
  <2> QED BY <1>3, <2>1, BeforeAfter
<1> QED BY <1>3, <1>4

\* What the table has of a customer.
LEMMA ReportedRows ==
  ASSUME NEW Rows, NEW Sources, ActivityOf(Rows, Sources), KeyedInv(Rows, Sources), ~torn,
         NEW b \in 1..Committed, NEW c \in CustomerIds
  PROVE  /\ RowsOf(b, c) = ReportedIn(b, c)
         /\ UpdatedIn(b, c).events = StateBefore(b)[c].events \cup AcceptedOf(b, c)
         /\ states[b][c].events = IF EndsIn(b, c) THEN {} ELSE UpdatedIn(b, c).events
<1>1. b \in 1..Len(offsets) /\ b \in DOMAIN states
  BY CommittedBatch DEF KeyedInv
<1>2. SoundBefore(Rows, b)
  BY <1>1, LifecyclesKept
<1>3. \A r \in Results(b) : {f \in r.out : f.key = c} = ReportedIn(b, c)
  BY <1>1, <1>2, ActivityResult
<1>4. PICK r \in Results(b) : r.ok /\ r.state = states[b]
  BY <1>1 DEF KeyedInv, EngineInv, Traced
<1>5. RowsOf(b, c) = ReportedIn(b, c)
  BY <1>1, <1>3, RowsOfBatch DEF KeyedInv
<1> QED BY <1>1, <1>2, <1>4, <1>5, ActivityResult

LEMMA AcceptedOnce ==
  ASSUME NEW Rows, NEW Sources, ActivityOf(Rows, Sources), KeyedInv(Rows, Sources),
         NEW b \in 1..Len(offsets), NEW c
  PROVE  AcceptedOf(b, c) \cap SeenOf(b - 1, c) = {}
<1>1. SUFFICES ASSUME NEW a \in 1..(b - 1), NEW e \in AcceptedOf(a, c), e \in AcceptedOf(b, c) PROVE FALSE
  BY DEF SeenOf
<1>2. a \in 1..Len(offsets)
  BY BatchNumbers DEF KeyedInv
<1>3. e \in Input(a) /\ e \in Input(b)
  BY <1>1, <1>2, AcceptedOnTime DEF ActivityOf
<1>4. \E i, j \in 1..Len(source) : i < j /\ e \in source[i] /\ e \in source[j]
  BY <1>3, EarlierVersion DEF KeyedInv
<1> QED BY <1>4 DEF ActivityOf, KeyedInv

\* The events of the lifecycle that batch b leaves open, and what it and the
\* batches before it reported as ended.
Open(b, c) == IF b = 0 THEN {} ELSE states[b][c].events
EndedBy(b, c) == UNION {SnapshotsOf(a, c, "EXPIRED") : a \in 1..b}

InOneLifecycle(b, c) ==
  /\ Open(b, c) \cup UNION {f.events : f \in EndedBy(b, c)} = SeenOf(b, c)
  /\ \A f \in EndedBy(b, c) : f.events \cap Open(b, c) = {}
  /\ \A f, g \in EndedBy(b, c) : f # g => f.events \cap g.events = {}

\* The rows of a customer's last batch that has any up to b, and what follows
\* from them for the lifecycle open after b.
LastRows(b, c) ==
  LET earlier == {a \in 1..b : RowsOf(a, c) # {}}
  IN IF earlier = {} THEN {} ELSE RowsOf(Max(earlier), c)
OpenFollows(b, c) ==
  Open(b, c) = IF \E g \in LastRows(b, c) : g.lifecycle = "EXPIRED" THEN {}
               ELSE UNION {g.events : g \in LastRows(b, c)}

LEMMA OpenBefore ==
  ASSUME NEW Rows, NEW Sources, ActivityOf(Rows, Sources), KeyedInv(Rows, Sources),
         NEW b \in 1..Len(offsets), NEW c \in CustomerIds
  PROVE  StateBefore(b)[c].events = Open(b - 1, c)
<1>1. b \in Nat \ {0}
  BY BatchNumbers DEF KeyedInv
<1>2. CASE b = 1
  BY <1>2 DEF StateBefore, Open, ActivityOf, NoActivity
<1>3. CASE b # 1
  <2>1. StateBefore(b) = states[b - 1] /\ b - 1 # 0
    BY <1>1, <1>3, StateOfBatch DEF KeyedInv, EngineInv
  <2> QED BY <2>1 DEF Open
<1> QED BY <1>2, <1>3

LEMMA ReportsOf ==
  ASSUME NEW Rows, NEW Sources, ActivityOf(Rows, Sources), KeyedInv(Rows, Sources), ~torn,
         NEW b \in 1..Committed, NEW c \in CustomerIds
  PROVE  \E u :
           /\ u.events = Open(b - 1, c) \cup AcceptedOf(b, c)
           /\ Open(b, c) = IF EndsIn(b, c) THEN {} ELSE u.events
           /\ RowsOf(b, c) = SnapshotsOf(b, c, "UPDATED") \cup SnapshotsOf(b, c, "EXPIRED")
           /\ SnapshotsOf(b, c, "UPDATED") =
                IF AcceptedOf(b, c) = {} THEN {} ELSE {Snapshot(c, "UPDATED", AcceptedOf(b, c), u)}
           /\ SnapshotsOf(b, c, "EXPIRED") = IF EndsIn(b, c) THEN {Snapshot(c, "EXPIRED", {}, u)} ELSE {}
<1>1. b \in 1..Len(offsets) /\ b # 0
  BY CommittedBatch DEF KeyedInv
<1>2. PICK u : u = UpdatedIn(b, c)
  OBVIOUS
<1>3. /\ RowsOf(b, c) = ReportedIn(b, c)
      /\ u.events = StateBefore(b)[c].events \cup AcceptedOf(b, c)
      /\ states[b][c].events = IF EndsIn(b, c) THEN {} ELSE u.events
  BY <1>2, ReportedRows
<1>4. u.events = Open(b - 1, c) \cup AcceptedOf(b, c) /\ Open(b, c) = IF EndsIn(b, c) THEN {} ELSE u.events
  BY <1>1, <1>3, OpenBefore DEF Open
<1>5. PICK updated, expired :
        /\ updated = IF AcceptedOf(b, c) = {} THEN {} ELSE {Snapshot(c, "UPDATED", AcceptedOf(b, c), u)}
        /\ expired = IF EndsIn(b, c) THEN {Snapshot(c, "EXPIRED", {}, u)} ELSE {}
  OBVIOUS
<1>6. RowsOf(b, c) = updated \cup expired
  BY <1>2, <1>3, <1>5, Zenon DEF ReportedIn
<1>7. (\A f \in updated : f.lifecycle = "UPDATED") /\ (\A f \in expired : f.lifecycle = "EXPIRED")
  BY <1>5 DEF Snapshot
<1>8. SnapshotsOf(b, c, "UPDATED") = updated /\ SnapshotsOf(b, c, "EXPIRED") = expired
  BY <1>6, <1>7 DEF SnapshotsOf
<1> QED BY <1>4, <1>5, <1>6, <1>8

LEMMA LifecycleStep ==
  ASSUME NEW Rows, NEW Sources, ActivityOf(Rows, Sources), KeyedInv(Rows, Sources), ~torn,
         NEW b \in 1..Committed, NEW c \in CustomerIds, InOneLifecycle(b - 1, c)
  PROVE  InOneLifecycle(b, c)
<1>1. b \in Nat \ {0} /\ b \in 1..Len(offsets)
  BY CommittedBatch DEF KeyedInv
<1>2. PICK u :
        /\ u.events = Open(b - 1, c) \cup AcceptedOf(b, c)
        /\ Open(b, c) = IF EndsIn(b, c) THEN {} ELSE u.events
        /\ SnapshotsOf(b, c, "EXPIRED") = IF EndsIn(b, c) THEN {Snapshot(c, "EXPIRED", {}, u)} ELSE {}
  BY ReportsOf
<1>3. SeenOf(b, c) = SeenOf(b - 1, c) \cup AcceptedOf(b, c) /\ AcceptedOf(b, c) \cap SeenOf(b - 1, c) = {}
  BY <1>1, SeenGrows, AcceptedOnce
<1>4. EndedBy(b, c) = EndedBy(b - 1, c) \cup SnapshotsOf(b, c, "EXPIRED")
  <2>1. 1..b = (1..(b - 1)) \cup {b}
    BY <1>1
  <2> QED BY <2>1 DEF EndedBy
<1>5. Open(b - 1, c) \subseteq SeenOf(b - 1, c) /\ \A f \in EndedBy(b - 1, c) : f.events \subseteq SeenOf(b - 1, c)
  BY DEF InOneLifecycle
<1>6. CASE EndsIn(b, c)
  <2>1. PICK g : g = Snapshot(c, "EXPIRED", {}, u)
    OBVIOUS
  <2>2. g.events = u.events
    BY <2>1 DEF Snapshot
  <2>3. Open(b, c) = {} /\ EndedBy(b, c) = EndedBy(b - 1, c) \cup {g}
    BY <1>2, <1>4, <1>6, <2>1
  <2>4. \A f \in EndedBy(b - 1, c) : f.events \cap g.events = {}
    BY <1>2, <1>3, <1>5, <2>2 DEF InOneLifecycle
  <2>5. UNION {f.events : f \in EndedBy(b, c)} = g.events \cup UNION {f.events : f \in EndedBy(b - 1, c)}
    BY <2>3
  <2>6. Open(b, c) \cup UNION {f.events : f \in EndedBy(b, c)} = SeenOf(b, c)
    BY <1>2, <1>3, <2>2, <2>3, <2>5 DEF InOneLifecycle
  <2>7. \A f, h \in EndedBy(b, c) : f # h => f.events \cap h.events = {}
    BY <2>3, <2>4 DEF InOneLifecycle
  <2> QED BY <2>3, <2>6, <2>7 DEF InOneLifecycle
<1>7. CASE ~EndsIn(b, c)
  <2>1. Open(b, c) = Open(b - 1, c) \cup AcceptedOf(b, c) /\ EndedBy(b, c) = EndedBy(b - 1, c)
    BY <1>2, <1>4, <1>7
  <2>2. \A f \in EndedBy(b, c) : f.events \cap Open(b, c) = {}
    BY <1>3, <1>5, <2>1 DEF InOneLifecycle
  <2> QED BY <1>3, <2>1, <2>2 DEF InOneLifecycle
<1> QED BY <1>6, <1>7

LEMMA OpenStep ==
  ASSUME NEW Rows, NEW Sources, ActivityOf(Rows, Sources), KeyedInv(Rows, Sources), ~torn,
         NEW b \in 1..Committed, NEW c \in CustomerIds, OpenFollows(b - 1, c)
  PROVE  OpenFollows(b, c)
<1>1. b \in Nat \ {0} /\ b \in 1..Len(offsets)
  BY CommittedBatch DEF KeyedInv
<1>2. PICK u :
        /\ u.events = Open(b - 1, c) \cup AcceptedOf(b, c)
        /\ Open(b, c) = IF EndsIn(b, c) THEN {} ELSE u.events
        /\ RowsOf(b, c) = SnapshotsOf(b, c, "UPDATED") \cup SnapshotsOf(b, c, "EXPIRED")
        /\ SnapshotsOf(b, c, "UPDATED") =
             IF AcceptedOf(b, c) = {} THEN {} ELSE {Snapshot(c, "UPDATED", AcceptedOf(b, c), u)}
        /\ SnapshotsOf(b, c, "EXPIRED") = IF EndsIn(b, c) THEN {Snapshot(c, "EXPIRED", {}, u)} ELSE {}
  BY ReportsOf
<1> DEFINE earlier(n) == {a \in 1..n : RowsOf(a, c) # {}}
<1>3. CASE RowsOf(b, c) # {}
  <2>1. LastRows(b, c) = RowsOf(b, c)
    <3>1. b \in earlier(b) /\ earlier(b) \in SUBSET (0..b) /\ earlier(b) # {}
      BY <1>1, <1>3
    <3>2. Max(earlier(b)) \in earlier(b) /\ b <= Max(earlier(b))
      <4> HIDE DEF earlier
      <4> QED BY <1>1, <3>1, BoundedMax
    <3>3. Max(earlier(b)) = b
      <4>1. PICK m : m = Max(earlier(b))
        OBVIOUS
      <4>2. m \in 1..b /\ b <= m
        BY <3>2, <4>1
      <4> QED BY <1>1, <4>1, <4>2
    <3> QED BY <3>1, <3>3, Zenon DEF LastRows
  <2>2. CASE EndsIn(b, c)
    <3>1. Snapshot(c, "EXPIRED", {}, u) \in RowsOf(b, c) /\ Snapshot(c, "EXPIRED", {}, u).lifecycle = "EXPIRED"
      BY <1>2, <2>2 DEF Snapshot
    <3>2. \E g \in LastRows(b, c) : g.lifecycle = "EXPIRED"
      BY <2>1, <3>1
    <3> QED BY <1>2, <2>2, <3>2 DEF OpenFollows
  <2>3. CASE ~EndsIn(b, c)
    <3>1. PICK g : g = Snapshot(c, "UPDATED", AcceptedOf(b, c), u)
      OBVIOUS
    <3>2. g.lifecycle = "UPDATED" /\ g.events = u.events
      BY <3>1 DEF Snapshot
    <3>3. LastRows(b, c) = {g}
      BY <1>2, <1>3, <2>1, <2>3, <3>1
    <3>4. UNION {h.events : h \in LastRows(b, c)} = u.events /\ ~ \E h \in LastRows(b, c) : h.lifecycle = "EXPIRED"
      BY <3>2, <3>3
    <3> QED BY <1>2, <2>3, <3>4 DEF OpenFollows
  <2> QED BY <2>2, <2>3
<1>4. CASE RowsOf(b, c) = {}
  <2>1. earlier(b) = earlier(b - 1)
    <3>1. \A a \in 1..b : a = b \/ a \in 1..(b - 1)
      BY <1>1
    <3>2. \A a \in 1..(b - 1) : a \in 1..b
      BY <1>1
    <3> QED BY <1>4, <3>1, <3>2
  <2>2. LastRows(b, c) = LastRows(b - 1, c)
    BY <2>1, Zenon DEF LastRows
  <2>3. Open(b, c) = Open(b - 1, c)
    BY <1>2, <1>4
  <2> QED BY <2>2, <2>3 DEF OpenFollows
<1> QED BY <1>3, <1>4

LEMMA BatchByBatch ==
  ASSUME NEW Rows, NEW Sources, ActivityOf(Rows, Sources), KeyedInv(Rows, Sources), ~torn,
         NEW c \in CustomerIds
  PROVE  \A b \in 0..Committed : InOneLifecycle(b, c) /\ OpenFollows(b, c)
<1> DEFINE bad == {b \in 0..Committed : ~(InOneLifecycle(b, c) /\ OpenFollows(b, c))}
<1>1. Committed \in Nat
  BY LogTypes DEF KeyedInv, EngineInv, IInv
<1>2. ASSUME bad # {} PROVE FALSE
  <2>1. bad \in SUBSET Nat
    BY <1>1
  <2>2. PICK n \in bad : \A m \in bad : n <= m
    BY <1>2, <2>1, LeastNumber, Zenon
  <2>3. CASE n = 0
    <3>1. 1..0 = {}
      OBVIOUS
    <3>2. EndedBy(0, c) = {} /\ Open(0, c) = {} /\ LastRows(0, c) = {}
      BY <3>1 DEF EndedBy, Open, LastRows
    <3>3. InOneLifecycle(0, c)
      BY <3>2, NothingSeen DEF InOneLifecycle
    <3>4. OpenFollows(0, c)
      BY <3>2 DEF OpenFollows
    <3> QED BY <2>2, <2>3, <3>3, <3>4
  <2>4. CASE n # 0
    <3>1. n \in 1..Committed /\ n - 1 \in 0..Committed /\ ~(n <= n - 1)
      BY <1>1, <2>2, <2>4
    <3>2. n - 1 \notin bad
      BY <2>2, <3>1
    <3>3. InOneLifecycle(n - 1, c) /\ OpenFollows(n - 1, c)
      BY <3>1, <3>2
    <3>4. InOneLifecycle(n, c) /\ OpenFollows(n, c)
      BY <3>1, <3>3, LifecycleStep, OpenStep
    <3> QED BY <2>2, <3>4
  <2> QED BY <2>3, <2>4
<1> QED BY <1>2

LEMMA SoundLifecycles ==
  ASSUME NEW Rows, NEW Sources, ActivityOf(Rows, Sources), KeyedInv(Rows, Sources)
  PROVE  LifecyclesSound
<1>1. EveryEventInOneLifecycle
  <2>1. SUFFICES ASSUME ~torn, NEW b \in 1..Committed, NEW c \in CustomerIds
                 PROVE  /\ states[b][c].events \cup UNION {f.events : f \in EndedBy(b, c)} = SeenOf(b, c)
                        /\ \A f \in EndedBy(b, c) : f.events \cap states[b][c].events = {}
                        /\ \A f, g \in EndedBy(b, c) : f # g => f.events \cap g.events = {}
    BY Zenon DEF EveryEventInOneLifecycle, EndedBy
  <2>2. b \in 0..Committed /\ b # 0
    BY CommittedBatch DEF KeyedInv
  <2>3. InOneLifecycle(b, c) /\ Open(b, c) = states[b][c].events
    BY <2>1, <2>2, BatchByBatch DEF Open
  <2> QED BY <2>3 DEF InOneLifecycle
<1>2. SnapshotsAddUp
  <2>1. SUFFICES ASSUME ~torn, NEW b \in 1..Committed, NEW c \in CustomerIds, NEW f \in SnapshotsOf(b, c, "UPDATED")
                 PROVE  f.events = f.batch \cup (IF \E g \in LastRows(b - 1, c) : g.lifecycle = "EXPIRED" THEN {}
                                                 ELSE UNION {g.events : g \in LastRows(b - 1, c)})
    BY Zenon DEF SnapshotsAddUp, LastRows
  <2>2. b \in Nat \ {0} /\ b - 1 \in 0..Committed
    BY CommittedBatch DEF KeyedInv
  <2>3. PICK u :
          /\ u.events = Open(b - 1, c) \cup AcceptedOf(b, c)
          /\ SnapshotsOf(b, c, "UPDATED") =
               IF AcceptedOf(b, c) = {} THEN {} ELSE {Snapshot(c, "UPDATED", AcceptedOf(b, c), u)}
    BY <2>1, ReportsOf
  <2>4. f.events = u.events /\ f.batch = AcceptedOf(b, c)
    BY <2>3 DEF Snapshot
  <2>5. OpenFollows(b - 1, c)
    BY <2>1, <2>2, BatchByBatch
  <2> QED BY <2>3, <2>4, <2>5 DEF OpenFollows
<1>3. EndsOnlyInactive
  <2>1. DOMAIN states = 1..Len(states)
    BY DEF KeyedInv, EngineInv, Traced, IsSequence
  <2>2. SUFFICES ASSUME NEW b \in DOMAIN states, NEW c \in CustomerIds
                 PROVE  LET s == states[b][c]
                            before == SeenOf(b, c) \ s.events
                        IN /\ \A e \in before, h \in s.events :
                                FloorMillis(h.time) >= FloorMillis(e.time) + InactivityMillis
                           /\ s.registered = IF s.events = {} THEN {} ELSE {s.timer}
                           /\ s.events # {} => s.timer >= Watermark(b)
    BY <2>1, Zenon DEF EndsOnlyInactive
  <2>3. LifecycleSound(Rows, states[b][c], SeenOf(b, c), Watermark(b))
    BY LifecyclesKept DEF SoundAfter
  <2> QED BY <2>3 DEF LifecycleSound, OwnTimer
<1> QED BY <1>1, <1>2, <1>3 DEF LifecyclesSound

\* customer-stateful-processing.md: every accepted event counts in one
\* lifecycle of its customer, which ends by inactivity only, whatever the
\* batches, the order of arrival, the kills and the retries.
THEOREM LifecyclesSoundHolds ==
  ASSUME NEW Rows, NEW Sources, ActivityOf(Rows, Sources)
  PROVE  Spec => []LifecyclesSound
<1>1. KeyedSource(Rows, Sources)
  BY DEF ActivityOf
<1>2. KeyedInv(Rows, Sources) => LifecyclesSound
  BY SoundLifecycles
<1> QED BY <1>1, <1>2, KeyedInvariant, PTL

-----------------------------------------------------------------------------
(* The history of a customer. *)

HistoryStates(Rows) == [events : SUBSET Rows, timer : Nat, registered : SUBSET Nat]

Cleanups(events) == {CleanupTimer(e) : e \in events}
Earliest(events) == IF events = {} THEN NoTimer ELSE Min(Cleanups(events))

LEMMA CleanupTimes ==
  ASSUME NEW Rows, Timed(Rows), NEW e \in Rows
  PROVE  /\ CleanupTimer(e) \in Nat \ {0}
         /\ \A w \in Nat : e.time > w * Milli => CleanupTimer(e) >= w
         /\ \A w \in Nat : CleanupTimer(e) <= w => e.time + AmountWindow <= w * Milli
<1>1. e.time \in Nat /\ AmountWindow \in Nat \ {0} /\ Milli \in Nat \ {0}
  BY WindowsAssumption, EventTimeAssumption DEF Timed
<1>2. PICK n \in Nat : n = e.time + AmountWindow
  BY <1>1
<1>3. CleanupTimer(e) = (n + Milli - 1) \div Milli
  BY <1>2 DEF CleanupTimer, CeilMillis
<1>4. n > 0 /\ n > e.time
  BY <1>1, <1>2
<1>5. (n + Milli - 1) \div Milli \in Nat \ {0}
  BY <1>1, <1>4
<1>6. \A w \in Nat : n > w * Milli => (n + Milli - 1) \div Milli >= w
  BY <1>1
<1>7. \A w \in Nat : (n + Milli - 1) \div Milli <= w => n <= w * Milli
  BY <1>1
<1>8. \A w \in Nat : w * Milli \in Nat
  BY <1>1
<1> QED BY <1>1, <1>2, <1>3, <1>4, <1>5, <1>6, <1>7, <1>8

LEMMA EarliestCleanup ==
  ASSUME NEW Rows, Timed(Rows), NEW events \in SUBSET Rows
  PROVE  /\ Earliest(events) \in Nat /\ (Earliest(events) = NoTimer <=> events = {})
         /\ events # {} => Earliest(events) \in Cleanups(events)
         /\ \A e \in events : Earliest(events) <= CleanupTimer(e)
<1>1. \A e \in events : CleanupTimer(e) \in Nat \ {0}
  BY CleanupTimes
<1>2. CASE events = {}
  BY <1>2 DEF Earliest, NoTimer
<1>3. CASE events # {}
  <2>1. Cleanups(events) \in SUBSET (Nat \ {0}) /\ Cleanups(events) # {}
    BY <1>1, <1>3 DEF Cleanups
  <2>2. PICK m \in Cleanups(events) : \A k \in Cleanups(events) : m <= k
    <3>1. Cleanups(events) \in SUBSET Nat
      BY <2>1
    <3> QED BY <2>1, <3>1, LeastNumber
  <2>3. Min(Cleanups(events)) \in Cleanups(events) /\ \A k \in Cleanups(events) : Min(Cleanups(events)) <= k
    BY <2>2, Zenon DEF Min
  <2>4. Earliest(events) = Min(Cleanups(events))
    BY <1>3 DEF Earliest
  <2>5. \A e \in events : CleanupTimer(e) \in Cleanups(events)
    BY DEF Cleanups
  <2> QED BY <1>3, <2>1, <2>3, <2>4, <2>5 DEF NoTimer
<1> QED BY <1>2, <1>3

\* The stored timer is that of the earliest cleanup, and is the one registered.
OneCleanup(s) == s.timer = Earliest(s.events) /\ s.registered = {s.timer} \ {NoTimer}

LEMMA ScheduledCleanup ==
  ASSUME NEW Rows, Timed(Rows), NEW s \in HistoryStates(Rows)
  PROVE  /\ ScheduleEarliestCleanup(s) \in HistoryStates(Rows)
         /\ ScheduleEarliestCleanup(s).events = s.events
         /\ ScheduleEarliestCleanup(s).timer = Earliest(s.events)
         /\ ScheduleEarliestCleanup(s).registered =
              IF Earliest(s.events) = s.timer THEN s.registered
              ELSE (s.registered \ {s.timer}) \cup ({Earliest(s.events)} \ {NoTimer})
<1>1. s.events \in SUBSET Rows /\ s.timer \in Nat /\ s.registered \in SUBSET Nat
  BY DEF HistoryStates
<1>2. PICK earliest \in Nat : earliest = Earliest(s.events)
  BY <1>1, EarliestCleanup
<1>3. ScheduleEarliestCleanup(s) =
        IF earliest = s.timer THEN s
        ELSE [s EXCEPT !.timer = earliest, !.registered = (s.registered \ {s.timer}) \cup ({earliest} \ {NoTimer})]
  BY <1>2, Zenon DEF ScheduleEarliestCleanup, Earliest, Cleanups
<1>4. CASE earliest = s.timer
  BY <1>2, <1>3, <1>4
<1>5. CASE earliest # s.timer
  <2> DEFINE registered == (s.registered \ {s.timer}) \cup ({earliest} \ {NoTimer})
  <2>1. registered \in SUBSET Nat
    BY <1>1
  <2> HIDE DEF registered
  <2>2. PICK v : v = [s EXCEPT !.timer = earliest, !.registered = registered]
    OBVIOUS
  <2>3. v \in HistoryStates(Rows) /\ v.events = s.events /\ v.timer = earliest /\ v.registered = registered
    BY <2>1, <2>2 DEF HistoryStates
  <2>4. ScheduleEarliestCleanup(s) = v
    BY <1>3, <1>5, <2>2 DEF registered
  <2> QED BY <1>2, <1>5, <2>3, <2>4 DEF registered
<1> QED BY <1>4, <1>5

\* Of the stored timer, what is due is removed, and the next cleanup scheduled.
Kept(events, through) == {e \in events : CleanupTimer(e) > through}

LEMMA CleanupFires ==
  ASSUME NEW Rows, Timed(Rows), NEW s \in HistoryStates(Rows), NEW t \in Nat, NEW due \in Nat
  PROVE  /\ FireTimer(s, t, due) \in HistoryStates(Rows)
         /\ s.timer = t /\ t < due =>
              /\ FireTimer(s, t, due).events = Kept(s.events, due)
              /\ FireTimer(s, t, due).timer = Earliest(Kept(s.events, due))
              /\ FireTimer(s, t, due).registered =
                   (IF Earliest(Kept(s.events, due)) = NoTimer THEN s.registered
                    ELSE (s.registered \ {NoTimer}) \cup ({Earliest(Kept(s.events, due))} \ {NoTimer})) \ {t}
<1>1. s.events \in SUBSET Rows /\ s.timer \in Nat /\ s.registered \in SUBSET Nat
  BY DEF HistoryStates
<1>2. PICK through : through = Max({t, due})
  OBVIOUS
<1> DEFINE pruned == [s EXCEPT !.events = Kept(s.events, through), !.timer = NoTimer]
           next == ScheduleEarliestCleanup(pruned)
<1>3. pruned \in HistoryStates(Rows) /\ pruned.events = Kept(s.events, through) /\ pruned.timer = NoTimer
      /\ pruned.registered = s.registered
  BY <1>1 DEF HistoryStates, Kept, NoTimer
<1>4. HandleExpiredTimer(s, t, due) = IF s.timer # t THEN s ELSE next
  BY <1>2, Zenon DEF HandleExpiredTimer, Kept
<1>5. /\ next \in HistoryStates(Rows) /\ next.events = Kept(s.events, through)
      /\ next.timer = Earliest(Kept(s.events, through))
      /\ next.registered = IF Earliest(Kept(s.events, through)) = NoTimer THEN s.registered
                           ELSE (s.registered \ {NoTimer}) \cup ({Earliest(Kept(s.events, through))} \ {NoTimer})
  <2> HIDE DEF pruned
  <2> QED BY <1>3, ScheduledCleanup
<1> HIDE DEF next
<1>6. FireTimer(s, t, due) = [(IF s.timer # t THEN s ELSE next) EXCEPT !.registered = @ \ {t}]
  BY <1>4 DEF FireTimer
<1>7. FireTimer(s, t, due) \in HistoryStates(Rows)
  <2>1. PICK v \in HistoryStates(Rows) : v = IF s.timer # t THEN s ELSE next
    BY <1>5
  <2>2. [v EXCEPT !.registered = @ \ {t}] \in HistoryStates(Rows)
    BY DEF HistoryStates
  <2> QED BY <1>6, <2>1, <2>2
<1>8. ASSUME s.timer = t, t < due
      PROVE  /\ FireTimer(s, t, due).events = Kept(s.events, due)
             /\ FireTimer(s, t, due).timer = Earliest(Kept(s.events, due))
             /\ FireTimer(s, t, due).registered =
                  (IF Earliest(Kept(s.events, due)) = NoTimer THEN s.registered
                   ELSE (s.registered \ {NoTimer}) \cup ({Earliest(Kept(s.events, due))} \ {NoTimer})) \ {t}
  <2>1. through = due
    <3>1. {t, due} \in SUBSET Int /\ {t, due} # {} /\ IsFiniteSet({t, due})
      <4>1. IsFiniteSet({t} \cup {due})
        BY FS_Singleton, FS_AddElement
      <4>2. {t} \cup {due} = {t, due}
        OBVIOUS
      <4> QED BY <4>1, <4>2
    <3>2. through \in {t, due} /\ due <= through
      BY <1>2, <3>1, FiniteMax
    <3> QED BY <1>8, <3>2
  <2>2. FireTimer(s, t, due) = [next EXCEPT !.registered = @ \ {t}]
    BY <1>6, <1>8
  <2>3. /\ FireTimer(s, t, due).events = next.events /\ FireTimer(s, t, due).timer = next.timer
        /\ FireTimer(s, t, due).registered = next.registered \ {t}
    BY <1>5, <2>2 DEF HistoryStates
  <2> QED BY <1>5, <2>1, <2>3
<1> QED BY <1>7, <1>8

TimersFired(s, due, timers) == FoldLeft(LAMBDA acc, t : FireTimer(acc, t, due), s, timers)

\* One timer after the other.
LEMMA CleanupFold ==
  ASSUME NEW Rows, Timed(Rows), NEW start \in HistoryStates(Rows), NEW due \in Nat
  PROVE  /\ TimersFired(start, due, <<>>) = start
         /\ \A s \in Seq(Nat) : TimersFired(start, due, s) \in HistoryStates(Rows)
         /\ \A s \in Seq(Nat), x \in Nat : TimersFired(start, due, Append(s, x)) = FireTimer(TimersFired(start, due, s), x, due)
<1> DEFINE h == [p \in HistoryStates(Rows) \X Nat |-> FireTimer(p[1], p[2], due)]
<1>1. /\ h \in [HistoryStates(Rows) \X Nat -> HistoryStates(Rows)]
      /\ \A a \in HistoryStates(Rows), x \in Nat : h[<<a, x>>] = FireTimer(a, x, due)
  BY CleanupFires
<1> HIDE DEF h
<1>2. start \in HistoryStates(Rows)
  OBVIOUS
<1>3. HasValues(HistoryStates(Rows), Nat, h, start)
      /\ \E F : IsFold(HistoryStates(Rows), Nat, h, start, F) /\ EndsValues(HistoryStates(Rows), Nat, h, start, F)
  BY <1>1, <1>2, FoldRuns
<1>4. PICK F : IsFold(HistoryStates(Rows), Nat, h, start, F) /\ EndsValues(HistoryStates(Rows), Nat, h, start, F)
  BY <1>3
<1>5. ASSUME NEW s \in Seq(Nat) PROVE TimersFired(start, due, s) = F[s]
  <2> DEFINE unroll(g) ==
        [t \in SUBSET (DOMAIN s) |->
           IF t = {} THEN start ELSE FireTimer(g[t \ {Max(t)}], s[Max(t)], due)]
  <2>1. PICK g \in [SUBSET (DOMAIN s) -> HistoryStates(Rows)] : Values(h, start, s, g)
    BY <1>3 DEF HasValues
  <2>2. g = unroll(g)
    <3>1. \A t \in SUBSET (DOMAIN s) :
            t # {} => h[<<g[t \ {Max(t)}], s[Max(t)]>>] = FireTimer(g[t \ {Max(t)}], s[Max(t)], due)
      BY <1>1, <2>1, DomainMax
    <3> QED BY <2>1, <3>1 DEF Values
  <2>3. PICK f : f = CHOOSE e : e = unroll(e)
    OBVIOUS
  <2>4. f = unroll(f)
    BY <2>2, <2>3, Zenon
  <2>5. Reaches(HistoryStates(Rows), h, start, s, f)
    <3>1. f[{}] = start
      BY <2>4
    <3>2. ASSUME NEW t \in SUBSET (DOMAIN s), t # {}, f[t \ {Max(t)}] \in HistoryStates(Rows)
          PROVE  f[t] = h[<<f[t \ {Max(t)}], s[Max(t)]>>]
      <4>1. f[t] = FireTimer(f[t \ {Max(t)}], s[Max(t)], due)
        BY <2>4, <3>2
      <4>2. s[Max(t)] \in Nat
        BY <3>2, DomainMax
      <4> QED BY <1>1, <3>2, <4>1, <4>2
    <3> QED BY <3>1, <3>2 DEF Reaches
  <2>6. TimersFired(start, due, s) = f[DOMAIN s]
    BY <2>3, Zenon DEF TimersFired, FoldLeft, MapThenFoldSet
  <2> QED BY <1>4, <2>5, <2>6 DEF EndsValues
<1>6. <<>> \in Seq(Nat) /\ \A s \in Seq(Nat), x \in Nat : Append(s, x) \in Seq(Nat)
  OBVIOUS
<1>7. \A s \in Seq(Nat) : F[s] \in HistoryStates(Rows)
  BY <1>4 DEF IsFold
<1>8. \A s \in Seq(Nat), x \in Nat : F[Append(s, x)] = FireTimer(F[s], x, due)
  BY <1>1, <1>4, <1>7 DEF IsFold
<1> QED BY <1>4, <1>5, <1>6, <1>7, <1>8 DEF IsFold

\* The features a row can have.
FeatureRows(Rows) == {Features(history, e) : history \in SUBSET Rows, e \in Rows}
PeerStates(Rows, rows) == [rows : {rows}, events : SUBSET Rows, out : SUBSET FeatureRows(Rows)]

LEMMA PeersHandled ==
  ASSUME NEW Rows, NEW rows \in SUBSET Rows, NEW a \in PeerStates(Rows, rows), NEW t
  PROVE  /\ HandlePeers(a, t) \in PeerStates(Rows, rows)
         /\ HandlePeers(a, t).events = a.events \cup {e \in rows : e.time = t}
         /\ HandlePeers(a, t).out = a.out \cup {Features(a.events, e) : e \in {r \in rows : r.time = t}}
<1> DEFINE peers == {e \in rows : e.time = t}
           out == {Features(a.events, e) : e \in peers}
<1>1. a.rows = rows /\ a.events \in SUBSET Rows /\ a.out \in SUBSET FeatureRows(Rows)
  BY DEF PeerStates
<1>2. out \in SUBSET FeatureRows(Rows) /\ peers \in SUBSET Rows
  BY <1>1 DEF FeatureRows
<1>3. HandlePeers(a, t) = [a EXCEPT !.out = a.out \cup out, !.events = a.events \cup peers]
  BY <1>1, Zenon DEF HandlePeers
<1> HIDE DEF peers, out
<1>4. /\ HandlePeers(a, t) \in PeerStates(Rows, rows)
      /\ HandlePeers(a, t).events = a.events \cup peers /\ HandlePeers(a, t).out = a.out \cup out
  BY <1>1, <1>2, <1>3 DEF PeerStates
<1> QED BY <1>4 DEF peers, out

RowsHandled(start, times) == FoldLeft(HandlePeers, start, times)

\* The rows of one time after those of another.
LEMMA PeersFold ==
  ASSUME NEW Rows, NEW rows \in SUBSET Rows, NEW start \in PeerStates(Rows, rows)
  PROVE  /\ RowsHandled(start, <<>>) = start
         /\ \A s \in Seq(Nat) : RowsHandled(start, s) \in PeerStates(Rows, rows)
         /\ \A s \in Seq(Nat), x \in Nat : RowsHandled(start, Append(s, x)) = HandlePeers(RowsHandled(start, s), x)
<1> DEFINE h == [p \in PeerStates(Rows, rows) \X Nat |-> HandlePeers(p[1], p[2])]
<1>1. /\ h \in [PeerStates(Rows, rows) \X Nat -> PeerStates(Rows, rows)]
      /\ \A a \in PeerStates(Rows, rows), x \in Nat : h[<<a, x>>] = HandlePeers(a, x)
  BY PeersHandled
<1> HIDE DEF h
<1>2. start \in PeerStates(Rows, rows)
  OBVIOUS
<1>3. HasValues(PeerStates(Rows, rows), Nat, h, start)
      /\ \E F : IsFold(PeerStates(Rows, rows), Nat, h, start, F) /\ EndsValues(PeerStates(Rows, rows), Nat, h, start, F)
  BY <1>1, <1>2, FoldRuns
<1>4. PICK F : IsFold(PeerStates(Rows, rows), Nat, h, start, F) /\ EndsValues(PeerStates(Rows, rows), Nat, h, start, F)
  BY <1>3
<1>5. ASSUME NEW s \in Seq(Nat) PROVE RowsHandled(start, s) = F[s]
  <2> DEFINE unroll(g) ==
        [t \in SUBSET (DOMAIN s) |->
           IF t = {} THEN start ELSE HandlePeers(g[t \ {Max(t)}], s[Max(t)])]
  <2>1. PICK g \in [SUBSET (DOMAIN s) -> PeerStates(Rows, rows)] : Values(h, start, s, g)
    BY <1>3 DEF HasValues
  <2>2. g = unroll(g)
    <3>1. \A t \in SUBSET (DOMAIN s) :
            t # {} => h[<<g[t \ {Max(t)}], s[Max(t)]>>] = HandlePeers(g[t \ {Max(t)}], s[Max(t)])
      BY <1>1, <2>1, DomainMax
    <3> QED BY <2>1, <3>1 DEF Values
  <2>3. PICK f : f = CHOOSE e : e = unroll(e)
    OBVIOUS
  <2>4. f = unroll(f)
    BY <2>2, <2>3, Zenon
  <2>5. Reaches(PeerStates(Rows, rows), h, start, s, f)
    <3>1. f[{}] = start
      BY <2>4
    <3>2. ASSUME NEW t \in SUBSET (DOMAIN s), t # {}, f[t \ {Max(t)}] \in PeerStates(Rows, rows)
          PROVE  f[t] = h[<<f[t \ {Max(t)}], s[Max(t)]>>]
      <4>1. f[t] = HandlePeers(f[t \ {Max(t)}], s[Max(t)])
        BY <2>4, <3>2
      <4>2. s[Max(t)] \in Nat
        BY <3>2, DomainMax
      <4> QED BY <1>1, <3>2, <4>1, <4>2
    <3> QED BY <3>1, <3>2 DEF Reaches
  <2>6. RowsHandled(start, s) = f[DOMAIN s]
    BY <2>3, Zenon DEF RowsHandled, FoldLeft, MapThenFoldSet
  <2> QED BY <1>4, <2>5, <2>6 DEF EndsValues
<1>6. <<>> \in Seq(Nat) /\ \A s \in Seq(Nat), x \in Nat : Append(s, x) \in Seq(Nat)
  OBVIOUS
<1>7. \A s \in Seq(Nat) : F[s] \in PeerStates(Rows, rows)
  BY <1>4 DEF IsFold
<1>8. \A s \in Seq(Nat), x \in Nat : F[Append(s, x)] = HandlePeers(F[s], x)
  BY <1>1, <1>4, <1>7 DEF IsFold
<1> QED BY <1>4, <1>5, <1>6, <1>7, <1>8 DEF IsFold

LEMMA CleanupOnce ==
  ASSUME NEW Rows, Timed(Rows), NEW s \in HistoryStates(Rows), NEW due \in Nat, OneCleanup(s),
         NEW q, q = FireTimers(s, due)
  PROVE  /\ q \in HistoryStates(Rows) /\ OneCleanup(q)
         /\ q.events = IF s.events # {} /\ s.timer < due THEN Kept(s.events, due) ELSE s.events
<1>1. s.events \in SUBSET Rows /\ s.timer \in Nat
  BY DEF HistoryStates
<1>2. q = TimersFired(s, due, DueTimers(s.registered, due))
  BY Zenon DEF FireTimers, TimersFired
<1>3. TimersFired(s, due, <<>>) = s
  BY CleanupFold, Zenon
<1>4. s.timer = NoTimer <=> s.events = {}
  BY <1>1, EarliestCleanup DEF OneCleanup
<1>5. CASE ~(s.events # {} /\ s.timer < due)
  <2>1. s.registered = {} \/ (s.registered = {s.timer} /\ ~(s.timer < due))
    BY <1>4, <1>5 DEF OneCleanup
  <2>2. DueTimers(s.registered, due) = <<>>
    BY <1>1, <2>1, OneDueTimer
  <2>3. q = s
    BY <1>2, <1>3, <2>2
  <2> QED BY <1>5, <2>3
<1>6. CASE s.events # {} /\ s.timer < due
  <2>1. PICK t \in Nat : t = s.timer
    BY <1>1
  <2>2. s.registered = {t} /\ t < due /\ t # NoTimer
    BY <1>4, <1>6, <2>1 DEF OneCleanup
  <2>3. DueTimers(s.registered, due) = Append(<<>>, t)
    BY <2>2, OneDueTimer
  <2>4. q = FireTimer(s, t, due)
    <3>1. <<>> \in Seq(Nat)
      OBVIOUS
    <3>2. \A z \in Seq(Nat), x \in Nat :
            TimersFired(s, due, Append(z, x)) = FireTimer(TimersFired(s, due, z), x, due)
      BY CleanupFold, SMT
    <3>3. TimersFired(s, due, Append(<<>>, t)) = FireTimer(TimersFired(s, due, <<>>), t, due)
      BY <3>1, <3>2, Zenon
    <3> QED BY <1>2, <1>3, <2>3, <3>3, Zenon
  <2>5. PICK kept : kept = Kept(s.events, due)
    OBVIOUS
  <2>6. /\ q \in HistoryStates(Rows) /\ q.events = kept /\ q.timer = Earliest(kept)
        /\ q.registered = (IF Earliest(kept) = NoTimer THEN s.registered
                           ELSE (s.registered \ {NoTimer}) \cup ({Earliest(kept)} \ {NoTimer})) \ {t}
    BY <2>1, <2>2, <2>4, <2>5, CleanupFires
  <2>7. Earliest(kept) # NoTimer => Earliest(kept) # t
    <3>1. kept \in SUBSET Rows /\ \A e \in kept : CleanupTimer(e) > due
      BY <1>1, <2>5 DEF Kept
    <3>2. Earliest(kept) # NoTimer => Earliest(kept) \in Cleanups(kept)
      BY <3>1, EarliestCleanup
    <3> QED BY <2>2, <3>1, <3>2 DEF Cleanups
  <2>8. q.registered = {Earliest(kept)} \ {NoTimer}
    BY <2>2, <2>6, <2>7
  <2> QED BY <1>6, <2>5, <2>6, <2>8 DEF OneCleanup
<1> QED BY <1>5, <1>6

\* The history that the rows of the i-th time read.
Until(events, rows, times, i) == events \cup {h \in rows : \E j \in 1..(i - 1) : h.time = times[j]}
FeaturesAt(events, rows, times, i) ==
  {Features(Until(events, rows, times, i), e) : e \in {r \in rows : r.time = times[i]}}

\* After the rows of these times, the history is theirs too, and they have their features.
TimesDone(start, rows, times) ==
  /\ RowsHandled(start, times).events = Until(start.events, rows, times, Len(times) + 1)
  /\ RowsHandled(start, times).out = UNION {FeaturesAt(start.events, rows, times, i) : i \in 1..Len(times)}

LEMMA HandledTimes ==
  ASSUME NEW Rows, NEW rows \in SUBSET Rows, NEW start \in PeerStates(Rows, rows), start.out = {}
  PROVE  \A times \in Seq(Nat) : TimesDone(start, rows, times)
<1> DEFINE S == {times \in Seq(Nat) : TimesDone(start, rows, times)}
<1>1. <<>> \in S
  <2>1. <<>> \in Seq(Nat) /\ Len(<<>>) = 0 /\ 1..0 = {}
    OBVIOUS
  <2>2. RowsHandled(start, <<>>) = start
    BY PeersFold, Zenon
  <2>3. Until(start.events, rows, <<>>, Len(<<>>) + 1) = start.events
    BY <2>1 DEF Until
  <2>4. TimesDone(start, rows, <<>>)
    BY <2>1, <2>2, <2>3 DEF TimesDone
  <2> QED BY <2>1, <2>4
<1>2. ASSUME NEW s \in Seq(Nat), NEW x \in Nat, s \in S PROVE Append(s, x) \in S
  <2>1. PICK r : r = Append(s, x)
    OBVIOUS
  <2>2. /\ r \in Seq(Nat) /\ Len(r) = Len(s) + 1 /\ Len(s) \in Nat /\ r[Len(s) + 1] = x
        /\ \A i \in 1..Len(s) : r[i] = s[i]
    BY <2>1
  <2>3. PICK a : a = RowsHandled(start, s)
    OBVIOUS
  <2>4. a \in PeerStates(Rows, rows) /\ RowsHandled(start, r) = HandlePeers(a, x)
    <3>1. /\ \A z \in Seq(Nat) : RowsHandled(start, z) \in PeerStates(Rows, rows)
          /\ \A z \in Seq(Nat), y \in Nat : RowsHandled(start, Append(z, y)) = HandlePeers(RowsHandled(start, z), y)
      BY PeersFold, SMT
    <3> QED BY <2>1, <2>3, <3>1, Zenon
  <2>5. /\ a.events = Until(start.events, rows, s, Len(s) + 1)
        /\ a.out = UNION {FeaturesAt(start.events, rows, s, i) : i \in 1..Len(s)}
    BY <1>2, <2>3 DEF TimesDone
  <2>6. /\ RowsHandled(start, r).events = a.events \cup {e \in rows : e.time = x}
        /\ RowsHandled(start, r).out = a.out \cup {Features(a.events, e) : e \in {q \in rows : q.time = x}}
    BY <2>4, PeersHandled
  <2>7. \A i \in 1..(Len(s) + 1) : Until(start.events, rows, r, i) = Until(start.events, rows, s, i)
    <3>1. \A i \in 1..(Len(s) + 1) : \A j \in 1..(i - 1) : r[j] = s[j]
      BY <2>2
    <3> QED BY <3>1 DEF Until
  <2>8. Until(start.events, rows, r, Len(r) + 1) = a.events \cup {e \in rows : e.time = x}
    <3>1. \A j : j \in 1..(Len(r) + 1 - 1) <=> j \in 1..Len(s) \/ j = Len(s) + 1
      BY <2>2
    <3>2. a.events = start.events \cup {h \in rows : \E j \in 1..Len(s) : h.time = s[j]}
      <4>1. Len(s) + 1 - 1 = Len(s)
        BY <2>2
      <4> QED BY <2>5, <4>1 DEF Until
    <3>3. {h \in rows : \E j \in 1..(Len(r) + 1 - 1) : h.time = r[j]}
            = {h \in rows : \E j \in 1..Len(s) : h.time = s[j]} \cup {e \in rows : e.time = x}
      BY <2>2, <3>1
    <3>4. Until(start.events, rows, r, Len(r) + 1)
            = start.events \cup {h \in rows : \E j \in 1..(Len(r) + 1 - 1) : h.time = r[j]}
      BY DEF Until
    <3>5. PICK A, B, C : A = start.events /\ B = {h \in rows : \E j \in 1..Len(s) : h.time = s[j]}
                        /\ C = {e \in rows : e.time = x}
      OBVIOUS
    <3>6. Until(start.events, rows, r, Len(r) + 1) = A \cup (B \cup C) /\ a.events = A \cup B
      BY <3>2, <3>3, <3>4, <3>5, Zenon
    <3>7. A \cup (B \cup C) = (A \cup B) \cup C
      OBVIOUS
    <3> QED BY <3>5, <3>6, <3>7, Zenon
  <2>9. \A i \in 1..Len(s) : FeaturesAt(start.events, rows, r, i) = FeaturesAt(start.events, rows, s, i)
    <3>1. \A i \in 1..Len(s) : r[i] = s[i] /\ i \in 1..(Len(s) + 1)
      BY <2>2
    <3> QED BY <2>7, <3>1, Zenon DEF FeaturesAt
  <2>10. FeaturesAt(start.events, rows, r, Len(s) + 1) = {Features(a.events, e) : e \in {q \in rows : q.time = x}}
    <3>1. Len(s) + 1 \in 1..(Len(s) + 1)
      BY <2>2
    <3>2. Until(start.events, rows, r, Len(s) + 1) = a.events
      BY <2>5, <2>7, <3>1
    <3> QED BY <2>2, <3>2, Zenon DEF FeaturesAt
  <2>11. RowsHandled(start, r).out = UNION {FeaturesAt(start.events, rows, r, i) : i \in 1..Len(r)}
    <3>1. 1..Len(r) = (1..Len(s)) \cup {Len(s) + 1}
      BY <2>2
    <3>2. UNION {FeaturesAt(start.events, rows, r, i) : i \in 1..Len(r)}
            = FeaturesAt(start.events, rows, r, Len(s) + 1) \cup UNION {FeaturesAt(start.events, rows, r, i) : i \in 1..Len(s)}
      BY <3>1
    <3>3. UNION {FeaturesAt(start.events, rows, r, i) : i \in 1..Len(s)} = a.out
      BY <2>5, <2>9
    <3> QED BY <2>6, <2>10, <3>2, <3>3
  <2> HIDE DEF S
  <2>12. TimesDone(start, rows, r)
    BY <2>6, <2>8, <2>11 DEF TimesDone
  <2> QED BY <2>1, <2>2, <2>12 DEF S
<1>3. Seq(Nat) \subseteq S
  <2> HIDE DEF S
  <2> QED BY <1>1, <1>2, AllSequences
<1> QED BY <1>3

\* Each row reads the history and the earlier rows.
HandledOut(events, rows) == {Features(events \cup {h \in rows : h.time < e.time}, e) : e \in rows}

LEMMA HandledRows ==
  ASSUME NEW Rows, Timed(Rows), NEW s \in HistoryStates(Rows), NEW rows \in SUBSET Rows, IsFiniteSet(rows)
  PROVE  /\ HandleInputRows(s, rows).out = HandledOut(s.events, rows)
         /\ HandleInputRows(s, rows).state =
              IF rows = {} THEN s ELSE ScheduleEarliestCleanup([s EXCEPT !.events = s.events \cup rows])
<1> DEFINE start == [rows |-> rows, events |-> s.events, out |-> {}]
           times == InOrder(Times(rows), Earlier)
           done == RowsHandled(start, times)
<1>1. start \in PeerStates(Rows, rows) /\ start.out = {} /\ start.events = s.events
  BY DEF PeerStates, HistoryStates
<1>2. /\ times \in [1..Cardinality(Times(rows)) -> Times(rows)] /\ {times[i] : i \in DOMAIN times} = Times(rows)
      /\ \A i, j \in DOMAIN times : i < j => times[i] < times[j]
  <2> DEFINE f == [e \in rows |-> e.time]
  <2>1. Times(rows) = {f[e] : e \in rows} /\ DOMAIN f = rows
    BY DEF Times
  <2>2. IsFiniteSet(Times(rows))
    <3> HIDE DEF f
    <3> QED BY <2>1, ImageFinite
  <2>3. Times(rows) \in SUBSET Int
    BY DEF Times, Timed
  <2> QED BY <2>2, <2>3, InTimeOrder, Zenon
<1>3. IsFiniteSet(Times(rows)) /\ Times(rows) \in SUBSET Nat
  <2> DEFINE f == [e \in rows |-> e.time]
  <2>1. Times(rows) = {f[e] : e \in rows} /\ DOMAIN f = rows
    BY DEF Times
  <2>2. IsFiniteSet(Times(rows))
    <3> HIDE DEF f
    <3> QED BY <2>1, ImageFinite
  <2> QED BY <2>2 DEF Times, Timed
<1> HIDE DEF times
<1>4. PICK n \in Nat : n = Cardinality(Times(rows))
  BY <1>3, FS_CardinalityType
<1>5. times \in Seq(Nat) /\ Len(times) = n /\ DOMAIN times = 1..n
  BY <1>2, <1>3, <1>4
<1>6. /\ \A e \in rows : \E i \in 1..n : times[i] = e.time
      /\ \A i \in 1..n : \E e \in rows : times[i] = e.time
  <2>1. Times(rows) = {e.time : e \in rows}
    BY DEF Times
  <2> QED BY <1>2, <1>5, <2>1
<1>7. HandleInputRows(s, rows) =
        [state |-> IF rows = {} THEN s ELSE ScheduleEarliestCleanup([s EXCEPT !.events = done.events]),
         out |-> done.out]
  BY Zenon DEF HandleInputRows, RowsHandled, times
<1>8. /\ done.events = Until(s.events, rows, times, n + 1)
      /\ done.out = UNION {FeaturesAt(s.events, rows, times, i) : i \in 1..n}
  <2> HIDE DEF start
  <2>1. \A z \in Seq(Nat) : TimesDone(start, rows, z)
    BY <1>1, HandledTimes
  <2>2. TimesDone(start, rows, times)
    BY <1>5, <2>1
  <2> QED BY <1>1, <1>5, <2>2, Zenon DEF TimesDone
<1> HIDE DEF done
<1>9. done.events = s.events \cup rows
  <2>1. n + 1 - 1 = n
    OBVIOUS
  <2>2. {h \in rows : \E j \in 1..n : h.time = times[j]} = rows
    BY <1>6
  <2> QED BY <1>8, <2>1, <2>2 DEF Until
<1>10. ASSUME NEW i \in 1..n, NEW e \in rows, times[i] = e.time
       PROVE  Until(s.events, rows, times, i) = s.events \cup {h \in rows : h.time < e.time}
  <2>1. ASSUME NEW h \in rows PROVE (\E j \in 1..(i - 1) : h.time = times[j]) <=> h.time < e.time
    <3>1. ASSUME NEW j \in 1..(i - 1), h.time = times[j] PROVE h.time < e.time
      <4>1. i \in DOMAIN times /\ j \in DOMAIN times /\ j < i
        BY <1>5
      <4>2. times[j] < times[i]
        BY <1>2, <4>1
      <4> QED BY <1>10, <3>1, <4>2
    <3>2. ASSUME h.time < e.time PROVE \E j \in 1..(i - 1) : h.time = times[j]
      <4>1. PICK j \in 1..n : times[j] = h.time
        BY <1>6
      <4>2. j < i
        <5>1. i < j => times[i] < times[j]
          BY <1>2, <1>5
        <5>2. h.time \in Nat /\ e.time \in Nat
          BY DEF Timed
        <5> QED BY <1>10, <3>2, <4>1, <5>1, <5>2
      <4> QED BY <4>1, <4>2
    <3> QED BY <3>1, <3>2
  <2>2. {h \in rows : \E j \in 1..(i - 1) : h.time = times[j]} = {h \in rows : h.time < e.time}
    BY <2>1
  <2> QED BY <2>2, Zenon DEF Until
<1> DEFINE row(e) == Features(s.events \cup {h \in rows : h.time < e.time}, e)
<1>11. \A i \in 1..n : FeaturesAt(s.events, rows, times, i) = {row(e) : e \in {r \in rows : r.time = times[i]}}
  <2>1. ASSUME NEW i \in 1..n, NEW e \in {r \in rows : r.time = times[i]}
        PROVE  Features(Until(s.events, rows, times, i), e) = row(e)
    <3>1. Until(s.events, rows, times, i) = s.events \cup {h \in rows : h.time < e.time}
      BY <1>10
    <3> QED BY <3>1, Zenon
  <2> HIDE DEF row
  <2> QED BY <2>1, Zenon DEF FeaturesAt
<1> HIDE DEF row
<1>12. done.out = {row(e) : e \in rows}
  <2>1. \A i \in 1..n : \A f \in FeaturesAt(s.events, rows, times, i) : \E e \in rows : f = row(e)
    BY <1>11
  <2>2. \A e \in rows : \E i \in 1..n : row(e) \in FeaturesAt(s.events, rows, times, i)
    BY <1>6, <1>11
  <2> QED BY <1>8, <2>1, <2>2
<1>13. HandleInputRows(s, rows).out = {row(e) : e \in rows}
  BY <1>7, <1>12
<1>14. HandleInputRows(s, rows).state =
              IF rows = {} THEN s ELSE ScheduleEarliestCleanup([s EXCEPT !.events = s.events \cup rows])
  BY <1>7, <1>9
<1> QED BY <1>13, <1>14, Zenon DEF row, HandledOut


-----------------------------------------------------------------------------
(* What a batch does to a history. *)

\* What holds of a customer whose rows so far are seen, at watermark w.
HistorySound(Rows, s, seen, w) ==
  /\ s \in HistoryStates(Rows) /\ s.events \subseteq seen /\ OneCleanup(s)
  /\ \A e \in s.events : CleanupTimer(e) >= w
  /\ \A e \in seen \ s.events : CleanupTimer(e) <= w

LEMMA HistoryBatch ==
  ASSUME NEW Rows, Timed(Rows), NEW s, NEW seen \in SUBSET Rows, NEW w \in Nat, NEW due \in Nat, w <= due,
         HistorySound(Rows, s, seen, w), NEW rows \in SUBSET Rows, IsFiniteSet(rows),
         \A e \in rows : e.time > w * Milli
  PROVE  HistorySound(Rows, FireTimers(HandleInputRows(s, rows).state, due), seen \cup rows, due)
<1>1. s \in HistoryStates(Rows) /\ s.events \in SUBSET Rows /\ OneCleanup(s) /\ s.events \subseteq seen
      /\ s.timer \in Nat
  BY DEF HistorySound, HistoryStates
<1>2. PICK h : h = HandleInputRows(s, rows).state
  OBVIOUS
<1>3. h = IF rows = {} THEN s ELSE ScheduleEarliestCleanup([s EXCEPT !.events = s.events \cup rows])
  BY <1>1, <1>2, HandledRows
<1>4. h \in HistoryStates(Rows) /\ h.events = s.events \cup rows /\ OneCleanup(h)
  <2>1. CASE rows = {}
    BY <1>1, <1>3, <2>1
  <2>2. CASE rows # {}
    <3>1. PICK v : v = [s EXCEPT !.events = s.events \cup rows]
      OBVIOUS
    <3>2. v \in HistoryStates(Rows) /\ v.events = s.events \cup rows /\ v.timer = s.timer /\ v.registered = s.registered
      BY <1>1, <3>1 DEF HistoryStates
    <3>3. h = ScheduleEarliestCleanup(v)
      BY <1>3, <2>2, <3>1
    <3>4. /\ h \in HistoryStates(Rows) /\ h.events = v.events /\ h.timer = Earliest(v.events)
          /\ h.registered = IF Earliest(v.events) = v.timer THEN v.registered
                            ELSE (v.registered \ {v.timer}) \cup ({Earliest(v.events)} \ {NoTimer})
      BY <3>2, <3>3, ScheduledCleanup
    <3>5. s.registered = {s.timer} \ {NoTimer}
      BY <1>1 DEF OneCleanup
    <3>6. h.registered = {h.timer} \ {NoTimer}
      BY <3>2, <3>4, <3>5
    <3> QED BY <3>2, <3>4, <3>6 DEF OneCleanup
  <2> QED BY <2>1, <2>2
<1>5. PICK q : q = FireTimers(h, due)
  OBVIOUS
<1>6. /\ q \in HistoryStates(Rows) /\ OneCleanup(q)
      /\ q.events = IF h.events # {} /\ h.timer < due THEN Kept(h.events, due) ELSE h.events
  BY <1>4, <1>5, CleanupOnce
<1>7. \A e \in seen \cup rows : CleanupTimer(e) \in Nat
  BY CleanupTimes
<1>8. \A e \in rows : CleanupTimer(e) >= w
  BY CleanupTimes
<1>9. q.events \subseteq h.events /\ h.events \subseteq seen \cup rows
  BY <1>1, <1>4, <1>6 DEF Kept
<1>10. ASSUME NEW e \in q.events PROVE CleanupTimer(e) >= due
  <2>1. CASE h.events # {} /\ h.timer < due
    BY <1>6, <1>7, <1>9, <2>1 DEF Kept
  <2>2. CASE ~(h.events # {} /\ h.timer < due)
    <3>1. Earliest(h.events) <= CleanupTimer(e) /\ Earliest(h.events) \in Nat /\ h.events \in SUBSET Rows
      BY <1>1, <1>4, <1>9, EarliestCleanup
    <3>2. h.timer = Earliest(h.events) /\ h.events # {}
      BY <1>4, <1>9 DEF OneCleanup
    <3> QED BY <1>7, <1>9, <2>2, <3>1, <3>2
  <2> QED BY <2>1, <2>2
<1>11. ASSUME NEW e \in (seen \cup rows) \ q.events PROVE CleanupTimer(e) <= due
  <2>1. CASE e \in h.events
    BY <1>6, <1>7, <2>1 DEF Kept
  <2>2. CASE e \notin h.events
    <3>1. e \in seen \ s.events
      BY <1>4, <2>2
    <3>2. CleanupTimer(e) <= w
      BY <3>1 DEF HistorySound
    <3> QED BY <1>7, <3>1, <3>2
  <2> QED BY <2>1, <2>2
<1> QED BY <1>2, <1>5, <1>6, <1>9, <1>10, <1>11 DEF HistorySound

\* What was pruned is out of the windows of every row still to come.
LEMMA PrunedIsOut ==
  ASSUME NEW Rows, Timed(Rows), NEW s, NEW seen \in SUBSET Rows, NEW w \in Nat,
         HistorySound(Rows, s, seen, w), NEW rows \in SUBSET Rows, \A e \in rows : e.time > w * Milli,
         NEW e \in rows
  PROVE  Features(s.events \cup {h \in rows : h.time < e.time}, e) = Features(seen \cup rows, e)
<1>1. {CountWindow, AmountWindow} \subseteq Nat /\ CountWindow <= AmountWindow /\ w * Milli \in Nat
  BY WindowsAssumption, EventTimeAssumption
<1>2. \A h \in seen \cup rows : h.time \in Nat
  BY DEF Timed
<1>3. s.events \subseteq seen /\ \A h \in seen \ s.events : CleanupTimer(h) <= w
  BY DEF HistorySound
<1>4. \A h \in seen \ s.events : h.time + AmountWindow <= w * Milli
  BY <1>3, CleanupTimes
<1>5. ASSUME NEW window \in {CountWindow, AmountWindow}
      PROVE  Within(s.events \cup {h \in rows : h.time < e.time}, e, window) = Within(seen \cup rows, e, window)
  <2>1. ASSUME NEW h \in seen \ s.events PROVE ~(h.time >= e.time - window)
    BY <1>1, <1>2, <1>4
  <2> QED BY <1>3, <2>1 DEF Within
<1>6. PICK A, B : A = s.events \cup {h \in rows : h.time < e.time} /\ B = seen \cup rows
  OBVIOUS
<1>7. Within(A, e, CountWindow) = Within(B, e, CountWindow) /\ Within(A, e, AmountWindow) = Within(B, e, AmountWindow)
  BY <1>5, <1>6
<1>8. Features(A, e) = Features(B, e)
  BY <1>7, Zenon DEF Features
<1> QED BY <1>6, <1>8

-----------------------------------------------------------------------------
(* The application of the rolling features. *)

\* On its customers the operator is that of the rolling features.
RollingOf(Rows, Sources) ==
  /\ KeyedSource(Rows, Sources)
  /\ \A c \in Customers : InitialState[c] = NoHistory
  /\ \A state, late, due : \A rows \in Versions(Rows) : \A r \in Process(state, rows, late, due) :
       \E q \in RollingBatch(state, rows, late, due) : \A c \in Customers :
         r.state[c] = q.state[c] /\ {f \in r.out : f.key = c} = {f \in q.out : f.key = c}

\* The rows of a customer in batch b: of each accepted event, the features of
\* the customer's full history.
FeaturesIn(b, c) == {Features(SeenOf(b, c), e) : e \in AcceptedOf(b, c)}

HistoriesBefore(Rows, b) ==
  \A c \in Customers : HistorySound(Rows, StateBefore(b)[c], SeenOf(b - 1, c), Watermark(b - 1))
HistoriesAfter(Rows, b) ==
  \A c \in Customers : HistorySound(Rows, states[b][c], SeenOf(b, c), Watermark(b))

LEMMA HandledHistory ==
  ASSUME NEW Rows, NEW Sources, RollingOf(Rows, Sources), KeyedInv(Rows, Sources),
         NEW b \in 1..Len(offsets), HistoriesBefore(Rows, b), NEW c \in Customers,
         NEW done, done = HandleInputRows(StateBefore(b)[c], AcceptedOf(b, c))
  PROVE  /\ done.out = FeaturesIn(b, c)
         /\ HistorySound(Rows, FireTimers(done.state, Watermark(b)), SeenOf(b, c), Watermark(b))
<1> DEFINE s == StateBefore(b)[c]
           seen == SeenOf(b - 1, c)
           rows == AcceptedOf(b, c)
           w == Watermark(b - 1)
           due == Watermark(b)
<1>1. KeyedSource(Rows, Sources) /\ Timed(Rows)
  BY DEF RollingOf, KeyedSource
<1>2. b \in Nat \ {0} /\ w \in Nat /\ due \in Nat /\ w <= due /\ b - 1 \in 0..Len(offsets)
  BY BatchNumbers DEF KeyedInv
<1>3. seen \in SUBSET Rows
  BY <1>1, <1>2, SeenRows
<1>4. IsFiniteSet(rows) /\ rows \in SUBSET Rows /\ \A e \in rows : e.time > w * Milli
  BY <1>1, AcceptedOnTime
<1>5. HistorySound(Rows, s, seen, w)
  BY DEF HistoriesBefore
<1>6. SeenOf(b, c) = seen \cup rows
  BY <1>2, SeenGrows
<1> HIDE DEF s, seen, rows, w, due
<1>7. done = HandleInputRows(s, rows)
  BY DEF s, rows
<1>8. HistorySound(Rows, FireTimers(done.state, due), seen \cup rows, due)
  BY <1>1, <1>2, <1>3, <1>4, <1>5, <1>7, HistoryBatch
<1>9. done.out = {Features(s.events \cup {h \in rows : h.time < e.time}, e) : e \in rows}
  <2>1. s \in HistoryStates(Rows)
    BY <1>5 DEF HistorySound
  <2>2. HandleInputRows(s, rows).out = HandledOut(s.events, rows)
    BY <1>1, <1>4, <2>1, HandledRows
  <2> QED BY <1>7, <2>2, Zenon DEF HandledOut
<1>10. \A e \in rows : Features(s.events \cup {h \in rows : h.time < e.time}, e) = Features(seen \cup rows, e)
  BY <1>1, <1>2, <1>3, <1>4, <1>5, PrunedIsOut
<1>11. done.out = {Features(seen \cup rows, e) : e \in rows}
  BY <1>9, <1>10
<1>12. FeaturesIn(b, c) = {Features(seen \cup rows, e) : e \in rows}
  BY <1>6, Zenon DEF FeaturesIn, rows
<1> QED BY <1>6, <1>8, <1>11, <1>12, Zenon DEF due

LEMMA RollingResult ==
  ASSUME NEW Rows, NEW Sources, RollingOf(Rows, Sources), KeyedInv(Rows, Sources),
         NEW b \in 1..Len(offsets), HistoriesBefore(Rows, b), NEW r \in Results(b), NEW c \in Customers
  PROVE  /\ {f \in r.out : f.key = c} = FeaturesIn(b, c)
         /\ HistorySound(Rows, r.state[c], SeenOf(b, c), Watermark(b))
<1> DEFINE handled == [d \in Customers |-> HandleInputRows(StateBefore(b)[d], AcceptedOf(b, d))]
<1>1. Input(b) \in Versions(Rows)
  BY InputInRows DEF KeyedInv, EngineInv
<1>2. r \in Process(StateBefore(b), Input(b), Watermark(b - 1), Watermark(b))
  BY Zenon DEF Results
<1>3. PICK q \in RollingBatch(StateBefore(b), Input(b), Watermark(b - 1), Watermark(b)) :
        \A d \in Customers :
          r.state[d] = q.state[d] /\ {f \in r.out : f.key = d} = {f \in q.out : f.key = d}
  <2>1. \A rows \in Versions(Rows) : \A p \in Process(StateBefore(b), rows, Watermark(b - 1), Watermark(b)) :
          \E q \in RollingBatch(StateBefore(b), rows, Watermark(b - 1), Watermark(b)) : \A d \in Customers :
            p.state[d] = q.state[d] /\ {f \in p.out : f.key = d} = {f \in q.out : f.key = d}
    BY DEF RollingOf
  <2> QED BY <1>1, <1>2, <2>1, Zenon
<1>4. q = [ok |-> TRUE, state |-> [d \in Customers |-> FireTimers(handled[d].state, Watermark(b))],
           out |-> UNION {handled[d].out : d \in Customers}]
  BY <1>3, Zenon DEF RollingBatch, AcceptedOf
<1>5. \A d \in Customers :
        /\ handled[d].out = FeaturesIn(b, d)
        /\ HistorySound(Rows, FireTimers(handled[d].state, Watermark(b)), SeenOf(b, d), Watermark(b))
  BY HandledHistory
<1> HIDE DEF handled
<1>6. r.state[c] = FireTimers(handled[c].state, Watermark(b))
  BY <1>3, <1>4
<1>7. {f \in r.out : f.key = c} = FeaturesIn(b, c)
  <2>1. \A d \in Customers : \A f \in FeaturesIn(b, d) : f.key = d
    BY DEF FeaturesIn, Features, AcceptedOf
  <2>2. q.out = UNION {FeaturesIn(b, d) : d \in Customers}
    BY <1>4, <1>5
  <2>3. {f \in q.out : f.key = c} = FeaturesIn(b, c)
    BY <2>1, <2>2
  <2> QED BY <1>3, <2>3
<1> QED BY <1>5, <1>6, <1>7

LEMMA HistoriesBeforeAfter ==
  ASSUME NEW Rows, NEW Sources, RollingOf(Rows, Sources), KeyedInv(Rows, Sources),
         NEW b \in 1..Len(offsets), b # 1 => HistoriesAfter(Rows, b - 1)
  PROVE  HistoriesBefore(Rows, b)
<1>1. CASE b = 1
  <2>1. ASSUME NEW c \in Customers
        PROVE  HistorySound(Rows, StateBefore(b)[c], SeenOf(b - 1, c), Watermark(b - 1))
    <3>1. StateBefore(b)[c] = NoHistory
      BY <1>1 DEF StateBefore, RollingOf
    <3>2. SeenOf(b - 1, c) = {}
      BY <1>1, NothingSeen
    <3>3. HistorySound(Rows, NoHistory, {}, Watermark(b - 1))
      BY DEF HistorySound, OneCleanup, NoHistory, HistoryStates, Earliest, NoTimer
    <3> QED BY <3>1, <3>2, <3>3
  <2> QED BY <2>1 DEF HistoriesBefore
<1>2. CASE b # 1
  <2>1. StateBefore(b) = states[b - 1]
    BY <1>2, StateOfBatch DEF KeyedInv, EngineInv
  <2> QED BY <1>2, <2>1 DEF HistoriesBefore, HistoriesAfter
<1> QED BY <1>1, <1>2

LEMMA HistoriesKept ==
  ASSUME NEW Rows, NEW Sources, RollingOf(Rows, Sources), KeyedInv(Rows, Sources)
  PROVE  /\ \A b \in DOMAIN states : HistoriesAfter(Rows, b)
         /\ \A b \in 1..Len(offsets) : HistoriesBefore(Rows, b)
<1> DEFINE bad == {b \in DOMAIN states : ~HistoriesAfter(Rows, b)}
<1>1. bad \in SUBSET Nat
  BY StatesOfBatches DEF KeyedInv, EngineInv
<1>2. ASSUME bad # {} PROVE FALSE
  <2>1. PICK n \in bad : \A m \in bad : n <= m
    BY <1>1, <1>2, LeastNumber, Zenon
  <2>2. n \in DOMAIN states /\ n \in Nat \ {0} /\ n \in 1..Len(offsets) /\ (n # 1 => n - 1 \in DOMAIN states)
    BY <2>1, StatesOfBatches DEF KeyedInv, EngineInv
  <2>3. n # 1 => HistoriesAfter(Rows, n - 1)
    <3>1. n - 1 \notin bad
      BY <2>1, <2>2
    <3> QED BY <2>2, <3>1
  <2>4. HistoriesBefore(Rows, n)
    BY <2>2, <2>3, HistoriesBeforeAfter
  <2>5. PICK r \in Results(n) : r.state = states[n]
    BY <2>2 DEF KeyedInv, EngineInv, Traced
  <2>6. HistoriesAfter(Rows, n)
    BY <2>2, <2>4, <2>5, RollingResult, Zenon DEF HistoriesAfter
  <2> QED BY <2>1, <2>6
<1>3. \A b \in DOMAIN states : HistoriesAfter(Rows, b)
  BY <1>2
<1>4. ASSUME NEW b \in 1..Len(offsets) PROVE HistoriesBefore(Rows, b)
  <2>1. b # 1 => b - 1 \in DOMAIN states
    BY StateOfBatch DEF KeyedInv, EngineInv
  <2> QED BY <1>3, <2>1, HistoriesBeforeAfter
<1> QED BY <1>3, <1>4

\* What the table has of a customer.
LEMMA FeatureRowsOf ==
  ASSUME NEW Rows, NEW Sources, RollingOf(Rows, Sources), KeyedInv(Rows, Sources),
         NEW b \in 1..Len(offsets), NEW c \in Customers
  PROVE  /\ RowsOf(b, c) = {} \/ RowsOf(b, c) = FeaturesIn(b, c)
         /\ ~torn /\ b \in 1..Committed => RowsOf(b, c) = FeaturesIn(b, c)
<1>1. \A r \in Results(b) : r.ok => {f \in r.out : f.key = c} = FeaturesIn(b, c)
  BY HistoriesKept, RollingResult
<1> QED BY <1>1, RowsOfBatch DEF KeyedInv

LEMMA SoundFeatures ==
  ASSUME NEW Rows, NEW Sources, RollingOf(Rows, Sources), KeyedInv(Rows, Sources)
  PROVE  RollingFeaturesSound
<1>1. KeyedSource(Rows, Sources) /\ Timed(Rows)
  BY DEF RollingOf, KeyedSource
<1>2. FeaturesFromFullHistory
  <2>1. SUFFICES ASSUME NEW b \in 1..Len(offsets), NEW c \in Customers, NEW f \in RowsOf(b, c)
                 PROVE  LET since(window) == {e \in SeenOf(b, c) : e.time \in (f.event.time - window)..(f.event.time - 1)}
                        IN /\ f.count5m = Cardinality(since(CountWindow))
                           /\ f.summed10m = {e \in since(AmountWindow) : e.currency = f.event.currency}
    BY Zenon DEF FeaturesFromFullHistory
  <2>2. PICK e \in AcceptedOf(b, c) : f = Features(SeenOf(b, c), e)
    BY FeatureRowsOf DEF FeaturesIn
  <2>3. /\ f.event = e /\ f.count5m = Cardinality(Within(SeenOf(b, c), e, CountWindow))
        /\ f.summed10m = {h \in Within(SeenOf(b, c), e, AmountWindow) : h.currency = e.currency}
    BY <2>2 DEF Features
  <2>4. SeenOf(b, c) \subseteq Rows /\ e \in Rows
    <3>1. b \in 0..Len(offsets)
      BY BatchNumbers DEF KeyedInv
    <3> QED BY <1>1, <3>1, SeenRows, AcceptedOnTime
  <2>5. e.time \in Nat /\ \A h \in SeenOf(b, c) : h.time \in Nat
    BY <1>1, <2>4 DEF Timed
  <2>6. ASSUME NEW window \in Nat
        PROVE  Within(SeenOf(b, c), e, window) = {h \in SeenOf(b, c) : h.time \in (e.time - window)..(e.time - 1)}
    <3>1. \A h \in SeenOf(b, c) : (h.time >= e.time - window /\ h.time < e.time) <=> h.time \in (e.time - window)..(e.time - 1)
      BY <2>5
    <3> QED BY <3>1 DEF Within
  <2>7. CountWindow \in Nat /\ AmountWindow \in Nat
    BY WindowsAssumption
  <2> QED BY <2>3, <2>6, <2>7
<1>3. RowPerAcceptedEvent
  <2>1. SUFFICES ASSUME ~torn, NEW b \in 1..Committed, NEW c \in Customers
                 PROVE  /\ {f.event : f \in RowsOf(b, c)} = AcceptedOf(b, c)
                        /\ Cardinality(RowsOf(b, c)) = Cardinality(AcceptedOf(b, c))
    BY Zenon DEF RowPerAcceptedEvent
  <2>2. b \in 1..Len(offsets)
    BY CommittedBatch DEF KeyedInv
  <2>3. PICK A, B : A = AcceptedOf(b, c) /\ B = RowsOf(b, c)
    OBVIOUS
  <2> DEFINE row == [e \in A |-> Features(SeenOf(b, c), e)]
  <2>4. IsFiniteSet(A)
    BY <1>1, <2>2, <2>3, AcceptedOnTime
  <2>5. B = {row[e] : e \in A}
    BY <2>1, <2>2, <2>3, FeatureRowsOf DEF FeaturesIn
  <2>6. \A e \in A : row[e].event = e
    BY DEF Features
  <2>7. DOMAIN row = A /\ row = [e \in A |-> row[e]]
    OBVIOUS
  <2> HIDE DEF row
  <2>8. row \in Bijection(A, B)
    <3>1. row \in [A -> B] /\ \A e, h \in A : row[e] = row[h] => e = h
      BY <2>5, <2>6, <2>7
    <3>2. \A f \in B : \E e \in A : row[e] = f
      BY <2>5
    <3> QED BY <3>1, <3>2, Fun_IsBij, Zenon
  <2>9. Cardinality(B) = Cardinality(A)
    <3>1. ExistsBijection(A, B)
      BY <2>8, Zenon DEF ExistsBijection
    <3> QED BY <2>4, <3>1, FS_Bijection
  <2>10. {f.event : f \in B} = A
    BY <2>5, <2>6
  <2> QED BY <2>3, <2>9, <2>10
<1>4. HistoryBounded
  <2>1. DOMAIN states = 1..Len(states)
    BY DEF KeyedInv, EngineInv, Traced, IsSequence
  <2>2. SUFFICES ASSUME NEW b \in DOMAIN states, NEW c \in Customers
                 PROVE  LET s == states[b][c]
                            cleanups == {CleanupTimer(e) : e \in s.events}
                        IN /\ \A t \in cleanups : t >= Watermark(b)
                           /\ s.registered = IF cleanups = {} THEN {} ELSE {Min(cleanups)}
    BY <2>1, Zenon DEF HistoryBounded
  <2>3. PICK s : s = states[b][c]
    OBVIOUS
  <2>4. HistorySound(Rows, s, SeenOf(b, c), Watermark(b))
    BY <2>3, HistoriesKept DEF HistoriesAfter
  <2>5. s.events \in SUBSET Rows /\ s.registered = {Earliest(s.events)} \ {NoTimer}
        /\ \A e \in s.events : CleanupTimer(e) >= Watermark(b)
    BY <2>4 DEF HistorySound, HistoryStates, OneCleanup
  <2>6. Earliest(s.events) = NoTimer <=> s.events = {}
    BY <1>1, <2>5, EarliestCleanup
  <2>7. s.registered = IF Cleanups(s.events) = {} THEN {} ELSE {Min(Cleanups(s.events))}
    <3>1. Cleanups(s.events) = {} <=> s.events = {}
      BY DEF Cleanups
    <3> QED BY <2>5, <2>6, <3>1 DEF Earliest
  <2> QED BY <2>3, <2>5, <2>7 DEF Cleanups
<1> QED BY <1>2, <1>3, <1>4 DEF RollingFeaturesSound

\* customer-rolling-features.md: every accepted event has one row, with the
\* features of its customer's full history, whatever the pruning, the batches,
\* the order of arrival, the kills and the retries.
THEOREM RollingFeaturesSoundHolds ==
  ASSUME NEW Rows, NEW Sources, RollingOf(Rows, Sources)
  PROVE  Spec => []RollingFeaturesSound
<1>1. KeyedSource(Rows, Sources)
  BY DEF RollingOf
<1>2. KeyedInv(Rows, Sources) => RollingFeaturesSound
  BY SoundFeatures
<1> QED BY <1>1, <1>2, KeyedInvariant, PTL

-----------------------------------------------------------------------------
(* The baseline of a pair. *)

StatisticsStates(Rows) ==
  [observed : SUBSET Rows, latest : Nat, timer : Nat, partition : Int, offset : Int, registered : SUBSET Nat]
Outputs(Rows) == {[key |-> e.key, event |-> e, prior |-> prior] : e \in Rows, prior \in SUBSET Rows}
Accumulated(Rows) == [ok : BOOLEAN, out : SUBSET Outputs(Rows), state : StatisticsStates(Rows)]

\* Every row has its place in the log.
Logged(Rows) == \A r \in Rows : r.partition \in Int /\ r.offset \in Int

LEMMA CeilAbove ==
  ASSUME NEW t \in Nat, NEW w \in Nat
  PROVE  CeilMillis(t) \in Nat /\ (CeilMillis(t) < w => t <= w * Milli)
BY EventTimeAssumption DEF CeilMillis

LEMMA LargerOfTwo ==
  ASSUME NEW m \in Nat, NEW n \in Nat
  PROVE  Max({m, n}) \in {m, n} /\ Max({m, n}) >= m /\ Max({m, n}) >= n
<1>1. \E x \in {m, n} : \A y \in {m, n} : x >= y
  OBVIOUS
<1>2. Max({m, n}) \in {m, n} /\ \A y \in {m, n} : Max({m, n}) >= y
  BY <1>1, Zenon DEF Max
<1> QED BY <1>2

LEMMA MaxIs ==
  ASSUME NEW S \in SUBSET Nat, NEW m \in S, \A y \in S : y <= m
  PROVE  Max(S) = m
<1>1. \E x \in S : \A y \in S : x >= y
  OBVIOUS
<1>2. Max(S) \in S /\ \A y \in S : Max(S) >= y
  BY <1>1, Zenon DEF Max
<1>3. PICK x : x = Max(S)
  OBVIOUS
<1>4. x \in Nat /\ x >= m /\ x <= m
  BY <1>2, <1>3
<1> QED BY <1>3, <1>4

OutputOf(row, prior) == [key |-> row.key, event |-> row, prior |-> prior]

\* Row observed after what a stands for.
Observes(Rows, a, row, d) ==
  /\ d \in Accumulated(Rows)
  /\ d.ok <=> a.ok /\ Advances(a.state, row)
  /\ d.out = a.out \cup {OutputOf(row, a.state.observed)}
  /\ d.state.observed = a.state.observed \cup {row}
  /\ d.state.timer = a.state.timer /\ d.state.registered = a.state.registered
  /\ d.state.partition = row.partition /\ d.state.offset = row.offset
  /\ d.state.latest \in {row.time} \cup IF a.state.observed = {} THEN {} ELSE {a.state.latest}
  /\ d.state.latest >= row.time
  /\ a.state.observed # {} => d.state.latest >= a.state.latest

LEMMA RowHandled ==
  ASSUME NEW Rows, Timed(Rows), Logged(Rows), NEW a \in Accumulated(Rows), NEW row \in Rows
  PROVE  Observes(Rows, a, row, HandleRow(a, row)) /\ HandleRow(a, row) \in Accumulated(Rows)
<1> DEFINE s == a.state
           latest == IF s.observed = {} THEN row.time ELSE Max({s.latest, row.time})
           ok == a.ok /\ Advances(s, row)
           out == a.out \cup {OutputOf(row, s.observed)}
           observed == s.observed \cup {row}
           v == [s EXCEPT !.observed = observed, !.latest = latest, !.partition = row.partition,
                          !.offset = row.offset]
<1>1. /\ s \in StatisticsStates(Rows) /\ s.observed \in SUBSET Rows /\ s.latest \in Nat
      /\ a.out \in SUBSET Outputs(Rows) /\ a.ok \in BOOLEAN
  BY DEF Accumulated, StatisticsStates
<1>2. row.time \in Nat /\ row.partition \in Int /\ row.offset \in Int
  BY DEF Timed, Logged
<1>3. /\ latest \in Nat /\ latest \in {row.time} \cup IF s.observed = {} THEN {} ELSE {s.latest}
      /\ latest >= row.time /\ (s.observed # {} => latest >= s.latest)
  <2>1. CASE s.observed = {}
    BY <1>2, <2>1
  <2>2. CASE s.observed # {}
    BY <1>1, <1>2, <2>2, LargerOfTwo
  <2> QED BY <2>1, <2>2
<1>4. HandleRow(a, row) = [ok |-> ok, out |-> out, state |-> v]
  BY Zenon DEF HandleRow, OutputOf
<1>5. out \in SUBSET Outputs(Rows) /\ observed \in SUBSET Rows
  BY <1>1 DEF Outputs, OutputOf
<1>6. ok \in BOOLEAN
  BY Zenon DEF Advances
<1> HIDE DEF latest, ok, out, observed
<1>7. /\ v \in StatisticsStates(Rows) /\ v.observed = observed /\ v.latest = latest /\ v.timer = s.timer
      /\ v.registered = s.registered /\ v.partition = row.partition /\ v.offset = row.offset
  BY <1>1, <1>2, <1>3, <1>5 DEF StatisticsStates
<1> HIDE DEF v
<1>8. PICK d : d = [ok |-> ok, out |-> out, state |-> v]
  OBVIOUS
<1>9. d \in Accumulated(Rows) /\ d.ok = ok /\ d.out = out /\ d.state = v
  BY <1>5, <1>6, <1>7, <1>8 DEF Accumulated
<1>10. HandleRow(a, row) = d
  BY <1>4, <1>8
<1>11. /\ d.state.observed = a.state.observed \cup {row} /\ d.state.timer = a.state.timer
       /\ d.state.registered = a.state.registered /\ d.state.partition = row.partition
       /\ d.state.offset = row.offset /\ d.state.latest = latest
  BY <1>7, <1>9 DEF observed
<1>12. (d.ok <=> a.ok /\ Advances(a.state, row)) /\ d.out = a.out \cup {OutputOf(row, a.state.observed)}
  BY <1>9, Zenon DEF ok, out
<1>13. /\ latest \in {row.time} \cup IF a.state.observed = {} THEN {} ELSE {a.state.latest}
       /\ latest >= row.time /\ (a.state.observed # {} => latest >= a.state.latest)
  BY <1>3
<1>14. Observes(Rows, a, row, d)
  BY <1>9, <1>11, <1>12, <1>13 DEF Observes
<1> QED BY <1>9, <1>10, <1>14

RowsObserved(start, rows) == FoldLeft(HandleRow, start, rows)

\* One row after the other.
LEMMA RowsFold ==
  ASSUME NEW Rows, Timed(Rows), Logged(Rows), NEW start \in Accumulated(Rows)
  PROVE  /\ RowsObserved(start, <<>>) = start
         /\ \A s \in Seq(Rows) : RowsObserved(start, s) \in Accumulated(Rows)
         /\ \A s \in Seq(Rows), x \in Rows : RowsObserved(start, Append(s, x)) = HandleRow(RowsObserved(start, s), x)
<1> DEFINE h == [p \in Accumulated(Rows) \X Rows |-> HandleRow(p[1], p[2])]
<1>1. /\ h \in [Accumulated(Rows) \X Rows -> Accumulated(Rows)]
      /\ \A a \in Accumulated(Rows), x \in Rows : h[<<a, x>>] = HandleRow(a, x)
  BY RowHandled
<1> HIDE DEF h
<1>2. start \in Accumulated(Rows)
  OBVIOUS
<1>3. HasValues(Accumulated(Rows), Rows, h, start)
      /\ \E F : IsFold(Accumulated(Rows), Rows, h, start, F) /\ EndsValues(Accumulated(Rows), Rows, h, start, F)
  BY <1>1, <1>2, FoldRuns
<1>4. PICK F : IsFold(Accumulated(Rows), Rows, h, start, F) /\ EndsValues(Accumulated(Rows), Rows, h, start, F)
  BY <1>3
<1>5. ASSUME NEW s \in Seq(Rows) PROVE RowsObserved(start, s) = F[s]
  <2> DEFINE unroll(g) ==
        [t \in SUBSET (DOMAIN s) |->
           IF t = {} THEN start ELSE HandleRow(g[t \ {Max(t)}], s[Max(t)])]
  <2>1. PICK g \in [SUBSET (DOMAIN s) -> Accumulated(Rows)] : Values(h, start, s, g)
    BY <1>3 DEF HasValues
  <2>2. g = unroll(g)
    <3>1. \A t \in SUBSET (DOMAIN s) :
            t # {} => h[<<g[t \ {Max(t)}], s[Max(t)]>>] = HandleRow(g[t \ {Max(t)}], s[Max(t)])
      BY <1>1, <2>1, DomainMax
    <3> QED BY <2>1, <3>1 DEF Values
  <2>3. PICK f : f = CHOOSE e : e = unroll(e)
    OBVIOUS
  <2>4. f = unroll(f)
    BY <2>2, <2>3, Zenon
  <2>5. Reaches(Accumulated(Rows), h, start, s, f)
    <3>1. f[{}] = start
      BY <2>4
    <3>2. ASSUME NEW t \in SUBSET (DOMAIN s), t # {}, f[t \ {Max(t)}] \in Accumulated(Rows)
          PROVE  f[t] = h[<<f[t \ {Max(t)}], s[Max(t)]>>]
      <4>1. f[t] = HandleRow(f[t \ {Max(t)}], s[Max(t)])
        BY <2>4, <3>2
      <4>2. s[Max(t)] \in Rows
        BY <3>2, DomainMax
      <4> QED BY <1>1, <3>2, <4>1, <4>2
    <3> QED BY <3>1, <3>2 DEF Reaches
  <2>6. RowsObserved(start, s) = f[DOMAIN s]
    BY <2>3, Zenon DEF RowsObserved, FoldLeft, MapThenFoldSet
  <2> QED BY <1>4, <2>5, <2>6 DEF EndsValues
<1>6. <<>> \in Seq(Rows) /\ \A s \in Seq(Rows), x \in Rows : Append(s, x) \in Seq(Rows)
  OBVIOUS
<1>7. \A s \in Seq(Rows) : F[s] \in Accumulated(Rows)
  BY <1>4 DEF IsFold
<1>8. \A s \in Seq(Rows), x \in Rows : F[Append(s, x)] = HandleRow(F[s], x)
  BY <1>1, <1>4, <1>7 DEF IsFold
<1> QED BY <1>4, <1>5, <1>6, <1>7, <1>8 DEF IsFold

\* The latest time is that of the rows observed.
IsLatest(s) ==
  s.observed # {} => (\E e \in s.observed : e.time = s.latest) /\ \A e \in s.observed : e.time <= s.latest

\* Row i continues the log of the rows before it, and of the baseline s.
InLine(s, rows, i) ==
  IF i = 1 THEN s.observed # {} => rows[1].partition = s.partition /\ rows[1].offset > s.offset
  ELSE rows[i].partition = rows[i - 1].partition /\ rows[i].offset > rows[i - 1].offset

Prior(s, rows, i) == s.observed \cup {rows[j] : j \in 1..(i - 1)}

\* What the rows make of a baseline s.
Accumulates(Rows, s, rows, a) ==
  /\ a \in Accumulated(Rows)
  /\ a.state.observed = s.observed \cup {rows[i] : i \in 1..Len(rows)}
  /\ a.state.timer = s.timer /\ a.state.registered = s.registered /\ IsLatest(a.state)
  /\ IF rows = <<>> THEN a.state = s
     ELSE a.state.partition = rows[Len(rows)].partition /\ a.state.offset = rows[Len(rows)].offset
  /\ a.out = {OutputOf(rows[i], Prior(s, rows, i)) : i \in 1..Len(rows)}
  /\ a.ok <=> \A i \in 1..Len(rows) : InLine(s, rows, i)

Beginning(s) == [ok |-> TRUE, out |-> {}, state |-> s]

LEMMA AccumulatesOne ==
  ASSUME NEW Rows, Timed(Rows), Logged(Rows), NEW s \in StatisticsStates(Rows),
         NEW rows \in Seq(Rows), NEW row \in Rows, NEW a, Accumulates(Rows, s, rows, a)
  PROVE  Accumulates(Rows, s, Append(rows, row), HandleRow(a, row))
<1>1. PICK r, n, d : r = Append(rows, row) /\ n = Len(rows) /\ d = HandleRow(a, row)
  OBVIOUS
<1>2. /\ r \in Seq(Rows) /\ n \in Nat /\ Len(r) = n + 1 /\ r[n + 1] = row /\ r # <<>>
      /\ \A i \in 1..n : r[i] = rows[i] /\ rows[i] \in Rows
  BY <1>1
<1>3. (rows = <<>> <=> n = 0) /\ 1..(n + 1) = (1..n) \cup {n + 1}
  BY <1>1, <1>2
<1>4. /\ a \in Accumulated(Rows) /\ a.state.observed = s.observed \cup {rows[i] : i \in 1..n}
      /\ a.state.timer = s.timer /\ a.state.registered = s.registered /\ IsLatest(a.state)
      /\ a.out = {OutputOf(rows[i], Prior(s, rows, i)) : i \in 1..n}
      /\ a.ok <=> \A i \in 1..n : InLine(s, rows, i)
      /\ n = 0 => a.state = s
      /\ n # 0 => a.state.partition = rows[n].partition /\ a.state.offset = rows[n].offset
  BY <1>1, <1>3 DEF Accumulates
<1>5. /\ d \in Accumulated(Rows) /\ (d.ok <=> a.ok /\ Advances(a.state, row))
      /\ d.out = a.out \cup {OutputOf(row, a.state.observed)}
      /\ d.state.observed = a.state.observed \cup {row}
      /\ d.state.timer = a.state.timer /\ d.state.registered = a.state.registered
      /\ d.state.partition = row.partition /\ d.state.offset = row.offset
      /\ d.state.latest \in {row.time} \cup IF a.state.observed = {} THEN {} ELSE {a.state.latest}
      /\ d.state.latest >= row.time
      /\ a.state.observed # {} => d.state.latest >= a.state.latest
  <2>1. Observes(Rows, a, row, d)
    BY <1>1, <1>4, RowHandled
  <2> QED BY <2>1 DEF Observes
<1>6. /\ \A i \in 1..n : InLine(s, r, i) <=> InLine(s, rows, i)
      /\ InLine(s, r, n + 1) <=> Advances(a.state, row)
  <2>1. \A i \in 1..n : i # 1 => i - 1 \in 1..n
    BY <1>2
  <2>2. \A i \in 1..n : InLine(s, r, i) <=> InLine(s, rows, i)
    <3>1. ASSUME NEW i \in 1..n PROVE InLine(s, r, i) <=> InLine(s, rows, i)
      <4>1. r[i] = rows[i] /\ (i # 1 => r[i - 1] = rows[i - 1])
        BY <1>2, <2>1
      <4> QED BY <4>1, Zenon DEF InLine
    <3> QED BY <3>1
  <2>3. CASE n = 0
    <3>1. a.state = s /\ r[1] = row /\ n + 1 = 1
      BY <1>2, <1>4, <2>3
    <3>2. InLine(s, r, n + 1) <=> Advances(a.state, row)
      BY <3>1 DEF InLine, Advances
    <3> QED BY <2>2, <3>2
  <2>4. CASE n # 0
    <3>1. n + 1 # 1 /\ n + 1 - 1 = n /\ n \in 1..n
      BY <1>2, <2>4
    <3>2. a.state.observed # {}
      <4>1. rows[n] \in a.state.observed
        BY <1>4, <3>1
      <4> QED BY <4>1
    <3>3. r[n] = rows[n] /\ r[n + 1] = row /\ r[n + 1 - 1] = rows[n]
      BY <1>2, <3>1
    <3>4. InLine(s, r, n + 1) <=> Advances(a.state, row)
      <4>1. a.state.partition = rows[n].partition /\ a.state.offset = rows[n].offset
        BY <1>4, <2>4
      <4>2. PICK m : m = n + 1
        OBVIOUS
      <4>3. m # 1 /\ r[m] = row /\ r[m - 1] = rows[n]
        BY <3>1, <3>3, <4>2
      <4>4. InLine(s, r, m) <=> row.partition = rows[n].partition /\ row.offset > rows[n].offset
        BY <4>3, Zenon DEF InLine
      <4> QED BY <3>2, <4>1, <4>2, <4>4 DEF Advances
    <3> QED BY <2>2, <3>4
  <2> QED BY <2>3, <2>4
<1>7. d.ok <=> \A i \in 1..(n + 1) : InLine(s, r, i)
  BY <1>3, <1>4, <1>5, <1>6
<1>8. \A i \in 1..(n + 1) : {r[j] : j \in 1..(i - 1)} = {rows[j] : j \in 1..(i - 1)}
  <2>1. \A i \in 1..(n + 1) : \A j \in 1..(i - 1) : r[j] = rows[j]
    BY <1>2
  <2> QED BY <2>1
<1>9. \A i \in 1..(n + 1) : Prior(s, r, i) = Prior(s, rows, i)
  BY <1>8, Zenon DEF Prior
<1>10. Prior(s, r, n + 1) = a.state.observed
  <2>1. n + 1 - 1 = n /\ n + 1 \in 1..(n + 1)
    BY <1>2
  <2>2. Prior(s, rows, n + 1) = a.state.observed
    <3>1. a.state.observed = s.observed \cup {rows[i] : i \in 1..n}
      BY <1>4
    <3>2. PICK m : m = n + 1
      OBVIOUS
    <3>3. Prior(s, rows, m) = s.observed \cup {rows[j] : j \in 1..(m - 1)}
      BY Zenon DEF Prior
    <3>4. m - 1 = n
      BY <1>2, <3>2
    <3>5. {rows[j] : j \in 1..(m - 1)} = {rows[i] : i \in 1..n}
      BY <3>4
    <3> QED BY <3>1, <3>2, <3>3, <3>5
  <2> QED BY <1>9, <2>1, <2>2
<1>11. d.out = {OutputOf(r[i], Prior(s, r, i)) : i \in 1..(n + 1)}
  <2>1. \A i \in 1..n : OutputOf(r[i], Prior(s, r, i)) = OutputOf(rows[i], Prior(s, rows, i))
    <3>1. \A i \in 1..n : i \in 1..(n + 1)
      BY <1>3
    <3> QED BY <1>2, <1>9, <3>1, Zenon
  <2>2. OutputOf(r[n + 1], Prior(s, r, n + 1)) = OutputOf(row, a.state.observed)
    BY <1>2, <1>10, Zenon
  <2>3. {OutputOf(r[i], Prior(s, r, i)) : i \in 1..n} = a.out
    BY <1>4, <2>1
  <2>4. {OutputOf(r[i], Prior(s, r, i)) : i \in 1..(n + 1)}
          = {OutputOf(r[i], Prior(s, r, i)) : i \in 1..n} \cup {OutputOf(r[n + 1], Prior(s, r, n + 1))}
    BY <1>3
  <2> QED BY <1>5, <2>2, <2>3, <2>4
<1>12. d.state.observed = s.observed \cup {r[i] : i \in 1..(n + 1)}
  <2>1. {r[i] : i \in 1..(n + 1)} = {rows[i] : i \in 1..n} \cup {row}
    BY <1>2, <1>3
  <2> QED BY <1>4, <1>5, <2>1
<1>13. IsLatest(d.state)
  <2>1. row.time \in Nat /\ a.state.latest \in Nat /\ d.state.latest \in Nat
        /\ a.state.observed \in SUBSET Rows /\ \A e \in a.state.observed : e.time \in Nat
    BY <1>4, <1>5 DEF Timed, Accumulated, StatisticsStates
  <2>2. CASE a.state.observed = {}
    BY <1>5, <2>1, <2>2 DEF IsLatest
  <2>3. CASE a.state.observed # {}
    <3>1. /\ \E e \in a.state.observed : e.time = a.state.latest
          /\ \A e \in a.state.observed : e.time <= a.state.latest
      BY <1>4, <2>3 DEF IsLatest
    <3>2. d.state.latest = row.time \/ d.state.latest = a.state.latest
      BY <1>5, <2>3
    <3> QED BY <1>5, <2>1, <2>3, <3>1, <3>2 DEF IsLatest
  <2> QED BY <2>2, <2>3
<1>14. /\ d.state.timer = s.timer /\ d.state.registered = s.registered
       /\ d.state.partition = r[n + 1].partition /\ d.state.offset = r[n + 1].offset
  BY <1>2, <1>4, <1>5
<1>15. Accumulates(Rows, s, r, d)
  BY <1>2, <1>5, <1>7, <1>11, <1>12, <1>13, <1>14 DEF Accumulates
<1> QED BY <1>1, <1>15

LEMMA RowsAccumulate ==
  ASSUME NEW Rows, Timed(Rows), Logged(Rows), NEW s \in StatisticsStates(Rows), IsLatest(s)
  PROVE  \A rows \in Seq(Rows) : Accumulates(Rows, s, rows, RowsObserved(Beginning(s), rows))
<1> DEFINE S == {rows \in Seq(Rows) : Accumulates(Rows, s, rows, RowsObserved(Beginning(s), rows))}
<1>1. Beginning(s) \in Accumulated(Rows) /\ Beginning(s).state = s /\ Beginning(s).ok = TRUE /\ Beginning(s).out = {}
  BY DEF Beginning, Accumulated
<1>2. <<>> \in S
  <2>1. <<>> \in Seq(Rows) /\ Len(<<>>) = 0 /\ 1..0 = {}
    OBVIOUS
  <2>2. RowsObserved(Beginning(s), <<>>) = Beginning(s)
    BY <1>1, RowsFold, Zenon
  <2>3. Accumulates(Rows, s, <<>>, Beginning(s))
    BY <1>1, <2>1 DEF Accumulates
  <2> QED BY <2>1, <2>2, <2>3
<1>3. ASSUME NEW rows \in Seq(Rows), NEW row \in Rows, rows \in S PROVE Append(rows, row) \in S
  <2>1. \A q \in Seq(Rows), x \in Rows :
          RowsObserved(Beginning(s), Append(q, x)) = HandleRow(RowsObserved(Beginning(s), q), x)
    BY <1>1, RowsFold, SMT
  <2>2. RowsObserved(Beginning(s), Append(rows, row)) = HandleRow(RowsObserved(Beginning(s), rows), row)
    BY <2>1, Zenon
  <2>3. Accumulates(Rows, s, rows, RowsObserved(Beginning(s), rows))
    BY <1>3
  <2>4. Accumulates(Rows, s, Append(rows, row), HandleRow(RowsObserved(Beginning(s), rows), row))
    BY <2>3, AccumulatesOne
  <2>5. Append(rows, row) \in Seq(Rows)
    OBVIOUS
  <2> QED BY <2>2, <2>4, <2>5
<1>4. Seq(Rows) \subseteq S
  <2> HIDE DEF S
  <2> QED BY <1>2, <1>3, AllSequences
<1> QED BY <1>4

\* Rows of one partition differ in their offsets.
Places(rows) == \A e, h \in rows : e.partition = h.partition /\ e.offset = h.offset => e = h

InLog(rows, order) ==
  /\ order \in Seq(rows) /\ {order[i] : i \in 1..Len(order)} = rows
  /\ \A i, j \in 1..Len(order) : i < j => InLogOrder(order[i], order[j])

LEMMA InOrderOfLog ==
  ASSUME NEW Rows, Logged(Rows), NEW rows \in SUBSET Rows, IsFiniteSet(rows), Places(rows)
  PROVE  InLog(rows, InOrder(rows, InLogOrder))
<1> DEFINE R == {p \in rows \X rows : InLogOrder(p[1], p[2])}
<1>1. \A x, y \in rows : <<x, y>> \in R <=> InLogOrder(x, y)
  OBVIOUS
<1> HIDE DEF R
<1>2. \A e \in rows : e.partition \in Int /\ e.offset \in Int
  BY DEF Logged
<1>3. Orders(R, rows)
  <2>1. \A x \in rows : ~InLogOrder(x, x)
    BY <1>2 DEF InLogOrder
  <2>2. \A x, y \in rows : x # y => InLogOrder(x, y) \/ InLogOrder(y, x)
    BY <1>2 DEF InLogOrder, Places
  <2>3. \A x, y, z \in rows : InLogOrder(x, y) /\ InLogOrder(y, z) => InLogOrder(x, z)
    BY <1>2 DEF InLogOrder
  <2> QED BY <1>1, <2>1, <2>2, <2>3, Zenon DEF Orders
<1>4. PICK s : InOrderOf(s, rows, R)
  BY <1>3, OrderedElements
<1>5. s \in [1..Cardinality(rows) -> rows] /\ {s[i] : i \in DOMAIN s} = rows
  BY <1>4 DEF InOrderOf
<1>6. \A i, j \in DOMAIN s : i < j => InLogOrder(s[i], s[j])
  BY <1>1, <1>4, <1>5 DEF InOrderOf
<1>7. \E q \in [1..Cardinality(rows) -> rows] :
        /\ {q[i] : i \in DOMAIN q} = rows
        /\ \A i, j \in DOMAIN q : i < j => InLogOrder(q[i], q[j])
  BY <1>5, <1>6
<1> DEFINE q == InOrder(rows, InLogOrder)
<1>8. /\ q \in [1..Cardinality(rows) -> rows] /\ {q[i] : i \in DOMAIN q} = rows
      /\ \A i, j \in DOMAIN q : i < j => InLogOrder(q[i], q[j])
  BY <1>7, Zenon DEF InOrder
<1>9. Cardinality(rows) \in Nat
  BY FS_CardinalityType
<1> HIDE DEF q
<1>10. PICK n \in Nat : n = Cardinality(rows)
  BY <1>9
<1>11. q \in Seq(rows) /\ Len(q) = n /\ DOMAIN q = 1..n
  BY <1>8, <1>10
<1>12. InLog(rows, q)
  BY <1>8, <1>11 DEF InLog
<1> QED BY <1>12 DEF q

-----------------------------------------------------------------------------
(* What a batch does to a baseline. *)

\* One timer is registered for a pair that has a baseline.
OwnExpiry(s) ==
  IF s.observed = {} THEN s.registered = {}
  ELSE s.registered = {s.timer} /\ s.timer = CeilMillis(s.latest + InactivityTimeout)

\* The baseline is of one partition, up to the offset it remembers.
OnePartition(s) ==
  s.observed # {} => /\ \A e \in s.observed : e.partition = s.partition
                     /\ \E e \in s.observed : e.offset = s.offset

\* Row h is one that no longer sees row e.
Forgets(e, h) ==
  h.time > e.time + InactivityTimeout /\ (e.partition = h.partition => e.offset < h.offset)

\* What holds of a pair whose rows so far are seen, at watermark w.
BaselineSound(Rows, s, seen, w) ==
  /\ s \in StatisticsStates(Rows) /\ s.observed \subseteq seen
  /\ IsLatest(s) /\ OwnExpiry(s) /\ OnePartition(s)
  /\ s.observed # {} => s.timer >= w
  /\ \A e \in seen \ s.observed : e.time + InactivityTimeout <= w * Milli
  /\ \A e \in seen \ s.observed, h \in s.observed : Forgets(e, h)

\* The rows of a batch come after those seen, in each partition.
After(seen, rows) ==
  /\ Places(rows)
  /\ \A e \in seen, h \in rows : e.partition = h.partition => e.offset < h.offset

\* The rows in the order of the log, and what they make of a baseline.
Handles(Rows, s, rows, order, a) ==
  /\ InLog(rows, order) /\ Accumulates(Rows, s, order, a)
  /\ HandleRows(s, rows).ok = a.ok /\ HandleRows(s, rows).out = a.out
  /\ HandleRows(s, rows).state = IF rows = {} THEN s ELSE MoveTimer(s, a.state)

LEMMA HandledBaseline ==
  ASSUME NEW Rows, Timed(Rows), Logged(Rows), NEW s \in StatisticsStates(Rows), IsLatest(s),
         NEW rows \in SUBSET Rows, IsFiniteSet(rows), Places(rows)
  PROVE  \E order, a : Handles(Rows, s, rows, order, a)
<1>1. PICK order : order = InOrder(rows, InLogOrder)
  OBVIOUS
<1>2. PICK a : a = RowsObserved(Beginning(s), order)
  OBVIOUS
<1>3. InLog(rows, order)
  BY <1>1, InOrderOfLog
<1>4. order \in Seq(Rows)
  BY <1>3 DEF InLog
<1>5. Accumulates(Rows, s, order, a)
  BY <1>2, <1>4, RowsAccumulate
<1>6. HandleRows(s, rows) = IF rows = {} THEN a ELSE [a EXCEPT !.state = MoveTimer(s, a.state)]
  BY <1>1, <1>2, Zenon DEF HandleRows, RowsObserved, Beginning
<1>7. rows = {} => order = <<>>
  <2>1. Len(order) \in Nat /\ (order # <<>> => 1 \in 1..Len(order)) /\ (rows = {} => order \in Seq({}))
    BY <1>3, <1>4 DEF InLog
  <2> QED BY <1>3, <2>1 DEF InLog
<1>8. a \in Accumulated(Rows) /\ (order = <<>> => a.state = s)
  BY <1>5 DEF Accumulates
<1>9. /\ HandleRows(s, rows).ok = a.ok /\ HandleRows(s, rows).out = a.out
      /\ HandleRows(s, rows).state = IF rows = {} THEN s ELSE MoveTimer(s, a.state)
  <2>1. PICK moved : moved = MoveTimer(s, a.state)
    OBVIOUS
  <2>2. PICK v : v = [a EXCEPT !.state = moved]
    OBVIOUS
  <2>3. v.ok = a.ok /\ v.out = a.out /\ v.state = moved
    BY <1>8, <2>2 DEF Accumulated
  <2> QED BY <1>6, <1>7, <1>8, <2>1, <2>2, <2>3
<1> QED BY <1>3, <1>5, <1>9 DEF Handles

\* In a batch that is accepted all rows are of one partition, that of the
\* baseline.
LEMMA InLinePartition ==
  ASSUME NEW Rows, Logged(Rows), NEW rows \in SUBSET Rows, NEW order, InLog(rows, order), NEW s,
         \A i \in 1..Len(order) : InLine(s, order, i)
  PROVE  /\ \A i \in 1..Len(order) : order[i].partition = order[1].partition
         /\ order # <<>> /\ s.observed # {} => order[1].partition = s.partition
         /\ \A i, j \in 1..Len(order) : i < j => order[i].offset < order[j].offset
<1>1. order \in Seq(rows) /\ Len(order) \in Nat /\ (order # <<>> => 1 \in 1..Len(order))
      /\ \A i \in 1..Len(order) : order[i] \in Rows
  BY DEF InLog
<1> DEFINE bad == {i \in 1..Len(order) : order[i].partition # order[1].partition}
<1>2. bad = {}
  <2>1. SUFFICES ASSUME bad # {} PROVE FALSE
    OBVIOUS
  <2>2. PICK n \in bad : \A m \in bad : n <= m
    <3>1. bad \in SUBSET Nat
      OBVIOUS
    <3> HIDE DEF bad
    <3> QED BY <2>1, <3>1, LeastNumber
  <2>3. n \in 1..Len(order) /\ n # 1 /\ n - 1 \in 1..Len(order) /\ ~(n <= n - 1)
    BY <1>1, <2>2
  <2>4. order[n - 1].partition = order[1].partition
    BY <2>2, <2>3
  <2>5. order[n].partition = order[n - 1].partition
    BY <2>3 DEF InLine
  <2> QED BY <2>2, <2>4, <2>5
<1>3. \A i \in 1..Len(order) : order[i].partition = order[1].partition
  BY <1>2
<1>4. order # <<>> /\ s.observed # {} => order[1].partition = s.partition
  BY <1>1 DEF InLine
<1>5. ASSUME NEW i \in 1..Len(order), NEW j \in 1..Len(order), i < j
      PROVE  order[i].offset < order[j].offset
  <2>1. InLogOrder(order[i], order[j])
    BY <1>5 DEF InLog
  <2>2. order[i].partition = order[j].partition /\ order[i].partition \in Int
    BY <1>1, <1>3 DEF Logged
  <2> QED BY <2>1, <2>2 DEF InLogOrder
<1> QED BY <1>3, <1>4, <1>5

\* A pair whose rows are all of one partition is not refused.
LEMMA OnePartitionAccepted ==
  ASSUME NEW Rows, Timed(Rows), Logged(Rows), NEW s, NEW seen \in SUBSET Rows, NEW w, BaselineSound(Rows, s, seen, w),
         NEW rows \in SUBSET Rows, IsFiniteSet(rows), After(seen, rows),
         \A e, h \in seen \cup rows : e.partition = h.partition
  PROVE  HandleRows(s, rows).ok
<1>1. s \in StatisticsStates(Rows) /\ IsLatest(s) /\ OnePartition(s) /\ s.observed \subseteq seen /\ Places(rows)
  BY DEF BaselineSound, After
<1>0. PICK order, a : Handles(Rows, s, rows, order, a)
  BY <1>1, HandledBaseline
<1>2. InLog(rows, order) /\ Accumulates(Rows, s, order, a) /\ HandleRows(s, rows).ok = a.ok
  BY <1>0 DEF Handles
<1>3. order \in Seq(rows) /\ \A i \in 1..Len(order) : order[i] \in rows /\ order[i] \in Rows
  BY <1>2 DEF InLog
<1>4. ASSUME NEW i \in 1..Len(order) PROVE InLine(s, order, i)
  <2>1. CASE i = 1
    <3>1. order[1] \in rows
      BY <1>3, <1>4, <2>1
    <3>2. ASSUME s.observed # {} PROVE order[1].partition = s.partition /\ order[1].offset > s.offset
      <4>1. PICK e \in s.observed : e.offset = s.offset /\ e.partition = s.partition
        BY <1>1, <3>2 DEF OnePartition
      <4>2. e \in seen /\ e.partition = order[1].partition /\ e.offset < order[1].offset
        BY <1>1, <3>1, <4>1 DEF After
      <4>3. e.offset \in Int /\ order[1].offset \in Int
        BY <1>3, <1>4, <2>1, <4>2 DEF Logged
      <4> QED BY <4>1, <4>2, <4>3
    <3> QED BY <2>1, <3>2, Zenon DEF InLine
  <2>2. CASE i # 1
    <3>1. i - 1 \in 1..Len(order) /\ i - 1 < i
      BY <1>3, <1>4, <2>2
    <3>2. InLogOrder(order[i - 1], order[i])
      BY <1>2, <1>4, <3>1 DEF InLog
    <3>3. order[i].partition = order[i - 1].partition /\ order[i].partition \in Int
          /\ order[i].offset \in Int /\ order[i - 1].offset \in Int
      BY <1>3, <1>4, <3>1 DEF Logged
    <3>4. order[i].offset > order[i - 1].offset
      BY <3>2, <3>3 DEF InLogOrder
    <3> QED BY <2>2, <3>3, <3>4 DEF InLine
  <2> QED BY <2>1, <2>2
<1> QED BY <1>2, <1>4 DEF Accumulates

LEMMA TimerMoved ==
  ASSUME NEW Rows, Timed(Rows), NEW s \in StatisticsStates(Rows), NEW t \in StatisticsStates(Rows),
         s.observed \subseteq t.observed, t.observed # {}, IsLatest(s), IsLatest(t), OwnExpiry(s),
         t.timer = s.timer, t.registered = s.registered, NEW v, v = MoveTimer(s, t)
  PROVE  /\ v \in StatisticsStates(Rows) /\ OwnExpiry(v)
         /\ v.observed = t.observed /\ v.latest = t.latest /\ v.partition = t.partition /\ v.offset = t.offset
<1>1. /\ s.latest \in Nat /\ t.latest \in Nat /\ t.registered \in SUBSET Nat /\ s.timer \in Nat
      /\ t.observed \in SUBSET Rows
  BY DEF StatisticsStates
<1>2. /\ \E e \in t.observed : e.time = t.latest
      /\ \A e \in t.observed : e.time <= t.latest /\ e.time \in Nat
  BY <1>1 DEF IsLatest, Timed
<1>3. CASE s.observed # {} /\ s.latest >= t.latest
  <2>1. v = t
    BY <1>3 DEF MoveTimer
  <2>2. s.latest <= t.latest
    <3>1. PICK e \in s.observed : e.time = s.latest
      BY <1>3 DEF IsLatest
    <3> QED BY <1>2, <3>1
  <2>3. s.latest = t.latest
    BY <1>1, <1>3, <2>2
  <2>4. s.registered = {s.timer} /\ s.timer = CeilMillis(s.latest + InactivityTimeout)
    BY <1>3 DEF OwnExpiry
  <2>5. OwnExpiry(t)
    BY <2>3, <2>4 DEF OwnExpiry
  <2> QED BY <2>1, <2>5
<1>4. CASE ~(s.observed # {} /\ s.latest >= t.latest)
  <2>1. PICK replacement : replacement = CeilMillis(t.latest + InactivityTimeout)
    OBVIOUS
  <2>2. replacement \in Nat
    <3>1. t.latest + InactivityTimeout \in Nat
      BY <1>1, InactivityAssumption
    <3> QED BY <2>1, <3>1, CeilAbove
  <2>3. s.registered \ {s.timer} = {}
    BY DEF OwnExpiry
  <2>4. (t.registered \ {s.timer}) \cup {replacement} = {replacement}
    BY <2>3
  <2>5. v = [t EXCEPT !.timer = replacement, !.registered = {replacement}]
    BY <1>4, <2>1, <2>4 DEF MoveTimer
  <2>6. v \in StatisticsStates(Rows) /\ v.timer = replacement /\ v.registered = {replacement}
        /\ v.observed = t.observed /\ v.latest = t.latest /\ v.partition = t.partition /\ v.offset = t.offset
    BY <1>1, <2>2, <2>5 DEF StatisticsStates
  <2>7. OwnExpiry(v)
    BY <2>1, <2>6 DEF OwnExpiry
  <2> QED BY <2>6, <2>7
<1> QED BY <1>3, <1>4

LEMMA NoStatisticsTyped ==
  \A Rows : NoStatistics \in StatisticsStates(Rows) /\ NoStatistics.observed = {} /\ NoStatistics.registered = {}
            /\ IsLatest(NoStatistics) /\ OwnExpiry(NoStatistics) /\ OnePartition(NoStatistics)
BY DEF NoStatistics, StatisticsStates, NoTimer, IsLatest, OwnExpiry, OnePartition

LEMMA ExpiryFires ==
  ASSUME NEW Rows, NEW s \in StatisticsStates(Rows), NEW t \in Nat
  PROVE  /\ FireExpiry(s, t) \in StatisticsStates(Rows)
         /\ s.observed # {} /\ s.timer = t /\ s.registered = {t} => FireExpiry(s, t) = NoStatistics
<1>1. s.registered \in SUBSET Nat
  BY DEF StatisticsStates
<1>2. PICK v : v = [NoStatistics EXCEPT !.registered = s.registered]
  OBVIOUS
<1>3. v \in StatisticsStates(Rows) /\ v.registered = s.registered /\ [v EXCEPT !.registered = {}] = NoStatistics
  <2>1. v = [observed |-> {}, latest |-> 0, timer |-> NoTimer, partition |-> 0, offset |-> 0,
             registered |-> s.registered]
    BY <1>2 DEF NoStatistics
  <2>2. v \in StatisticsStates(Rows) /\ v.registered = s.registered
    BY <1>1, <2>1 DEF StatisticsStates, NoTimer
  <2>3. [v EXCEPT !.registered = {}] = NoStatistics
    BY <2>1 DEF NoStatistics
  <2> QED BY <2>2, <2>3
<1>4. ExpireTimer(s, t) = IF s.observed # {} /\ s.timer = t THEN v ELSE s
  BY <1>2, Zenon DEF ExpireTimer
<1>5. PICK e : e = ExpireTimer(s, t)
  OBVIOUS
<1>6. e \in StatisticsStates(Rows) /\ e.registered = s.registered
  BY <1>3, <1>4, <1>5
<1>7. FireExpiry(s, t) = [e EXCEPT !.registered = s.registered \ {t}]
  BY <1>5, <1>6, Zenon DEF FireExpiry
<1>8. [e EXCEPT !.registered = s.registered \ {t}] \in StatisticsStates(Rows)
  BY <1>1, <1>6 DEF StatisticsStates
<1>9. ASSUME s.observed # {}, s.timer = t, s.registered = {t}
      PROVE  FireExpiry(s, t) = NoStatistics
  <2>1. e = v /\ s.registered \ {t} = {}
    BY <1>4, <1>5, <1>9
  <2> QED BY <1>3, <1>7, <2>1
<1> QED BY <1>7, <1>8, <1>9

ExpiriesFired(start, timers) == FoldLeft(FireExpiry, start, timers)

\* One timer after the other.
LEMMA ExpiryFold ==
  ASSUME NEW Rows, NEW start \in StatisticsStates(Rows)
  PROVE  /\ ExpiriesFired(start, <<>>) = start
         /\ \A s \in Seq(Nat) : ExpiriesFired(start, s) \in StatisticsStates(Rows)
         /\ \A s \in Seq(Nat), x \in Nat : ExpiriesFired(start, Append(s, x)) = FireExpiry(ExpiriesFired(start, s), x)
<1> DEFINE h == [p \in StatisticsStates(Rows) \X Nat |-> FireExpiry(p[1], p[2])]
<1>1. /\ h \in [StatisticsStates(Rows) \X Nat -> StatisticsStates(Rows)]
      /\ \A a \in StatisticsStates(Rows), x \in Nat : h[<<a, x>>] = FireExpiry(a, x)
  BY ExpiryFires
<1> HIDE DEF h
<1>2. start \in StatisticsStates(Rows)
  OBVIOUS
<1>3. HasValues(StatisticsStates(Rows), Nat, h, start)
      /\ \E F : IsFold(StatisticsStates(Rows), Nat, h, start, F) /\ EndsValues(StatisticsStates(Rows), Nat, h, start, F)
  BY <1>1, <1>2, FoldRuns
<1>4. PICK F : IsFold(StatisticsStates(Rows), Nat, h, start, F) /\ EndsValues(StatisticsStates(Rows), Nat, h, start, F)
  BY <1>3
<1>5. ASSUME NEW s \in Seq(Nat) PROVE ExpiriesFired(start, s) = F[s]
  <2> DEFINE unroll(g) ==
        [t \in SUBSET (DOMAIN s) |->
           IF t = {} THEN start ELSE FireExpiry(g[t \ {Max(t)}], s[Max(t)])]
  <2>1. PICK g \in [SUBSET (DOMAIN s) -> StatisticsStates(Rows)] : Values(h, start, s, g)
    BY <1>3 DEF HasValues
  <2>2. g = unroll(g)
    <3>1. \A t \in SUBSET (DOMAIN s) :
            t # {} => h[<<g[t \ {Max(t)}], s[Max(t)]>>] = FireExpiry(g[t \ {Max(t)}], s[Max(t)])
      BY <1>1, <2>1, DomainMax
    <3> QED BY <2>1, <3>1 DEF Values
  <2>3. PICK f : f = CHOOSE e : e = unroll(e)
    OBVIOUS
  <2>4. f = unroll(f)
    BY <2>2, <2>3, Zenon
  <2>5. Reaches(StatisticsStates(Rows), h, start, s, f)
    <3>1. f[{}] = start
      BY <2>4
    <3>2. ASSUME NEW t \in SUBSET (DOMAIN s), t # {}, f[t \ {Max(t)}] \in StatisticsStates(Rows)
          PROVE  f[t] = h[<<f[t \ {Max(t)}], s[Max(t)]>>]
      <4>1. f[t] = FireExpiry(f[t \ {Max(t)}], s[Max(t)])
        BY <2>4, <3>2
      <4>2. s[Max(t)] \in Nat
        BY <3>2, DomainMax
      <4> QED BY <1>1, <3>2, <4>1, <4>2
    <3> QED BY <3>1, <3>2 DEF Reaches
  <2>6. ExpiriesFired(start, s) = f[DOMAIN s]
    BY <2>3, Zenon DEF ExpiriesFired, FoldLeft, MapThenFoldSet
  <2> QED BY <1>4, <2>5, <2>6 DEF EndsValues
<1>6. <<>> \in Seq(Nat) /\ \A s \in Seq(Nat), x \in Nat : Append(s, x) \in Seq(Nat)
  OBVIOUS
<1>7. \A s \in Seq(Nat) : F[s] \in StatisticsStates(Rows)
  BY <1>4 DEF IsFold
<1>8. \A s \in Seq(Nat), x \in Nat : F[Append(s, x)] = FireExpiry(F[s], x)
  BY <1>1, <1>4, <1>7 DEF IsFold
<1> QED BY <1>4, <1>5, <1>6, <1>7, <1>8 DEF IsFold

LEMMA ExpiryOnce ==
  ASSUME NEW Rows, NEW s \in StatisticsStates(Rows), NEW due \in Nat, OwnExpiry(s)
  PROVE  FireExpiries(s, due) = IF s.observed # {} /\ s.timer < due THEN NoStatistics ELSE s
<1>1. s.timer \in Nat
  BY DEF StatisticsStates
<1>2. FireExpiries(s, due) = ExpiriesFired(s, DueTimers(s.registered, due))
  BY Zenon DEF FireExpiries, ExpiriesFired
<1>3. ExpiriesFired(s, <<>>) = s
  BY ExpiryFold, Zenon
<1>4. CASE ~(s.observed # {} /\ s.timer < due)
  <2>1. s.registered = {} \/ (s.registered = {s.timer} /\ ~(s.timer < due))
    BY <1>4 DEF OwnExpiry
  <2>2. DueTimers(s.registered, due) = <<>>
    BY <1>1, <2>1, OneDueTimer
  <2> QED BY <1>2, <1>3, <1>4, <2>2
<1>5. CASE s.observed # {} /\ s.timer < due
  <2>1. PICK t \in Nat : t = s.timer
    BY <1>1
  <2>2. s.registered = {t} /\ t < due
    BY <1>5, <2>1 DEF OwnExpiry
  <2>3. DueTimers(s.registered, due) = Append(<<>>, t)
    BY <2>2, OneDueTimer
  <2>4. FireExpiries(s, due) = FireExpiry(s, t)
    <3>1. <<>> \in Seq(Nat)
      OBVIOUS
    <3>2. \A z \in Seq(Nat), x \in Nat :
            ExpiriesFired(s, Append(z, x)) = FireExpiry(ExpiriesFired(s, z), x)
      BY ExpiryFold, SMT
    <3>3. ExpiriesFired(s, Append(<<>>, t)) = FireExpiry(ExpiriesFired(s, <<>>), t)
      BY <3>1, <3>2, Zenon
    <3> QED BY <1>2, <1>3, <2>3, <3>3, Zenon
  <2>5. FireExpiry(s, t) = NoStatistics
    BY <1>5, <2>1, <2>2, ExpiryFires
  <2> QED BY <1>5, <2>4, <2>5
<1> QED BY <1>4, <1>5

\* The baseline after the rows of a batch and before its timers.
LEMMA ObservedBaseline ==
  ASSUME NEW Rows, Timed(Rows), Logged(Rows), NEW s, NEW seen \in SUBSET Rows, NEW w, BaselineSound(Rows, s, seen, w),
         NEW rows \in SUBSET Rows, IsFiniteSet(rows), After(seen, rows),
         HandleRows(s, rows).ok, NEW u, u = HandleRows(s, rows).state
  PROVE  /\ u \in StatisticsStates(Rows) /\ u.observed = s.observed \cup rows
         /\ IsLatest(u) /\ OwnExpiry(u) /\ OnePartition(u)
<1>1. s \in StatisticsStates(Rows) /\ IsLatest(s) /\ OwnExpiry(s) /\ OnePartition(s) /\ Places(rows)
  BY DEF BaselineSound, After
<1>0. PICK order, a : Handles(Rows, s, rows, order, a)
  BY <1>1, HandledBaseline
<1>2. /\ InLog(rows, order) /\ Accumulates(Rows, s, order, a)
      /\ HandleRows(s, rows).ok = a.ok
      /\ HandleRows(s, rows).state = IF rows = {} THEN s ELSE MoveTimer(s, a.state)
  BY <1>0 DEF Handles
<1>3. CASE rows = {}
  BY <1>1, <1>2, <1>3
<1>4. CASE rows # {}
  <2>1. order \in Seq(rows) /\ Len(order) \in Nat /\ {order[i] : i \in 1..Len(order)} = rows /\ order # <<>>
        /\ Len(order) \in 1..Len(order)
    <3>1. order \in Seq(rows) /\ Len(order) \in Nat /\ {order[i] : i \in 1..Len(order)} = rows
      BY <1>2 DEF InLog
    <3>2. Len(order) # 0
      BY <1>4, <3>1
    <3> QED BY <3>1, <3>2
  <2>2. PICK t : t = a.state
    OBVIOUS
  <2>3. /\ t \in StatisticsStates(Rows) /\ t.observed = s.observed \cup rows /\ IsLatest(t)
        /\ t.timer = s.timer /\ t.registered = s.registered
        /\ t.partition = order[Len(order)].partition /\ t.offset = order[Len(order)].offset
        /\ \A i \in 1..Len(order) : InLine(s, order, i)
    BY <1>2, <2>1, <2>2 DEF Accumulates, Accumulated
  <2>4. u = MoveTimer(s, t)
    BY <1>2, <1>4, <2>2
  <2>5. /\ u \in StatisticsStates(Rows) /\ OwnExpiry(u) /\ u.observed = t.observed /\ u.latest = t.latest
        /\ u.partition = t.partition /\ u.offset = t.offset
    BY <1>1, <1>4, <2>3, <2>4, TimerMoved
  <2>6. IsLatest(u)
    BY <2>3, <2>5 DEF IsLatest
  <2>7. OnePartition(u)
    <3>1. /\ \A i \in 1..Len(order) : order[i].partition = order[1].partition
          /\ s.observed # {} => order[1].partition = s.partition
      <4>1. /\ \A i \in 1..Len(order) : order[i].partition = order[1].partition
            /\ order # <<>> /\ s.observed # {} => order[1].partition = s.partition
        BY <1>2, <2>3, InLinePartition
      <4> QED BY <2>1, <4>1
    <3>2. \A e \in rows : e.partition = u.partition
      <4>1. ASSUME NEW e \in rows PROVE e.partition = u.partition
        <5>1. PICK i \in 1..Len(order) : order[i] = e
          BY <2>1
        <5> QED BY <2>1, <2>3, <2>5, <3>1, <5>1
      <4> QED BY <4>1
    <3>3. \A e \in s.observed : e.partition = u.partition
      BY <1>1, <2>1, <2>3, <2>5, <3>1 DEF OnePartition
    <3>4. order[Len(order)] \in rows /\ order[Len(order)].offset = u.offset
      BY <2>1, <2>3, <2>5
    <3> QED BY <2>3, <2>5, <3>2, <3>3, <3>4 DEF OnePartition
  <2> QED BY <2>3, <2>5, <2>6, <2>7
<1> QED BY <1>3, <1>4

\* A row comes later than whatever its pair has forgotten.
LEMMA ForgottenBefore ==
  ASSUME NEW Rows, Timed(Rows), NEW s, NEW seen \in SUBSET Rows, NEW w \in Nat, BaselineSound(Rows, s, seen, w),
         NEW rows \in SUBSET Rows, After(seen, rows), \A e \in rows : e.time > w * Milli
  PROVE  \A e \in seen \ s.observed, h \in s.observed \cup rows : Forgets(e, h)
<1>1. w * Milli \in Nat /\ InactivityTimeout \in Nat
  BY EventTimeAssumption, InactivityAssumption
<1>2. ASSUME NEW e \in seen \ s.observed, NEW h \in rows PROVE Forgets(e, h)
  <2>1. e.time \in Nat /\ h.time \in Nat
    BY DEF Timed
  <2>2. e.time + InactivityTimeout <= w * Milli
    BY DEF BaselineSound
  <2>3. h.time > e.time + InactivityTimeout
    BY <1>1, <2>1, <2>2
  <2>4. e.partition = h.partition => e.offset < h.offset
    BY DEF After
  <2> QED BY <2>3, <2>4 DEF Forgets
<1> QED BY <1>2 DEF BaselineSound

LEMMA BaselineBatch ==
  ASSUME NEW Rows, Timed(Rows), Logged(Rows), NEW s, NEW seen \in SUBSET Rows, NEW w \in Nat, NEW due \in Nat,
         w <= due, BaselineSound(Rows, s, seen, w),
         NEW rows \in SUBSET Rows, IsFiniteSet(rows), After(seen, rows), \A e \in rows : e.time > w * Milli,
         HandleRows(s, rows).ok
  PROVE  BaselineSound(Rows, FireExpiries(HandleRows(s, rows).state, due), seen \cup rows, due)
<1>1. PICK u : u = HandleRows(s, rows).state
  OBVIOUS
<1>2. /\ u \in StatisticsStates(Rows) /\ u.observed = s.observed \cup rows
      /\ IsLatest(u) /\ OwnExpiry(u) /\ OnePartition(u)
  BY <1>1, ObservedBaseline
<1>3. s.observed \subseteq seen /\ s.observed \in SUBSET Rows /\ u.timer \in Nat /\ u.latest \in Nat
  BY <1>2 DEF BaselineSound, StatisticsStates
<1>4. w * Milli \in Nat /\ due * Milli \in Nat /\ w * Milli <= due * Milli /\ InactivityTimeout \in Nat
  BY EventTimeAssumption, InactivityAssumption
<1>5. PICK q : q = FireExpiries(u, due)
  OBVIOUS
<1>6. q = IF u.observed # {} /\ u.timer < due THEN NoStatistics ELSE u
  BY <1>2, <1>5, ExpiryOnce
<1>7. \A e \in seen \cup rows : e.time \in Nat
  BY DEF Timed
<1>8. \A e \in (seen \cup rows) \ u.observed : e.time + InactivityTimeout <= due * Milli
  <2>1. ASSUME NEW e \in (seen \cup rows) \ u.observed PROVE e.time + InactivityTimeout <= due * Milli
    <3>1. e \in seen \ s.observed
      BY <1>2
    <3>2. e.time + InactivityTimeout <= w * Milli
      BY <3>1 DEF BaselineSound
    <3> QED BY <1>4, <1>7, <3>2
  <2> QED BY <2>1
<1>9. CASE u.observed # {} /\ u.timer < due
  <2>1. q = NoStatistics
    BY <1>6, <1>9
  <2>2. u.timer = CeilMillis(u.latest + InactivityTimeout)
    BY <1>2, <1>9 DEF OwnExpiry
  <2>3. u.latest + InactivityTimeout <= due * Milli
    <3>1. u.latest + InactivityTimeout \in Nat
      BY <1>3, <1>4
    <3> QED BY <1>9, <2>2, <3>1, CeilAbove
  <2>4. \A e \in u.observed : e.time + InactivityTimeout <= due * Milli
    <3>1. \A e \in u.observed : e.time <= u.latest /\ e.time \in Nat
      BY <1>2, <1>3, <1>7 DEF IsLatest
    <3> QED BY <1>3, <1>4, <2>3, <3>1
  <2>5. \A e \in seen \cup rows : e.time + InactivityTimeout <= due * Milli
    BY <1>8, <2>4
  <2> QED BY <1>1, <1>5, <2>1, <2>5, NoStatisticsTyped DEF BaselineSound
<1>10. CASE ~(u.observed # {} /\ u.timer < due)
  <2>1. q = u
    BY <1>6, <1>10
  <2>2. u.observed # {} => u.timer >= due
    BY <1>3, <1>10
  <2>3. \A e \in seen \ s.observed, h \in s.observed \cup rows : Forgets(e, h)
    BY ForgottenBefore
  <2>4. \A e \in (seen \cup rows) \ u.observed, h \in u.observed : Forgets(e, h)
    BY <1>2, <2>3
  <2> QED BY <1>1, <1>2, <1>3, <1>5, <1>8, <2>1, <2>2, <2>4 DEF BaselineSound
<1> QED BY <1>9, <1>10

\* What a row of a batch is told: the rows before it in its partition, save
\* those forgotten.
Told(seen, rows, f) ==
  LET earlier == seen \cup {e \in rows : e.offset < f.event.offset}
  IN /\ f.prior \subseteq earlier
     /\ \A e \in f.prior : e.partition = f.event.partition /\ e.offset < f.event.offset
     /\ \A e \in earlier \ f.prior, h \in f.prior \cup {f.event} : Forgets(e, h)

LEMMA OutputsTold ==
  ASSUME NEW Rows, Timed(Rows), Logged(Rows), NEW s, NEW seen \in SUBSET Rows, NEW w \in Nat,
         BaselineSound(Rows, s, seen, w),
         NEW rows \in SUBSET Rows, IsFiniteSet(rows), After(seen, rows), \A e \in rows : e.time > w * Milli,
         HandleRows(s, rows).ok, NEW f \in HandleRows(s, rows).out
  PROVE  Told(seen, rows, f)
<1>1. s \in StatisticsStates(Rows) /\ IsLatest(s) /\ OnePartition(s) /\ s.observed \subseteq seen /\ Places(rows)
  BY DEF BaselineSound, After
<1>0. PICK order, a : Handles(Rows, s, rows, order, a)
  BY <1>1, HandledBaseline
<1>2. /\ InLog(rows, order) /\ Accumulates(Rows, s, order, a)
      /\ HandleRows(s, rows).ok = a.ok /\ HandleRows(s, rows).out = a.out
  BY <1>0 DEF Handles
<1>3. order \in Seq(rows) /\ Len(order) \in Nat /\ {order[i] : i \in 1..Len(order)} = rows
      /\ \A i \in 1..Len(order) : order[i] \in rows
  BY <1>2 DEF InLog
<1>4. PICK i \in 1..Len(order) : f = OutputOf(order[i], Prior(s, order, i))
  BY <1>2 DEF Accumulates
<1>5. f.event = order[i] /\ f.prior = s.observed \cup {order[j] : j \in 1..(i - 1)}
  BY <1>4 DEF OutputOf, Prior
<1>6. /\ \A m \in 1..Len(order) : order[m].partition = order[1].partition
      /\ order # <<>> /\ s.observed # {} => order[1].partition = s.partition
      /\ \A m, n \in 1..Len(order) : m < n => order[m].offset < order[n].offset
  <2>1. \A m \in 1..Len(order) : InLine(s, order, m)
    BY <1>2 DEF Accumulates
  <2> QED BY <1>2, <2>1, InLinePartition
<1>7. \A e \in rows : e.offset \in Int
  BY DEF Logged
<1>8. {order[j] : j \in 1..(i - 1)} = {e \in rows : e.offset < order[i].offset}
  <2>1. ASSUME NEW j \in 1..(i - 1) PROVE order[j] \in rows /\ order[j].offset < order[i].offset
    <3>1. j \in 1..Len(order) /\ j < i
      BY <1>3
    <3> QED BY <1>3, <1>6, <3>1
  <2>2. ASSUME NEW e \in rows, e.offset < order[i].offset PROVE \E j \in 1..(i - 1) : order[j] = e
    <3>1. PICK j \in 1..Len(order) : order[j] = e
      BY <1>3
    <3>2. i < j => order[i].offset < order[j].offset
      BY <1>6
    <3>3. order[i].offset \in Int /\ order[j].offset \in Int
      BY <1>3, <1>7
    <3>4. j < i
      <4>1. i # j /\ ~(i < j)
        BY <2>2, <3>1, <3>2, <3>3
      <4>2. i \in Int /\ j \in Int
        BY <1>3
      <4> QED BY <4>1, <4>2
    <3> QED BY <3>1, <3>4
  <2> QED BY <2>1, <2>2
<1>9. PICK before : before = {e \in rows : e.offset < f.event.offset}
  OBVIOUS
<1>10. f.prior = s.observed \cup before /\ before \subseteq rows /\ f.event \in rows
  BY <1>3, <1>5, <1>8, <1>9
<1>11. \A e \in f.prior : e.partition = f.event.partition /\ e.offset < f.event.offset
  <2>1. ASSUME NEW e \in before PROVE e.partition = f.event.partition /\ e.offset < f.event.offset
    <3>1. PICK j \in 1..Len(order) : order[j] = e
      BY <1>3, <1>9
    <3> QED BY <1>5, <1>6, <1>9, <3>1
  <2>2. ASSUME NEW e \in s.observed PROVE e.partition = f.event.partition /\ e.offset < f.event.offset
    <3>1. e.partition = s.partition /\ order # <<>>
      BY <1>1, <1>3 DEF OnePartition
    <3>2. e.partition = f.event.partition
      BY <1>5, <1>6, <3>1
    <3> QED BY <1>1, <1>10, <3>2 DEF After
  <2> QED BY <1>10, <2>1, <2>2
<1>12. \A e \in (seen \cup before) \ f.prior, h \in f.prior \cup {f.event} : Forgets(e, h)
  <2>1. \A e \in seen \ s.observed, h \in s.observed \cup rows : Forgets(e, h)
    BY ForgottenBefore
  <2> QED BY <1>10, <2>1
<1>13. f.prior \subseteq seen \cup before
  BY <1>1, <1>10
<1> QED BY <1>9, <1>11, <1>12, <1>13 DEF Told

-----------------------------------------------------------------------------
(* The application of the statistics. *)

PairRows(Rows) == {r \in Rows : r.key \in CustomerCurrencies}

\* The rows of a pair come in the order of their partition's log.
InPartitionOrder(s) ==
  /\ \A i \in 1..Len(s) : \A e, h \in s[i] :
       e.key \in CustomerCurrencies /\ e.key = h.key /\ e.partition = h.partition /\ e.offset = h.offset => e = h
  /\ \A i, j \in 1..Len(s) : i < j =>
       \A e \in s[i], h \in s[j] :
         e.key \in CustomerCurrencies /\ e.key = h.key /\ e.partition = h.partition => e.offset < h.offset

\* The rows come in log order, and on its pairs the operator is that of the
\* statistics.
StatisticsOf(Rows, Sources) ==
  /\ KeyedSource(Rows, Sources)
  /\ Logged(PairRows(Rows))
  /\ \A s \in Sources : InPartitionOrder(s)
  /\ \A k \in CustomerCurrencies : InitialState[k] = NoStatistics
  /\ \A state, late, due : \A rows \in Versions(Rows) : \A r \in Process(state, rows, late, due) :
       \E q \in StatisticsBatch(state, rows, late, due) :
         /\ r.ok = q.ok
         /\ \A k \in CustomerCurrencies :
              r.state[k] = q.state[k] /\ {f \in r.out : f.key = k} = {f \in q.out : f.key = k}

HandledIn(b, k) == HandleRows(StateBefore(b)[k], AcceptedOf(b, k))

BaselinesBefore(Rows, b) ==
  \A k \in CustomerCurrencies :
    BaselineSound(PairRows(Rows), StateBefore(b)[k], SeenOf(b - 1, k), Watermark(b - 1))
BaselinesAfter(Rows, b) ==
  \A k \in CustomerCurrencies : BaselineSound(PairRows(Rows), states[b][k], SeenOf(b, k), Watermark(b))

LEMMA PairTimed ==
  ASSUME NEW Rows, NEW Sources, StatisticsOf(Rows, Sources)
  PROVE  KeyedSource(Rows, Sources) /\ Timed(PairRows(Rows)) /\ Logged(PairRows(Rows))
BY DEF StatisticsOf, KeyedSource, Timed, PairRows

LEMMA PairInput ==
  ASSUME NEW Rows, NEW Sources, StatisticsOf(Rows, Sources), KeyedInv(Rows, Sources),
         NEW b \in 1..Len(offsets), NEW k \in CustomerCurrencies
  PROVE  /\ SeenOf(b - 1, k) \in SUBSET PairRows(Rows)
         /\ AcceptedOf(b, k) \in SUBSET PairRows(Rows) /\ IsFiniteSet(AcceptedOf(b, k))
         /\ \A e \in AcceptedOf(b, k) : e.time > Watermark(b - 1) * Milli
         /\ After(SeenOf(b - 1, k), AcceptedOf(b, k))
         /\ SeenOf(b, k) = SeenOf(b - 1, k) \cup AcceptedOf(b, k)
         /\ Watermark(b - 1) \in Nat /\ Watermark(b) \in Nat /\ Watermark(b - 1) <= Watermark(b)
<1>1. KeyedSource(Rows, Sources) /\ InPartitionOrder(source)
  BY DEF StatisticsOf, KeyedInv
<1>2. b \in Nat \ {0} /\ b - 1 \in 0..Len(offsets)
      /\ Watermark(b - 1) \in Nat /\ Watermark(b) \in Nat /\ Watermark(b - 1) <= Watermark(b)
  BY BatchNumbers DEF KeyedInv
<1>3. /\ IsFiniteSet(AcceptedOf(b, k)) /\ AcceptedOf(b, k) \subseteq Input(b)
      /\ \A e \in AcceptedOf(b, k) : e \in Rows /\ e.time > Watermark(b - 1) * Milli /\ e.key = k
  BY <1>1, AcceptedOnTime
<1>4. \A a \in 1..(b - 1) : a \in 1..Len(offsets)
  BY <1>2
<1>5. ASSUME NEW a \in 1..(b - 1), NEW e \in AcceptedOf(a, k)
      PROVE  e \in Rows /\ e.key = k /\ e \in Input(a)
  BY <1>1, <1>4, <1>5, AcceptedOnTime
<1>6. SeenOf(b - 1, k) \in SUBSET PairRows(Rows)
  BY <1>5 DEF SeenOf, PairRows
<1>7. ASSUME NEW e \in SeenOf(b - 1, k), NEW h \in AcceptedOf(b, k), e.partition = h.partition
      PROVE  e.offset < h.offset
  <2>1. PICK a \in 1..(b - 1) : e \in AcceptedOf(a, k)
    BY DEF SeenOf
  <2>2. e \in Input(a) /\ h \in Input(b) /\ e.key = k /\ h.key = k
    BY <1>3, <1>5, <2>1
  <2>3. \E i, j \in 1..Len(source) : i < j /\ e \in source[i] /\ h \in source[j]
    BY <2>2, EarlierVersion DEF KeyedInv
  <2> QED BY <1>1, <1>7, <2>2, <2>3 DEF InPartitionOrder
<1>8. Places(AcceptedOf(b, k))
  <2>1. SUFFICES ASSUME NEW e \in AcceptedOf(b, k), NEW h \in AcceptedOf(b, k),
                        e.partition = h.partition, e.offset = h.offset
                 PROVE  e = h
    BY DEF Places
  <2>2. /\ Position(b - 1) \in Nat /\ Position(b) \in Nat /\ Position(b) <= Len(source) /\ Len(source) \in Nat
    BY BatchNumbers DEF KeyedInv
  <2>3. /\ \E i \in (Position(b - 1) + 1)..Position(b) : e \in source[i]
        /\ \E j \in (Position(b - 1) + 1)..Position(b) : h \in source[j]
    BY <1>3 DEF Input
  <2>4. PICK i \in 1..Len(source), j \in 1..Len(source) : e \in source[i] /\ h \in source[j]
    BY <2>2, <2>3
  <2>5. e.key = k /\ h.key = k /\ e.offset \in Int
    <3>1. e \in PairRows(Rows)
      BY <1>3 DEF PairRows
    <3> QED BY <1>3, <3>1 DEF StatisticsOf, Logged
  <2>6. i = j \/ i < j \/ j < i
    BY <2>2
  <2> QED BY <1>1, <2>1, <2>4, <2>5, <2>6 DEF InPartitionOrder
<1>9. SeenOf(b, k) = SeenOf(b - 1, k) \cup AcceptedOf(b, k)
  BY <1>2, SeenGrows
<1> QED BY <1>2, <1>3, <1>6, <1>7, <1>8, <1>9 DEF After, PairRows

\* What an accepted batch leaves, and why one is refused.
LEMMA HandledPair ==
  ASSUME NEW Rows, NEW Sources, StatisticsOf(Rows, Sources), KeyedInv(Rows, Sources),
         NEW b \in 1..Len(offsets), BaselinesBefore(Rows, b), NEW k \in CustomerCurrencies
  PROVE  /\ HandledIn(b, k).ok =>
              BaselineSound(PairRows(Rows), FireExpiries(HandledIn(b, k).state, Watermark(b)), SeenOf(b, k), Watermark(b))
         /\ HandledIn(b, k).ok => \A f \in HandledIn(b, k).out : Told(SeenOf(b - 1, k), AcceptedOf(b, k), f)
         /\ ~HandledIn(b, k).ok => \E e, f \in SeenOf(b, k) : e.partition # f.partition
         /\ \A f \in HandledIn(b, k).out : f.key = k
<1>1. PICK P, s, seen, rows, w, due :
        /\ P = PairRows(Rows) /\ s = StateBefore(b)[k] /\ seen = SeenOf(b - 1, k) /\ rows = AcceptedOf(b, k)
        /\ w = Watermark(b - 1) /\ due = Watermark(b)
  OBVIOUS
<1>2. Timed(P) /\ Logged(P)
  BY <1>1, PairTimed
<1>3. /\ seen \in SUBSET P /\ rows \in SUBSET P /\ IsFiniteSet(rows) /\ After(seen, rows)
      /\ \A e \in rows : e.time > w * Milli
      /\ SeenOf(b, k) = seen \cup rows /\ w \in Nat /\ due \in Nat /\ w <= due
  BY <1>1, PairInput
<1>4. BaselineSound(P, s, seen, w)
  BY <1>1 DEF BaselinesBefore
<1>5. HandledIn(b, k) = HandleRows(s, rows)
  BY <1>1 DEF HandledIn
<1>6. HandleRows(s, rows).ok => BaselineSound(P, FireExpiries(HandleRows(s, rows).state, due), seen \cup rows, due)
  BY <1>2, <1>3, <1>4, BaselineBatch
<1>7. HandleRows(s, rows).ok => \A f \in HandleRows(s, rows).out : Told(seen, rows, f)
  BY <1>2, <1>3, <1>4, OutputsTold
<1>8. ~HandleRows(s, rows).ok => \E e, f \in seen \cup rows : e.partition # f.partition
  BY <1>2, <1>3, <1>4, OnePartitionAccepted
<1>9. \A f \in HandleRows(s, rows).out : f.key = k
  <2>1. s \in StatisticsStates(P) /\ IsLatest(s) /\ Places(rows)
    BY <1>3, <1>4 DEF BaselineSound, After
  <2>2. PICK order, a : Handles(P, s, rows, order, a)
    BY <1>2, <1>3, <2>1, HandledBaseline
  <2>3. /\ HandleRows(s, rows).out = {OutputOf(order[i], Prior(s, order, i)) : i \in 1..Len(order)}
        /\ \A i \in 1..Len(order) : order[i] \in rows
    BY <2>2 DEF Handles, InLog, Accumulates
  <2>4. \A e \in rows : e.key = k
    BY <1>1 DEF AcceptedOf
  <2> QED BY <2>3, <2>4 DEF OutputOf
<1>10. /\ HandleRows(s, rows).ok => BaselineSound(P, FireExpiries(HandleRows(s, rows).state, due), SeenOf(b, k), due)
       /\ ~HandleRows(s, rows).ok => \E e, f \in SeenOf(b, k) : e.partition # f.partition
  BY <1>3, <1>6, <1>8
<1>11. /\ HandledIn(b, k).ok => BaselineSound(P, FireExpiries(HandledIn(b, k).state, due), SeenOf(b, k), due)
       /\ HandledIn(b, k).ok => \A f \in HandledIn(b, k).out : Told(seen, rows, f)
       /\ ~HandledIn(b, k).ok => \E e, f \in SeenOf(b, k) : e.partition # f.partition
       /\ \A f \in HandledIn(b, k).out : f.key = k
  BY <1>5, <1>7, <1>9, <1>10
<1> QED BY <1>1, <1>11

LEMMA StatisticsResult ==
  ASSUME NEW Rows, NEW Sources, StatisticsOf(Rows, Sources), KeyedInv(Rows, Sources),
         NEW b \in 1..Len(offsets), BaselinesBefore(Rows, b), NEW r \in Results(b)
  PROVE  /\ r.ok => \A k \in CustomerCurrencies :
              /\ BaselineSound(PairRows(Rows), r.state[k], SeenOf(b, k), Watermark(b))
              /\ {f \in r.out : f.key = k} = HandledIn(b, k).out
              /\ \A f \in HandledIn(b, k).out : Told(SeenOf(b - 1, k), AcceptedOf(b, k), f)
         /\ r.ok \/ \E k \in CustomerCurrencies : \E e, f \in SeenOf(b, k) : e.partition # f.partition
<1> DEFINE handled == [k \in CustomerCurrencies |-> HandledIn(b, k)]
           ok == \A k \in CustomerCurrencies : handled[k].ok
<1>1. Input(b) \in Versions(Rows)
  BY InputInRows DEF KeyedInv, EngineInv
<1>2. r \in Process(StateBefore(b), Input(b), Watermark(b - 1), Watermark(b))
  BY Zenon DEF Results
<1>3. PICK q \in StatisticsBatch(StateBefore(b), Input(b), Watermark(b - 1), Watermark(b)) :
        /\ r.ok = q.ok
        /\ \A k \in CustomerCurrencies :
             r.state[k] = q.state[k] /\ {f \in r.out : f.key = k} = {f \in q.out : f.key = k}
  <2>1. \A rows \in Versions(Rows) : \A p \in Process(StateBefore(b), rows, Watermark(b - 1), Watermark(b)) :
          \E q \in StatisticsBatch(StateBefore(b), rows, Watermark(b - 1), Watermark(b)) :
            /\ p.ok = q.ok
            /\ \A k \in CustomerCurrencies :
                 p.state[k] = q.state[k] /\ {f \in p.out : f.key = k} = {f \in q.out : f.key = k}
    BY DEF StatisticsOf
  <2> QED BY <1>1, <1>2, <2>1, Zenon
<1>4. q = [ok |-> ok,
           state |-> [k \in CustomerCurrencies |-> FireExpiries(handled[k].state, Watermark(b))],
           out |-> IF ok THEN UNION {handled[k].out : k \in CustomerCurrencies} ELSE {}]
  BY <1>3, Zenon DEF StatisticsBatch, AcceptedOf, HandledIn
<1>5. \A k \in CustomerCurrencies :
        /\ handled[k].ok =>
             BaselineSound(PairRows(Rows), FireExpiries(handled[k].state, Watermark(b)), SeenOf(b, k), Watermark(b))
        /\ handled[k].ok => \A f \in handled[k].out : Told(SeenOf(b - 1, k), AcceptedOf(b, k), f)
        /\ ~handled[k].ok => \E e, f \in SeenOf(b, k) : e.partition # f.partition
        /\ \A f \in handled[k].out : f.key = k
  BY HandledPair
<1>6. \A k \in CustomerCurrencies : handled[k] = HandledIn(b, k)
  OBVIOUS
<1> HIDE DEF handled
<1>7. r.ok <=> ok
  <2>1. q.ok = ok
    BY <1>4
  <2> QED BY <1>3, <2>1
<1>8. ASSUME r.ok, NEW k \in CustomerCurrencies
      PROVE  /\ BaselineSound(PairRows(Rows), r.state[k], SeenOf(b, k), Watermark(b))
             /\ {f \in r.out : f.key = k} = HandledIn(b, k).out
             /\ \A f \in HandledIn(b, k).out : Told(SeenOf(b - 1, k), AcceptedOf(b, k), f)
  <2>1. ok /\ handled[k].ok
    BY <1>7, <1>8
  <2>2. r.state[k] = FireExpiries(handled[k].state, Watermark(b))
    BY <1>3, <1>4
  <2>3. {f \in r.out : f.key = k} = handled[k].out
    <3>1. q.out = UNION {handled[d].out : d \in CustomerCurrencies}
      BY <1>4, <2>1
    <3>2. {f \in q.out : f.key = k} = handled[k].out
      BY <1>5, <3>1
    <3> QED BY <1>3, <3>2
  <2> QED BY <1>5, <1>6, <2>1, <2>2, <2>3
<1>9. ASSUME ~r.ok
      PROVE  \E k \in CustomerCurrencies : \E e, f \in SeenOf(b, k) : e.partition # f.partition
  BY <1>5, <1>7, <1>9
<1> QED BY <1>8, <1>9

LEMMA BaselinesBeforeAfter ==
  ASSUME NEW Rows, NEW Sources, StatisticsOf(Rows, Sources), KeyedInv(Rows, Sources),
         NEW b \in 1..Len(offsets), b # 1 => BaselinesAfter(Rows, b - 1)
  PROVE  BaselinesBefore(Rows, b)
<1>1. CASE b = 1
  <2>1. ASSUME NEW k \in CustomerCurrencies
        PROVE  BaselineSound(PairRows(Rows), StateBefore(b)[k], SeenOf(b - 1, k), Watermark(b - 1))
    <3>1. StateBefore(b)[k] = NoStatistics
      BY <1>1 DEF StateBefore, StatisticsOf
    <3>2. SeenOf(b - 1, k) = {}
      BY <1>1, NothingSeen
    <3>3. BaselineSound(PairRows(Rows), NoStatistics, {}, Watermark(b - 1))
      BY NoStatisticsTyped DEF BaselineSound
    <3> QED BY <3>1, <3>2, <3>3
  <2> QED BY <2>1 DEF BaselinesBefore
<1>2. CASE b # 1
  <2>1. StateBefore(b) = states[b - 1]
    BY <1>2, StateOfBatch DEF KeyedInv, EngineInv
  <2> QED BY <1>2, <2>1 DEF BaselinesBefore, BaselinesAfter
<1> QED BY <1>1, <1>2

LEMMA BaselinesKept ==
  ASSUME NEW Rows, NEW Sources, StatisticsOf(Rows, Sources), KeyedInv(Rows, Sources)
  PROVE  /\ \A b \in DOMAIN states : BaselinesAfter(Rows, b)
         /\ \A b \in 1..Len(offsets) : BaselinesBefore(Rows, b)
<1> DEFINE bad == {b \in DOMAIN states : ~BaselinesAfter(Rows, b)}
<1>1. bad \in SUBSET Nat
  BY StatesOfBatches DEF KeyedInv, EngineInv
<1>2. ASSUME bad # {} PROVE FALSE
  <2>1. PICK n \in bad : \A m \in bad : n <= m
    BY <1>1, <1>2, LeastNumber, Zenon
  <2>2. n \in DOMAIN states /\ n \in Nat \ {0} /\ n \in 1..Len(offsets) /\ (n # 1 => n - 1 \in DOMAIN states)
    BY <2>1, StatesOfBatches DEF KeyedInv, EngineInv
  <2>3. n # 1 => BaselinesAfter(Rows, n - 1)
    <3>1. n - 1 \notin bad
      BY <2>1, <2>2
    <3> QED BY <2>2, <3>1
  <2>4. BaselinesBefore(Rows, n)
    BY <2>2, <2>3, BaselinesBeforeAfter
  <2>5. PICK r \in Results(n) : r.ok /\ r.state = states[n]
    BY <2>2 DEF KeyedInv, EngineInv, Traced
  <2>6. BaselinesAfter(Rows, n)
    BY <2>2, <2>4, <2>5, StatisticsResult, Zenon DEF BaselinesAfter
  <2> QED BY <2>1, <2>6
<1>3. \A b \in DOMAIN states : BaselinesAfter(Rows, b)
  BY <1>2
<1>4. ASSUME NEW b \in 1..Len(offsets) PROVE BaselinesBefore(Rows, b)
  <2>1. b # 1 => b - 1 \in DOMAIN states
    BY StateOfBatch DEF KeyedInv, EngineInv
  <2> QED BY <1>3, <2>1, BaselinesBeforeAfter
<1> QED BY <1>3, <1>4

LEMMA SoundBaselines ==
  ASSUME NEW Rows, NEW Sources, StatisticsOf(Rows, Sources), KeyedInv(Rows, Sources)
  PROVE  BaselinesSound
<1>1. BaselineForgetsOnlyInactive
  <2>1. ASSUME NEW b \in 1..Len(offsets), NEW k \in CustomerCurrencies, NEW f \in RowsOf(b, k)
        PROVE  Told(SeenOf(b - 1, k), AcceptedOf(b, k), f)
    <3>1. BaselinesBefore(Rows, b)
      BY BaselinesKept
    <3>2. \A r \in Results(b) : r.ok => /\ {g \in r.out : g.key = k} = HandledIn(b, k).out
                                        /\ \A g \in HandledIn(b, k).out : Told(SeenOf(b - 1, k), AcceptedOf(b, k), g)
      BY <3>1, StatisticsResult
    <3>3. RowsOf(b, k) = {} \/ RowsOf(b, k) = HandledIn(b, k).out
      BY <3>2, RowsOfBatch DEF KeyedInv
    <3>4. \E r \in Results(b) : r.ok
      <4>1. InTable(b)
        BY DEF RowsOf, WrittenBy, InTable
      <4> QED BY <4>1 DEF InTable, KeyedInv, EngineInv, IInv, TableSound
    <3> QED BY <3>2, <3>3, <3>4
  <2> QED BY <2>1 DEF BaselineForgetsOnlyInactive, Told, Forgets
<1>2. OneTimerPerPair
  <2>1. DOMAIN states = 1..Len(states)
    BY DEF KeyedInv, EngineInv, Traced, IsSequence
  <2>2. SUFFICES ASSUME NEW b \in DOMAIN states, NEW k \in CustomerCurrencies
                 PROVE  LET s == states[b][k]
                            timer == CeilMillis(Max(Times(s.observed)) + InactivityTimeout)
                        IN IF s.observed = {} THEN s.registered = {}
                           ELSE s.registered = {timer} /\ timer >= Watermark(b)
    BY <2>1, Zenon DEF OneTimerPerPair
  <2>3. PICK s : s = states[b][k]
    OBVIOUS
  <2>4. BaselineSound(PairRows(Rows), s, SeenOf(b, k), Watermark(b))
    BY <2>3, BaselinesKept DEF BaselinesAfter
  <2>5. CASE s.observed = {}
    BY <2>3, <2>4, <2>5 DEF BaselineSound, OwnExpiry
  <2>6. CASE s.observed # {}
    <3>1. /\ s.registered = {s.timer} /\ s.timer = CeilMillis(s.latest + InactivityTimeout)
          /\ s.timer >= Watermark(b)
      BY <2>4, <2>6 DEF BaselineSound, OwnExpiry
    <3>2. Times(s.observed) \in SUBSET Nat /\ s.latest \in Times(s.observed)
          /\ \A t \in Times(s.observed) : t <= s.latest
      <4>1. s.observed \subseteq PairRows(Rows) /\ \A e \in s.observed : e.time \in Nat
        BY <2>4, PairTimed DEF BaselineSound, StatisticsStates, Timed
      <4> QED BY <2>4, <2>6, <4>1 DEF BaselineSound, IsLatest, Times
    <3>3. Max(Times(s.observed)) = s.latest
      BY <3>2, MaxIs
    <3> QED BY <2>3, <2>6, <3>1, <3>3
  <2> QED BY <2>5, <2>6
<1>3. RefusesOnlyRemapped
  BY BaselinesKept, StatisticsResult DEF RefusesOnlyRemapped
<1> QED BY <1>1, <1>2, <1>3 DEF BaselinesSound

\* customer-currency-amount-statistics.md: a baseline is what its pair was
\* observed to do before, in the order of the log, and loses an event only by
\* inactivity; the checks of the log order refuse no row of a retried batch.
THEOREM BaselinesSoundHolds ==
  ASSUME NEW Rows, NEW Sources, StatisticsOf(Rows, Sources)
  PROVE  Spec => []BaselinesSound
<1>1. KeyedSource(Rows, Sources)
  BY DEF StatisticsOf
<1>2. KeyedInv(Rows, Sources) => BaselinesSound
  BY SoundBaselines
<1> QED BY <1>1, <1>2, KeyedInvariant, PTL

-----------------------------------------------------------------------------
(* The statistics of a source to which each event comes once. *)

\* An event has one row, in one version.
ComesOnce(s) ==
  /\ \A i, j \in 1..Len(s) : \A e \in s[i], h \in s[j] : e.id = h.id => e = h
  /\ \A i, j \in 1..Len(s) : i # j => s[i] \cap s[j] = {}

\* The rows of a pair are of one partition.
InOnePartition(s) ==
  \A i, j \in 1..Len(s) : \A e \in s[i], h \in s[j] :
    e.key \in CustomerCurrencies /\ e.key = h.key => e.partition = h.partition

\* Every output is of a pair.
OutputsOfPairs ==
  \A b \in 1..Len(offsets) : \A r \in Results(b) : r.ok => \A f \in r.out : f.key \in CustomerCurrencies

LEMMA OnlyPairs ==
  ASSUME NEW Rows, NEW Sources, StatisticsOf(Rows, Sources), KeyedInv(Rows, Sources),
         \A state, rows, late, due : Process(state, rows, late, due) \subseteq StatisticsBatch(state, rows, late, due)
  PROVE  OutputsOfPairs
<1>1. SUFFICES ASSUME NEW b \in 1..Len(offsets), NEW r \in Results(b), r.ok, NEW f \in r.out
               PROVE  f.key \in CustomerCurrencies
  BY DEF OutputsOfPairs
<1> DEFINE handled == [k \in CustomerCurrencies |-> HandledIn(b, k)]
           ok == \A k \in CustomerCurrencies : handled[k].ok
<1>2. r \in StatisticsBatch(StateBefore(b), Input(b), Watermark(b - 1), Watermark(b))
  BY Zenon DEF Results
<1>3. r = [ok |-> ok,
           state |-> [k \in CustomerCurrencies |-> FireExpiries(handled[k].state, Watermark(b))],
           out |-> IF ok THEN UNION {handled[k].out : k \in CustomerCurrencies} ELSE {}]
  BY <1>2, Zenon DEF StatisticsBatch, AcceptedOf, HandledIn
<1>4. BaselinesBefore(Rows, b)
  BY BaselinesKept
<1>5. \A k \in CustomerCurrencies : \A g \in handled[k].out : g.key = k
  BY <1>4, HandledPair
<1> HIDE DEF handled
<1>6. r.out \subseteq UNION {handled[k].out : k \in CustomerCurrencies}
  BY <1>3
<1>7. PICK k \in CustomerCurrencies : f \in handled[k].out
  BY <1>6
<1> QED BY <1>5, <1>7

LEMMA SeenInSource ==
  ASSUME NEW Rows, NEW Sources, StatisticsOf(Rows, Sources), KeyedInv(Rows, Sources),
         NEW b \in 1..Len(offsets), NEW k, NEW e \in SeenOf(b, k)
  PROVE  e.key = k /\ \E v \in 1..Len(source) : e \in source[v]
<1>1. PICK a \in 1..b : e \in AcceptedOf(a, k)
  BY DEF SeenOf
<1>2. a \in 1..Len(offsets)
  BY BatchNumbers DEF KeyedInv
<1>3. e \in Input(a) /\ e.key = k
  BY <1>1, <1>2, AcceptedOnTime DEF StatisticsOf
<1>4. Position(a - 1) \in Nat /\ Position(a) \in Nat /\ Position(a) <= Len(source) /\ Len(source) \in Nat
  BY <1>2, BatchNumbers DEF KeyedInv
<1>5. PICK v \in (Position(a - 1) + 1)..Position(a) : e \in source[v]
  BY <1>3 DEF Input
<1>6. v \in 1..Len(source)
  BY <1>4
<1> QED BY <1>3, <1>5, <1>6

LEMMA NeverRefused ==
  ASSUME NEW Rows, NEW Sources, StatisticsOf(Rows, Sources), KeyedInv(Rows, Sources), InOnePartition(source),
         NEW b \in 1..Len(offsets), NEW r \in Results(b)
  PROVE  r.ok
<1>1. BaselinesBefore(Rows, b)
  BY BaselinesKept
<1>2. r.ok \/ \E k \in CustomerCurrencies : \E e, f \in SeenOf(b, k) : e.partition # f.partition
  BY <1>1, StatisticsResult
<1>3. ASSUME NEW k \in CustomerCurrencies, NEW e \in SeenOf(b, k), NEW f \in SeenOf(b, k)
      PROVE  e.partition = f.partition
  <2>1. e.key = k /\ f.key = k
    BY SeenInSource
  <2>2. PICK v \in 1..Len(source) : e \in source[v]
    BY SeenInSource
  <2>3. PICK w \in 1..Len(source) : f \in source[w]
    BY SeenInSource
  <2> QED BY <2>1, <2>2, <2>3 DEF InOnePartition
<1> QED BY <1>2, <1>3

\* A batch has one output of each row.
LEMMA HandledOnce ==
  ASSUME NEW Rows, NEW Sources, StatisticsOf(Rows, Sources), KeyedInv(Rows, Sources),
         NEW b \in 1..Len(offsets), NEW k \in CustomerCurrencies
  PROVE  /\ \A f \in HandledIn(b, k).out : f.event \in AcceptedOf(b, k)
         /\ \A f, g \in HandledIn(b, k).out : f.event = g.event => f = g
<1>1. PICK P, s, seen, rows :
        P = PairRows(Rows) /\ s = StateBefore(b)[k] /\ seen = SeenOf(b - 1, k) /\ rows = AcceptedOf(b, k)
  OBVIOUS
<1>2. Timed(P) /\ Logged(P)
  BY <1>1, PairTimed
<1>3. rows \in SUBSET P /\ IsFiniteSet(rows) /\ After(seen, rows)
  BY <1>1, PairInput
<1>4. BaselinesBefore(Rows, b)
  BY BaselinesKept
<1>5. s \in StatisticsStates(P) /\ IsLatest(s) /\ Places(rows)
  BY <1>1, <1>3, <1>4 DEF BaselinesBefore, BaselineSound, After
<1>6. PICK order, a : Handles(P, s, rows, order, a)
  BY <1>2, <1>3, <1>5, HandledBaseline
<1>7. HandledIn(b, k).out = {OutputOf(order[i], Prior(s, order, i)) : i \in 1..Len(order)}
  BY <1>1, <1>6 DEF Handles, Accumulates, HandledIn
<1>8. /\ order \in Seq(rows) /\ Len(order) \in Nat /\ \A i \in 1..Len(order) : order[i] \in rows
      /\ \A i, j \in 1..Len(order) : i < j => InLogOrder(order[i], order[j])
  BY <1>6 DEF Handles, InLog
<1>9. \A e \in rows : e.partition \in Int /\ e.offset \in Int
  BY <1>2, <1>3 DEF Logged
<1>10. ASSUME NEW i \in 1..Len(order), NEW j \in 1..Len(order), order[i] = order[j] PROVE i = j
  <2>1. ~InLogOrder(order[i], order[i])
    BY <1>8, <1>9 DEF InLogOrder
  <2>2. ~(i < j) /\ ~(j < i)
    BY <1>8, <1>10, <2>1
  <2> QED BY <2>2
<1>11. \A f \in HandledIn(b, k).out :
         \E i \in 1..Len(order) : f = OutputOf(order[i], Prior(s, order, i)) /\ f.event = order[i]
  BY <1>7 DEF OutputOf
<1> QED BY <1>1, <1>8, <1>10, <1>11

LEMMA OutputOfBatch ==
  ASSUME NEW Rows, NEW Sources, StatisticsOf(Rows, Sources), KeyedInv(Rows, Sources), OutputsOfPairs,
         NEW i \in 1..Len(table), NEW f \in table[i].rows
  PROVE  /\ table[i].txn \in 1..Len(offsets) /\ f.key \in CustomerCurrencies
         /\ f \in HandledIn(table[i].txn, f.key).out
         /\ Told(SeenOf(table[i].txn - 1, f.key), AcceptedOf(table[i].txn, f.key), f)
<1>1. PICK b : b = table[i].txn
  OBVIOUS
<1>2. b \in 1..Len(offsets) /\ \E r \in Results(b) : r.ok /\ r.out = table[i].rows
  BY <1>1, Zenon DEF KeyedInv, EngineInv, IInv, TableSound
<1>3. PICK r \in Results(b) : r.ok /\ r.out = table[i].rows
  BY <1>2
<1>4. f.key \in CustomerCurrencies
  BY <1>2, <1>3 DEF OutputsOfPairs
<1>5. BaselinesBefore(Rows, b)
  BY <1>2, BaselinesKept
<1>6. /\ {g \in r.out : g.key = f.key} = HandledIn(b, f.key).out
      /\ \A g \in HandledIn(b, f.key).out : Told(SeenOf(b - 1, f.key), AcceptedOf(b, f.key), g)
  BY <1>2, <1>3, <1>4, <1>5, StatisticsResult
<1> QED BY <1>1, <1>2, <1>3, <1>4, <1>6

LEMMA CountedOnce ==
  ASSUME NEW Rows, NEW Sources, StatisticsOf(Rows, Sources), KeyedInv(Rows, Sources), OutputsOfPairs,
         ComesOnce(source),
         NEW i \in 1..Len(table), NEW f \in table[i].rows
  PROVE  /\ \A e, h \in f.prior \cup {f.event} : e.id = h.id => e = h
         /\ \A j \in 1..Len(table) : \A g \in table[j].rows : f.event.id = g.event.id => f = g
<1>1. PICK b, k : b = table[i].txn /\ k = f.key
  OBVIOUS
<1>2. /\ b \in 1..Len(offsets) /\ k \in CustomerCurrencies /\ f \in HandledIn(b, k).out
      /\ Told(SeenOf(b - 1, k), AcceptedOf(b, k), f)
  BY <1>1, OutputOfBatch
<1>3. f.event \in AcceptedOf(b, k)
  BY <1>2, HandledOnce
<1>4. SeenOf(b, k) = SeenOf(b - 1, k) \cup AcceptedOf(b, k)
  BY <1>2, PairInput
<1>5. f.prior \cup {f.event} \subseteq SeenOf(b, k)
  BY <1>2, <1>3, <1>4 DEF Told
<1>6. ASSUME NEW e \in f.prior \cup {f.event}, NEW h \in f.prior \cup {f.event}, e.id = h.id PROVE e = h
  <2>1. PICK v \in 1..Len(source) : e \in source[v]
    BY <1>2, <1>5, SeenInSource
  <2>2. PICK w \in 1..Len(source) : h \in source[w]
    BY <1>2, <1>5, SeenInSource
  <2> QED BY <1>6, <2>1, <2>2 DEF ComesOnce
<1>7. ASSUME NEW j \in 1..Len(table), NEW g \in table[j].rows, f.event.id = g.event.id PROVE f = g
  <2>1. PICK c, d : c = table[j].txn /\ d = g.key
    OBVIOUS
  <2>2. c \in 1..Len(offsets) /\ d \in CustomerCurrencies /\ g \in HandledIn(c, d).out
    BY <2>1, OutputOfBatch
  <2>3. g.event \in AcceptedOf(c, d)
    BY <2>2, HandledOnce
  <2>4. f.event \in Input(b) /\ f.event.key = k /\ g.event \in Input(c) /\ g.event.key = d
    BY <1>2, <1>3, <2>2, <2>3, AcceptedOnTime DEF StatisticsOf
  <2>5. f.event = g.event
    <3>1. f.event \in SeenOf(b, k) /\ g.event \in SeenOf(c, d)
      BY <1>3, <1>4, <2>2, <2>3, PairInput
    <3>2. PICK v \in 1..Len(source) : f.event \in source[v]
      BY <1>2, <3>1, SeenInSource
    <3>3. PICK w \in 1..Len(source) : g.event \in source[w]
      BY <2>2, <3>1, SeenInSource
    <3> QED BY <1>7, <3>2, <3>3 DEF ComesOnce
  <2>6. ASSUME NEW m \in 1..Len(offsets), NEW n \in 1..Len(offsets), m < n,
               f.event \in Input(m), f.event \in Input(n)
        PROVE  FALSE
    <3>1. m \in 1..(n - 1)
      BY <2>6, BatchNumbers DEF KeyedInv
    <3>2. \E v, w \in 1..Len(source) : v < w /\ f.event \in source[v] /\ f.event \in source[w]
      BY <2>6, <3>1, EarlierVersion DEF KeyedInv
    <3> QED BY <3>2 DEF ComesOnce
  <2>7. b = c
    <3>1. b \in Nat /\ c \in Nat
      BY <1>2, <2>2, BatchNumbers DEF KeyedInv
    <3> QED BY <1>2, <2>2, <2>4, <2>5, <2>6, <3>1
  <2>8. f \in HandledIn(b, k).out /\ g \in HandledIn(b, k).out
    BY <1>2, <2>2, <2>4, <2>5, <2>7
  <2> QED BY <1>2, <2>5, <2>8, HandledOnce
<1> QED BY <1>6, <1>7
=============================================================================
