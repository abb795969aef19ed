----------------------- MODULE IncrementalShadowProofs -----------------------
(***************************************************************************)
(* Proofs about IncrementalShadow, for any stream of versions, any number  *)
(* of commands, any outcomes, limits and kills, hard kills included, and   *)
(* with journals of accepts that came too early.  The capacity alone needs *)
(* that one controller authorizes publications and no accept is early.     *)
(***************************************************************************)
EXTENDS IncrementalShadow, FiniteSetTheorems, TLAPS

\* The artifacts of version v that are made before its kind are written.
ReadyFor(kind, v) ==
  /\ kind # "segment" => <<"segment", v>> \in written
  /\ kind \in {"outbox", "batch"} => Size[v] > 0
  /\ kind = "batch" => <<"outbox", v>> \in written
  /\ kind = "record" /\ Size[v] > 0 => {<<"outbox", v>>, <<"batch", v>>} \subseteq written

\* A command builds a committed version whose predecessors are recorded.
Building(d) ==
  /\ disc[d].version \in 1..latest
  /\ \A u \in 1..(disc[d].version - 1) : <<"record", u>> \in written
  /\ ReadyFor(disc[d].kind, disc[d].version)

DiscoveryInv ==
  /\ RecordsComplete
  /\ \A v \in Versions : <<"record", v>> \in written => v <= latest
  /\ \A d \in Discoverers : disc[d].pc = "building" => Building(d)

\* Batches are acknowledged in turn: all before b are accepted.  Their journals
\* are opened in turn too, unless an accept came before its batch.
InTurn(b) ==
  /\ <<"record", b>> \in written
  /\ \A v \in Batches : v < b => v \in accepted

DeliveryInv ==
  /\ accepted \subseteq acked /\ acked \subseteq journals
  /\ \A b \in acked : InTurn(b)
  /\ early = 0 => \A b \in journals : InTurn(b)
  /\ \A c \in Controllers :
       /\ publisher[c].pc # "idle" => publisher[c].batch \in Batches /\ InTurn(publisher[c].batch)
       /\ publisher[c].pc = "publishing" => publisher[c].batch \in journals

\* What a reader has read is still so.
ReadStill(r) ==
  /\ reader[r].report = "none"
  /\ reader[r].records <= Recorded
  /\ reader[r].accepted \subseteq accepted
  /\ reader[r].pc \in {"latest", "check"} =>
       Cardinality(Events(reader[r].accepted) \ DOMAIN results) <= reader[r].pending
  /\ reader[r].pass = 2 => reader[r].latest <= reader[r].records

ReaderInv == \A r \in Readers : reader[r].pc # "idle" => ReadStill(r)

\* A batch of which there is room for every row.
Admitted(b) == Cardinality(Pending) + Size[b] <= MaxUnprocessed

\* While a controller reads, no journal is made; a batch with a journal is
\* among the accepted it has read, or active, or still to be read.
Unchanging(c) ==
  /\ publisher[c].pc = "idle"
  /\ \A b \in journals :
       /\ b <= reader[c].records
       /\ b < reader[c].next => b \in reader[c].accepted \/ reader[c].active > 0
  /\ reader[c].pc # "walking" => reader[c].next > reader[c].records

CapacityInv ==
  /\ AcceptedBounded
  /\ \A b \in journals \ accepted : Admitted(b)
  /\ \A c \in Controllers :
       /\ publisher[c].pc # "idle" => publisher[c].batch \in accepted \/ Admitted(publisher[c].batch)
       /\ reader[c].pc # "idle" => Unchanging(c)

\* A worker of another window than the results has taken nothing off its queue
\* yet, so it meets the first result before it could add one.
WorkerInv(w) ==
  /\ worker[w].pc = "resolved" =>
       /\ worker[w].queue \subseteq accepted
       /\ \A b \in worker[w].queue, v \in Batches : v < b => v \in worker[w].queue
  /\ worker[w].pc = "working" =>
       /\ worker[w].todo \subseteq Events(accepted)
       /\ \A e \in worker[w].todo, f \in Events(accepted) :
            Precedes(f, e) => f \in worker[w].todo \/ f \in DOMAIN results
       /\ \A e \in worker[w].todo, f \in Events(accepted), g \in DOMAIN results :
            Precedes(f, e) /\ results[g].window # worker[w].window => f \in worker[w].todo

InferenceInv ==
  /\ ResultsInOrder
  /\ \A w \in Workers : WorkerInv(w)

StreamInv == TypeOK /\ DiscoveryInv /\ DeliveryInv /\ ReaderInv /\ InferenceInv

\* Without an early accept, a journal is that of a batch in turn, and there is
\* room for it.
WithinCapacity == early = 0 => CapacityInv

OneController == \A c, d \in Controllers : c = d
-----------------------------------------------------------------------------
(* The constants, and counting.                                            *)

LEMMA StreamConstants ==
  /\ Len(Size) \in Nat /\ \A v \in Versions : v \in Nat /\ 1 <= v /\ v <= Len(Size) /\ Size[v] \in Nat
  /\ \A v \in Nat : 1 <= v /\ v <= Len(Size) => v \in Versions
  /\ Batches \subseteq Versions /\ \A v \in Batches : Size[v] > 0
<1>1. Len(Size) \in Nat /\ \A v \in 1..Len(Size) : Size[v] \in Nat
  BY StreamAssumption
<1> QED
  BY <1>1 DEF Versions, Batches

\* Every set of naturals that is not empty has a least element.
LEMMA LeastNatural ==
  ASSUME NEW S \in SUBSET Nat, S # {}
  PROVE \E m \in S : \A k \in S : m <= k
<1>1. IsWellFoundedOn(OpToRel(<, Nat), Nat)
  BY NatLessThanWellFounded
<1>2. PICK m \in S : \A k \in S : ~(<<k, m>> \in OpToRel(<, Nat))
  BY <1>1, WFMin
<1>3. \A k \in S : ~(k < m)
  BY <1>2 DEF OpToRel
<1> QED
  BY <1>3

\* A set of versions that lacks none before its last has as many as its last.
LEMMA PrefixCount ==
  ASSUME NEW n \in Nat, NEW S \in SUBSET (1..n), \A v \in S : 1..v \subseteq S
  PROVE Cardinality(S) \in 0..n /\ S = 1..Cardinality(S)
<1>1. PICK m \in (1..(n + 1)) \ S : \A k \in (1..(n + 1)) \ S : m <= k
  <2> DEFINE T == (1..(n + 1)) \ S
  <2>1. T \in SUBSET Nat /\ n + 1 \in T
    OBVIOUS
  <2> HIDE DEF T
  <2>2. \E m \in T : \A k \in T : m <= k
    BY <2>1, LeastNatural
  <2> QED
    BY <2>2 DEF T
<1>2. S = 1..(m - 1)
  <2>1. ASSUME NEW k \in S PROVE k < m
    <3>1. CASE k >= m
      BY <1>1, <3>1
    <3> QED
      BY <1>1, <3>1
  <2>2. ASSUME NEW k \in 1..(m - 1) PROVE k \in S
    BY <1>1
  <2>3. m \in Nat /\ \A k \in S : k \in Nat /\ 1 <= k
    OBVIOUS
  <2>4. \A k \in S : k \in 1..(m - 1)
    BY <2>1, <2>3
  <2> QED
    BY <2>2, <2>4
<1>3. Cardinality(S) = m - 1
  <2>1. Cardinality(1..(m - 1)) = IF 1 > m - 1 THEN 0 ELSE (m - 1) - 1 + 1
    BY FS_Interval
  <2> QED
    BY <1>2, <2>1
<1> QED
  BY <1>2, <1>3

\* The recorded versions are the first, as many as Recorded says.
LEMMA RecordedPrefix ==
  ASSUME RecordsComplete
  PROVE Recorded \in 0..Len(Size) /\ \A v \in Versions : <<"record", v>> \in written <=> v <= Recorded
<1> DEFINE S == {v \in Versions : <<"record", v>> \in written}
<1>1. \A v \in S : 1..v \subseteq S
  <2> SUFFICES ASSUME NEW v \in S, NEW u \in 1..v PROVE u \in S
    OBVIOUS
  <2>1. u \in Versions
    BY StreamConstants
  <2>2. <<"record", u>> \in written
    BY DEF RecordsComplete
  <2> QED
    BY <2>1, <2>2
<1>2. S \in SUBSET (1..Len(Size)) /\ Len(Size) \in Nat
  BY StreamConstants DEF Versions
<1> HIDE DEF S
<1>3. Cardinality(S) \in 0..Len(Size) /\ S = 1..Cardinality(S)
  BY <1>1, <1>2, PrefixCount
<1>4. Recorded = Cardinality(S)
  BY DEF S, Recorded
<1>5. \A v \in Versions : v \in S <=> v <= Recorded
  BY <1>2, <1>3, <1>4, StreamConstants
<1> QED
  BY <1>3, <1>4, <1>5 DEF S

LEMMA EventsIn ==
  ASSUME NEW S \in SUBSET Versions, NEW e
  PROVE e \in Events(S) <=> \E v \in S : \E k \in 1..Size[v] : e = <<v, k>>
BY DEF Events

LEMMA EventsParts ==
  ASSUME NEW S \in SUBSET Versions, NEW e \in Events(S)
  PROVE /\ e = <<e[1], e[2]>> /\ e[1] \in S /\ e[1] \in Nat /\ e[2] \in Nat
        /\ e[2] \in 1..Size[e[1]]
<1>1. PICK v \in S : \E k \in 1..Size[v] : e = <<v, k>>
  BY EventsIn
<1> QED
  BY <1>1, StreamConstants

\* Of the events of a batch there are as many as it has rows.
LEMMA EventsCounted ==
  ASSUME NEW v \in Versions
  PROVE IsFiniteSet(Events({v})) /\ Cardinality(Events({v})) = Size[v]
<1>1. Events({v}) = {v} \X (1..Size[v])
  BY DEF Events
<1>2. Size[v] \in Nat
  BY StreamConstants
<1>3. IsFiniteSet(1..Size[v]) /\ Cardinality(1..Size[v]) = Size[v]
  BY <1>2, FS_Interval
<1>4. IsFiniteSet({v}) /\ Cardinality({v}) = 1
  BY FS_Singleton
<1>5. /\ IsFiniteSet({v} \X (1..Size[v]))
      /\ Cardinality({v} \X (1..Size[v])) = Cardinality({v}) * Cardinality(1..Size[v])
  <2> DEFINE S == {v}  T == 1..Size[v]
  <2>1. IsFiniteSet(S) /\ IsFiniteSet(T)
    BY <1>3, <1>4
  <2> HIDE DEF S, T
  <2>2. IsFiniteSet(S \X T) /\ Cardinality(S \X T) = Cardinality(S) * Cardinality(T)
    BY <2>1, FS_Product
  <2> QED
    BY <2>2 DEF S, T
<1>6. Cardinality({v}) * Cardinality(1..Size[v]) = Size[v]
  BY <1>2, <1>3, <1>4
<1> QED
  BY <1>1, <1>5, <1>6

LEMMA EventsFinite ==
  ASSUME NEW S \in SUBSET Versions
  PROVE IsFiniteSet(Events(S))
<1> DEFINE f == [v \in Versions |-> {v} \X (1..Size[v])]
           R == {f[v] : v \in Versions}
<1>1. IsFiniteSet(Versions)
  BY StreamConstants, FS_Interval DEF Versions
<1>2. f \in Surjection(Versions, R)
  BY DEF Surjection
<1>3. \A T \in R : IsFiniteSet(T)
  <2> SUFFICES ASSUME NEW v \in Versions PROVE IsFiniteSet(f[v])
    OBVIOUS
  <2>1. f[v] = Events({v})
    BY DEF Events
  <2> QED
    BY <2>1, EventsCounted
<1>4. IsFiniteSet(UNION R)
  <2> HIDE DEF f, R
  <2>1. IsFiniteSet(R)
    BY <1>1, <1>2, FS_Surjection
  <2> QED
    BY <1>3, <2>1, FS_UNION
<1>5. Events(S) \in SUBSET (UNION R)
  BY DEF Events
<1> QED
  BY <1>4, <1>5, FS_Subset

\* First(S) is the first event of S.
LEMMA FirstPrecedes ==
  ASSUME NEW S \in SUBSET Events(Versions), S # {}
  PROVE First(S) \in S /\ \A f \in S \ {First(S)} : Precedes(First(S), f)
<1>1. \A e \in S : e = <<e[1], e[2]>> /\ e[1] \in Nat /\ e[2] \in Nat
  BY EventsParts
<1>2. PICK v \in {e[1] : e \in S} : \A u \in {e[1] : e \in S} : v <= u
  <2>1. {e[1] : e \in S} \in SUBSET Nat /\ {e[1] : e \in S} # {}
    BY <1>1
  <2> QED
    BY <2>1, LeastNatural
<1>3. PICK k \in {e[2] : e \in {x \in S : x[1] = v}} : \A j \in {e[2] : e \in {x \in S : x[1] = v}} : k <= j
  <2>1. {e[2] : e \in {x \in S : x[1] = v}} \in SUBSET Nat /\ {e[2] : e \in {x \in S : x[1] = v}} # {}
    BY <1>1, <1>2
  <2> QED
    BY <2>1, LeastNatural
<1>4. PICK e \in S : e[1] = v /\ e[2] = k
  BY <1>3
<1>5. ASSUME NEW f \in S \ {e} PROVE Precedes(e, f)
  <2>1. v <= f[1] /\ (f[1] = v => k <= f[2])
    BY <1>2, <1>3
  <2>2. ~(f[1] = v /\ f[2] = k)
    BY <1>1, <1>4
  <2> QED
    BY <1>1, <1>4, <2>1, <2>2 DEF Precedes
<1> QED
  BY <1>5 DEF First

LEMMA PrecedesOrder ==
  ASSUME NEW e \in Events(Versions), NEW f \in Events(Versions)
  PROVE /\ Precedes(e, f) => ~Precedes(f, e) /\ e # f
        /\ e # f => Precedes(e, f) \/ Precedes(f, e)
BY EventsParts DEF Precedes

LEMMA EventsGrow ==
  ASSUME NEW S, NEW T, S \subseteq T
  PROVE Events(S) \subseteq Events(T)
BY DEF Events

-----------------------------------------------------------------------------
(* The state is well formed.                                               *)

LEMMA InitType == Init => TypeOK
<1> SUFFICES ASSUME Init PROVE TypeOK
  OBVIOUS
<1>1. DiscIdle \in DiscStates
  BY StreamConstants DEF DiscIdle, DiscStates, Kinds
<1>2. ReaderIdle \in ReaderStates
  BY StreamConstants DEF ReaderIdle, ReaderStates
<1>3. PublisherIdle \in PublisherStates
  BY DEF PublisherIdle, PublisherStates
<1>4. WorkerIdle(CHOOSE x \in Windows : TRUE) \in WorkerStates
  BY StreamAssumption DEF WorkerIdle, WorkerStates
<1> QED
  <2>1. disc \in [Discoverers -> DiscStates] /\ reader \in [Readers -> ReaderStates]
    BY <1>1, <1>2 DEF Init
  <2>2. publisher \in [Controllers -> PublisherStates] /\ worker \in [Workers -> WorkerStates]
    BY <1>3, <1>4 DEF Init
  <2>3. latest \in 0..Len(Size) /\ failures \in 0..MaxFailures /\ early \in 0..MaxEarly
    BY StreamConstants, StreamAssumption DEF Init
  <2>4. DOMAIN results = {}
    BY DEF Init
  <2> QED
    BY <2>1, <2>2, <2>3, <2>4 DEF Init, TypeOK

\* The state of a discovery command after an artifact.
LEMMA AdvanceType ==
  ASSUME TypeOK, NEW d \in Discoverers, Advance(d)
  PROVE disc' \in [Discoverers -> DiscStates]
<1>1. disc[d] \in DiscStates /\ DiscIdle \in DiscStates
  BY StreamConstants DEF TypeOK, DiscIdle, DiscStates, Kinds
<1>2. Following(disc[d].kind, disc[d].version) \in Kinds
  BY DEF Following, Kinds
<1>3. [disc[d] EXCEPT !.kind = Following(disc[d].kind, disc[d].version), !.own = FALSE] \in DiscStates
  BY <1>1, <1>2 DEF DiscStates
<1> QED
  BY <1>1, <1>3 DEF Advance, TypeOK

LEMMA DiscoveryType ==
  ASSUME TypeOK, DiscoveryInv, NEW d \in Discoverers, Discover(d) \/ KillDiscovery(d)
  PROVE TypeOK'
<1>1. disc[d] \in DiscStates /\ DiscIdle \in DiscStates
  BY StreamConstants DEF TypeOK, DiscIdle, DiscStates, Kinds
<1>2. ASSUME disc[d].pc = "building" PROVE At(d) \in Kinds \X Versions
  <2>1. disc[d].version \in 1..latest /\ latest \in 0..Len(Size)
    BY <1>2 DEF DiscoveryInv, Building, TypeOK
  <2> QED
    BY <1>1, <2>1, StreamConstants DEF At, DiscStates
<1>3. CASE StartDiscovery(d)
  <2>1. Recorded + 1 \in 0..Len(Size)
    BY <1>3, RecordedPrefix, StreamConstants DEF StartDiscovery, TypeOK, DiscoveryInv
  <2>2. [DiscIdle EXCEPT !.pc = "building", !.version = Recorded + 1] \in DiscStates
    BY <2>1 DEF DiscIdle, DiscStates, Kinds
  <2> QED
    BY <1>3, <2>2 DEF StartDiscovery, TypeOK, streamVars, deliveryVars
<1>4. CASE CreateArtifact(d)
  <2>1. [disc[d] EXCEPT !.own = TRUE] \in DiscStates
    BY <1>1 DEF DiscStates
  <2> QED
    BY <1>2, <1>4, <2>1 DEF CreateArtifact, TypeOK, deliveryVars
<1>5. CASE WriteArtifact(d)
  BY <1>2, <1>5, AdvanceType DEF WriteArtifact, TypeOK, deliveryVars
<1>6. CASE ReuseArtifact(d)
  <2>1. disc' \in [Discoverers -> DiscStates]
    BY <1>1, <1>6, AdvanceType DEF ReuseArtifact, TypeOK
  <2> QED
    BY <1>6, <2>1 DEF ReuseArtifact, TypeOK, streamVars, deliveryVars
<1>7. CASE KillDiscovery(d)
  BY <1>1, <1>7, StreamAssumption DEF KillDiscovery, TypeOK, streamVars, deliveryVars
<1> QED
  BY <1>3, <1>4, <1>5, <1>6, <1>7 DEF Discover

\* The state of a command that reads progress.
LEMMA ReaderType ==
  ASSUME TypeOK, DiscoveryInv, NEW r \in Readers, Read(r)
  PROVE TypeOK'
<1>1. reader[r] \in ReaderStates /\ ReaderIdle \in ReaderStates
  BY StreamConstants DEF TypeOK, ReaderIdle, ReaderStates
<1>2. Recorded \in 0..Len(Size)
  BY RecordedPrefix DEF DiscoveryInv
<1>3. SUFFICES \E state \in ReaderStates : reader' = [reader EXCEPT ![r] = state]
  <2>1. UNCHANGED <<streamVars, deliveryVars, results, disc, publisher, worker, early, failures>>
    BY DEF Read, ReadRecords, ReadBatch, FinishWalk, ReadResults, ReadLatest, FinishReconcile
  <2>2. ASSUME NEW state \in ReaderStates, reader' = [reader EXCEPT ![r] = state]
        PROVE reader' \in [Readers -> ReaderStates]
    BY <2>2 DEF TypeOK
  <2> QED
    BY <2>1, <2>2 DEF TypeOK, streamVars, deliveryVars
<1>4. ASSUME NEW reconcile \in BOOLEAN, ReadRecords(r, reconcile)
      PROVE \E state \in ReaderStates : reader' = [reader EXCEPT ![r] = state]
  <2>1. [ReaderIdle EXCEPT !.pc = "walking", !.reconcile = reconcile, !.records = Recorded] \in ReaderStates
    BY <1>1, <1>2 DEF ReaderStates
  <2> QED
    BY <1>4, <2>1 DEF ReadRecords
<1>5. CASE ReadBatch(r)
  <2>1. reader[r].next + 1 \in 1..(Len(Size) + 1)
    BY <1>1, <1>5, StreamConstants DEF ReadBatch, ReaderStates
  <2>2. ASSUME reader[r].next \in accepted
        PROVE [reader[r] EXCEPT !.next = reader[r].next + 1,
                                !.accepted = reader[r].accepted \cup {reader[r].next}] \in ReaderStates
    BY <1>1, <2>1, <2>2 DEF ReaderStates, TypeOK
  <2>3. ASSUME NEW active \in Nat
        PROVE [reader[r] EXCEPT !.next = reader[r].next + 1, !.active = active] \in ReaderStates
    BY <1>1, <2>1 DEF ReaderStates
  <2>4. reader[r].active \in Nat
    BY <1>1 DEF ReaderStates
  <2> QED
    <3>1. CASE reader[r].next \in accepted
      <4>1. CASE reader[r].pass = 1 /\ Unaccepted(r) # {}
        BY <1>1, <1>5, <3>1, <4>1 DEF ReadBatch
      <4>2. CASE ~(reader[r].pass = 1 /\ Unaccepted(r) # {})
        <5>1. reader' = [reader EXCEPT ![r] =
                [reader[r] EXCEPT !.next = reader[r].next + 1,
                                  !.accepted = reader[r].accepted \cup {reader[r].next}]]
          BY <1>5, <3>1, <4>2 DEF ReadBatch
        <5> QED
          BY <2>2, <3>1, <5>1
      <4> QED
        BY <4>1, <4>2
    <3>2. CASE reader[r].next \notin accepted
      <4>1. reader' = [reader EXCEPT ![r] =
              [reader[r] EXCEPT !.next = reader[r].next + 1,
                 !.active = reader[r].active + (IF reader[r].next \in journals THEN 1 ELSE 0)]]
        BY <1>5, <3>2 DEF ReadBatch
      <4>2. reader[r].active + (IF reader[r].next \in journals THEN 1 ELSE 0) \in Nat
        BY <2>4
      <4> QED
        BY <2>3, <4>1, <4>2
    <3> QED
      BY <3>1, <3>2
<1>6. CASE FinishWalk(r)
  <2>1. [reader[r] EXCEPT !.pc = "results"] \in ReaderStates
    BY <1>1 DEF ReaderStates
  <2> QED
    BY <1>1, <1>6, <2>1 DEF FinishWalk, TypeOK
<1>7. CASE ReadResults(r)
  <2>1. Cardinality(Events(reader[r].accepted) \ DOMAIN results) \in Nat
    <3>1. reader[r].accepted \in SUBSET Versions
      BY <1>1, StreamConstants DEF ReaderStates
    <3>2. IsFiniteSet(Events(reader[r].accepted) \ DOMAIN results)
      BY <3>1, EventsFinite, FS_Difference
    <3> QED
      BY <3>2, FS_CardinalityType
  <2>2. ASSUME NEW pending \in Nat
        PROVE [reader[r] EXCEPT !.pc = "latest", !.pending = pending] \in ReaderStates
    BY <1>1 DEF ReaderStates
  <2> QED
    BY <1>1, <1>7, <2>1, <2>2 DEF ReadResults, TypeOK
<1>8. CASE ReadLatest(r)
  <2>1. [reader[r] EXCEPT !.pc = "check"] \in ReaderStates
    BY <1>1 DEF ReaderStates
  <2>2. [ReaderIdle EXCEPT !.report = StateOf(r)] \in ReaderStates
    BY <1>1 DEF ReaderStates, StateOf
  <2>3. [ReaderIdle EXCEPT !.pc = "walking", !.reconcile = TRUE, !.pass = 2,
                           !.records = Recorded, !.latest = latest] \in ReaderStates
    BY <1>1, <1>2 DEF ReaderStates, TypeOK
  <2> QED
    BY <1>1, <1>8, <2>1, <2>2, <2>3 DEF ReadLatest, TypeOK
<1>9. CASE FinishReconcile(r)
  <2>1. [ReaderIdle EXCEPT !.report = "RECONCILED", !.latest = reader[r].latest] \in ReaderStates
    BY <1>1 DEF ReaderStates
  <2> QED
    BY <1>1, <1>9, <2>1 DEF FinishReconcile, TypeOK
<1> QED
  BY <1>4, <1>5, <1>6, <1>7, <1>8, <1>9 DEF Read

LEMMA PublicationType ==
  ASSUME TypeOK, NEW c \in Controllers, DeliveryInv, PublishBatch(c) \/ KillPublication(c)
  PROVE TypeOK'
<1>1. publisher[c] \in PublisherStates /\ PublisherIdle \in PublisherStates /\ c \in Readers
  BY DEF TypeOK, PublisherIdle, PublisherStates, Readers
<1>2. ReaderIdle \in ReaderStates
  BY StreamConstants DEF ReaderIdle, ReaderStates
<1>3. ASSUME reader' = [reader EXCEPT ![c] = ReaderIdle]
      PROVE reader' \in [Readers -> ReaderStates]
  BY <1>2, <1>3 DEF TypeOK
<1>4. publisher[c].pc # "idle" => publisher[c].batch \in Batches
  BY DEF DeliveryInv
<1>5. CASE Check(c)
  <2>1. \A b \in Batches : [pc |-> "authorized", batch |-> b] \in PublisherStates
    BY DEF PublisherStates
  <2> QED
    BY <1>3, <1>5, <2>1 DEF Check, TypeOK, streamVars, deliveryVars
<1>6. CASE Refused(c)
  BY <1>3, <1>6 DEF Refused, TypeOK, streamVars, deliveryVars
<1>7. CASE OpenJournal(c)
  <2>1. [publisher[c] EXCEPT !.pc = "publishing"] \in PublisherStates
    BY <1>1 DEF PublisherStates
  <2> QED
    BY <1>4, <1>7, <2>1 DEF OpenJournal, TypeOK, streamVars
<1>8. CASE FinishPublication(c)
  BY <1>1, <1>4, <1>8 DEF FinishPublication, TypeOK, streamVars
<1>9. CASE KillPublication(c)
  BY <1>1, <1>9, StreamAssumption DEF KillPublication, TypeOK, streamVars, deliveryVars
<1> QED
  BY <1>5, <1>6, <1>7, <1>8, <1>9 DEF PublishBatch

\* A working command has an event at hand that is the first of its queue.
LEMMA AtHand ==
  ASSUME TypeOK, NEW w \in Workers, worker[w].todo # {}
  PROVE /\ First(worker[w].todo) \in worker[w].todo /\ First(worker[w].todo) \in Events(Versions)
        /\ \A f \in worker[w].todo \ {First(worker[w].todo)} : Precedes(First(worker[w].todo), f)
<1>1. worker[w].todo \in SUBSET Events(Versions)
  BY DEF TypeOK, WorkerStates
<1> QED
  BY <1>1, FirstPrecedes

LEMMA ProcessType ==
  ASSUME TypeOK, NEW w \in Workers, Process(w) \/ KillWorker(w)
  PROVE TypeOK'
<1>1. worker[w] \in WorkerStates /\ worker[w].window \in Windows
  BY DEF TypeOK, WorkerStates
<1>2. \A window \in Windows : WorkerIdle(window) \in WorkerStates
  BY StreamAssumption DEF WorkerIdle, WorkerStates
<1>3. ASSUME worker' = [worker EXCEPT ![w] = WorkerIdle(worker[w].window)]
      PROVE worker' \in [Workers -> WorkerStates]
  BY <1>1, <1>2, <1>3 DEF TypeOK
<1>4. ASSUME NEW window \in Windows, Resolve(w, window) PROVE TypeOK'
  <2>1. [WorkerIdle(window) EXCEPT !.pc = "resolved", !.queue = accepted] \in WorkerStates
    <3>1. accepted \in SUBSET Batches
      BY DEF TypeOK
    <3>2. WorkerIdle(window) \in WorkerStates
      BY <1>2
    <3> HIDE DEF WorkerIdle
    <3> QED
      BY <3>1, <3>2 DEF WorkerStates
  <2> QED
    BY <1>4, <2>1 DEF Resolve, TypeOK, streamVars, deliveryVars
<1>5. CASE ReadExisting(w)
  <2>1. Events(worker[w].queue) \subseteq Events(Versions)
    BY <1>1, StreamConstants, EventsGrow DEF WorkerStates
  <2>2. [worker[w] EXCEPT !.pc = "working", !.queue = {}, !.left = MaxTick,
                          !.todo = Events(worker[w].queue) \ DOMAIN results] \in WorkerStates
    <3>1. MaxTick \in 0..MaxTick /\ Events(worker[w].queue) \ DOMAIN results \in SUBSET Events(Versions)
      BY <2>1, StreamAssumption
    <3> QED
      BY <1>1, <3>1 DEF WorkerStates
  <2>3. worker' \in [Workers -> WorkerStates]
    BY <1>1, <1>3, <1>5, <2>2 DEF ReadExisting, TypeOK
  <2> QED
    BY <1>5, <2>3 DEF ReadExisting, TypeOK, streamVars, deliveryVars
<1>6. CASE Evaluate(w)
  <2> DEFINE e == First(worker[w].todo)
  <2>1. e \in Events(Versions)
    BY <1>6, AtHand DEF Evaluate
  <2>2. \A status \in Outcomes[e] : [window |-> worker[w].window, status |-> status] \in [window : Windows, status : Statuses]
    BY <1>1, <2>1, StreamAssumption
  <2>3. ASSUME worker' = TakeNext(w, e) PROVE worker' \in [Workers -> WorkerStates]
    <3>1. [worker[w] EXCEPT !.todo = worker[w].todo \ {e}, !.left = worker[w].left - 1] \in WorkerStates
      <4>1. worker[w].left \in 0..MaxTick /\ worker[w].left > 0 /\ worker[w].todo \in SUBSET Events(Versions)
        BY <1>1, <1>6 DEF Evaluate, WorkerStates
      <4>2. worker[w].left - 1 \in 0..MaxTick /\ worker[w].todo \ {e} \in SUBSET Events(Versions)
        BY <4>1, StreamAssumption
      <4> QED
        BY <1>1, <4>2 DEF WorkerStates
    <3>2. worker' = [worker EXCEPT ![w] = [worker[w] EXCEPT !.todo = worker[w].todo \ {e}, !.left = worker[w].left - 1]]
      BY <2>3 DEF TakeNext, TypeOK
    <3> QED
      BY <3>1, <3>2 DEF TypeOK
  <2> HIDE DEF e
  <2>4. worker' \in [Workers -> WorkerStates]
    BY <1>3, <1>6, <2>3 DEF Evaluate, e
  <2>5. /\ DOMAIN results' \subseteq Events(Versions)
        /\ \A f \in DOMAIN results' : results'[f] \in [window : Windows, status : Statuses]
    BY <1>6, <2>1, <2>2 DEF Evaluate, TypeOK, e
  <2> QED
    BY <1>6, <2>4, <2>5 DEF Evaluate, TypeOK, streamVars, deliveryVars
<1>7. CASE FinishTick(w)
  BY <1>3, <1>7 DEF FinishTick, TypeOK, streamVars, deliveryVars
<1>8. CASE KillWorker(w)
  BY <1>3, <1>8, StreamAssumption DEF KillWorker, TypeOK, streamVars, deliveryVars
<1> QED
  BY <1>4, <1>5, <1>6, <1>7, <1>8 DEF Process

LEMMA NextType == TypeOK /\ DiscoveryInv /\ DeliveryInv /\ [Next]_vars => TypeOK'
<1> SUFFICES ASSUME TypeOK, DiscoveryInv, DeliveryInv, [Next]_vars PROVE TypeOK'
  OBVIOUS
<1>1. CASE CommitVersion
  BY <1>1, StreamConstants DEF CommitVersion, TypeOK, deliveryVars
<1>2. CASE \E b \in Batches : Accept(b)
  BY <1>2, StreamAssumption DEF Accept, TypeOK, streamVars
<1>3. CASE UNCHANGED vars
  BY <1>3 DEF vars, streamVars, deliveryVars, TypeOK
<1> QED
  BY <1>1, <1>2, <1>3, DiscoveryType, ReaderType, PublicationType, ProcessType DEF Next

-----------------------------------------------------------------------------
(* Discovery.                                                              *)

\* What is built stays ready while artifacts and versions are added.
LEMMA BuildingStays ==
  ASSUME TypeOK, DiscoveryInv, NEW d \in Discoverers, disc[d].pc = "building",
         disc'[d] = disc[d], written \subseteq written', latest' \in Nat, latest <= latest'
  PROVE Building(d)'
<1>1. Building(d) /\ latest \in Nat /\ disc[d].version \in Nat
  BY StreamConstants DEF DiscoveryInv, TypeOK, Building
<1>2. disc'[d].version \in 1..latest'
  BY <1>1 DEF Building
<1> QED
  BY <1>1, <1>2 DEF Building, ReadyFor

\* An artifact that is there makes the command ready for the following one.
LEMMA AdvanceIsReady ==
  ASSUME TypeOK, DiscoveryInv, NEW d \in Discoverers, disc[d].pc = "building", Advance(d),
         written \subseteq written', latest' = latest, At(d) \in written', disc'[d].pc = "building"
  PROVE Building(d)'
<1>1. disc[d] \in DiscStates /\ Building(d)
  BY DEF TypeOK, DiscoveryInv
<1>2. disc[d].kind # "record"
  BY DEF Advance, TypeOK, DiscIdle
<1>3. disc'[d] = [disc[d] EXCEPT !.kind = Following(disc[d].kind, disc[d].version), !.own = FALSE]
  BY <1>2 DEF Advance, TypeOK
<1>4. PICK kind \in {"segment", "outbox", "batch"}, v \in Versions : kind = disc[d].kind /\ v = disc[d].version
  <2>1. disc[d].kind \in {"segment", "outbox", "batch"}
    BY <1>1, <1>2 DEF DiscStates, Kinds
  <2>2. disc[d].version \in Versions
    BY <1>1, StreamConstants DEF Building, TypeOK
  <2> QED
    BY <2>1, <2>2
<1>5. disc'[d].version = v /\ disc'[d].kind = Following(kind, v)
  BY <1>1, <1>3, <1>4 DEF DiscStates
<1>6. ReadyFor(kind, v)' /\ <<kind, v>> \in written'
  BY <1>1, <1>4 DEF Building, ReadyFor, At
<1>7. ReadyFor(Following(kind, v), v)'
  <2>1. Size[v] \in Nat
    BY StreamConstants
  <2> QED
    BY <1>6, <2>1 DEF ReadyFor, Following
<1>8. v \in 1..latest' /\ \A u \in 1..(v - 1) : <<"record", u>> \in written'
  BY <1>1, <1>4 DEF Building
<1> QED
  BY <1>5, <1>7, <1>8 DEF Building

\* The artifact that a command writes keeps the promise of the records.
LEMMA WriteKeepsRecords ==
  ASSUME TypeOK, DiscoveryInv, NEW d \in Discoverers, WriteArtifact(d)
  PROVE RecordsComplete' /\ \A v \in Versions : <<"record", v>> \in written' => v <= latest
<1>1. Building(d) /\ disc[d].version \in 1..latest /\ written' = written \cup {At(d)}
  BY DEF WriteArtifact, DiscoveryInv, Building
<1> SUFFICES ASSUME NEW v \in Versions, <<"record", v>> \in written'
             PROVE /\ v <= latest
                   /\ \A u \in 1..v : {<<"segment", u>>, <<"record", u>>} \subseteq written'
                   /\ Size[v] > 0 => {<<"outbox", v>>, <<"batch", v>>} \subseteq written'
  BY DEF RecordsComplete
<1>2. CASE <<"record", v>> \in written
  BY <1>1, <1>2 DEF DiscoveryInv, RecordsComplete
<1>3. CASE <<"record", v>> \notin written
  <2>1. disc[d].kind = "record" /\ disc[d].version = v
    BY <1>1, <1>3 DEF At
  <2>2. v \in Nat /\ \A u \in 1..v : u = v \/ (u \in 1..(v - 1) /\ u \in Versions)
    BY StreamConstants
  <2>3. \A u \in 1..(v - 1) : <<"record", u>> \in written
    BY <1>1, <2>1 DEF Building
  <2>4. \A u \in 1..(v - 1) : <<"segment", u>> \in written
    <3> SUFFICES ASSUME NEW u \in 1..(v - 1) PROVE <<"segment", u>> \in written
      OBVIOUS
    <3>1. u \in Versions /\ u \in 1..u
      BY StreamConstants
    <3> QED
      BY <2>3, <3>1 DEF DiscoveryInv, RecordsComplete
  <2>5. ReadyFor("record", v)
    BY <1>1, <2>1 DEF Building
  <2> QED
    BY <1>1, <2>1, <2>2, <2>3, <2>4, <2>5 DEF ReadyFor
<1> QED
  BY <1>2, <1>3

LEMMA DiscoveryKept ==
  ASSUME TypeOK, DiscoveryInv, NEW d \in Discoverers, Discover(d) \/ KillDiscovery(d)
  PROVE DiscoveryInv'
<1>1. latest' = latest /\ latest \in Nat /\ written \subseteq written'
  BY StreamConstants DEF Discover, StartDiscovery, CreateArtifact, WriteArtifact, ReuseArtifact,
       KillDiscovery, streamVars, TypeOK
<1>2. \A c \in Discoverers \ {d} : disc'[c] = disc[c]
  BY DEF Discover, StartDiscovery, CreateArtifact, WriteArtifact, ReuseArtifact, KillDiscovery,
       Advance, TypeOK
<1>3. ASSUME disc'[d].pc = "building" PROVE Building(d)'
  <2>1. CASE StartDiscovery(d)
    <3>1. disc'[d] = [DiscIdle EXCEPT !.pc = "building", !.version = Recorded + 1]
      BY <2>1 DEF StartDiscovery, TypeOK
    <3>2. disc'[d].version = Recorded + 1 /\ disc'[d].kind = "segment"
      BY <3>1 DEF DiscIdle
    <3>3. Recorded \in 0..Len(Size) /\ \A v \in Versions : <<"record", v>> \in written <=> v <= Recorded
      BY RecordedPrefix DEF DiscoveryInv
    <3>4. \A u \in 1..Recorded : <<"record", u>> \in written
      <4> SUFFICES ASSUME NEW u \in 1..Recorded PROVE <<"record", u>> \in written
        OBVIOUS
      <4>1. u \in Versions /\ u <= Recorded
        BY <3>3, StreamConstants
      <4> QED
        BY <3>3, <4>1
    <3>5. Recorded + 1 \in 1..latest /\ 1..((Recorded + 1) - 1) = 1..Recorded
      BY <1>1, <2>1, <3>3, StreamConstants DEF StartDiscovery
    <3> QED
      BY <1>1, <3>2, <3>4, <3>5 DEF Building, ReadyFor
  <2>2. CASE CreateArtifact(d)
    <3>1. disc[d].pc = "building" /\ disc'[d] = [disc[d] EXCEPT !.own = TRUE] /\ written' = written
      BY <2>2 DEF CreateArtifact, TypeOK
    <3>2. disc'[d].version = disc[d].version /\ disc'[d].kind = disc[d].kind
      BY <3>1 DEF TypeOK, DiscStates
    <3> QED
      BY <1>1, <3>1, <3>2 DEF Building, ReadyFor, DiscoveryInv
  <2>3. CASE WriteArtifact(d)
    BY <1>1, <1>3, <2>3, AdvanceIsReady DEF WriteArtifact
  <2>4. CASE ReuseArtifact(d)
    <3>1. CASE At(d) \in written
      BY <1>1, <1>3, <2>4, <3>1, AdvanceIsReady DEF ReuseArtifact
    <3>2. CASE At(d) \notin written
      BY <1>3, <2>4, <3>2 DEF ReuseArtifact, TypeOK, DiscIdle
    <3> QED
      BY <3>1, <3>2
  <2>5. CASE KillDiscovery(d)
    BY <1>3, <2>5 DEF KillDiscovery, TypeOK, DiscIdle
  <2> QED
    BY <2>1, <2>2, <2>3, <2>4, <2>5 DEF Discover
<1>4. RecordsComplete' /\ \A v \in Versions : <<"record", v>> \in written' => v <= latest
  <2>1. CASE WriteArtifact(d)
    BY <2>1, WriteKeepsRecords
  <2>2. CASE written' = written
    BY <2>2 DEF DiscoveryInv, RecordsComplete
  <2> QED
    BY <2>1, <2>2 DEF Discover, StartDiscovery, CreateArtifact, ReuseArtifact, KillDiscovery, streamVars
<1> QED
  BY <1>1, <1>2, <1>3, <1>4, BuildingStays DEF DiscoveryInv

LEMMA NextDiscovery == TypeOK /\ DiscoveryInv /\ [Next]_vars => DiscoveryInv'
<1> SUFFICES ASSUME TypeOK, DiscoveryInv, [Next]_vars PROVE DiscoveryInv'
  OBVIOUS
<1>1. CASE \E d \in Discoverers : Discover(d) \/ KillDiscovery(d)
  BY <1>1, DiscoveryKept
<1>2. CASE ~\E d \in Discoverers : Discover(d) \/ KillDiscovery(d)
  <2>1. written' = written /\ disc' = disc /\ (latest' = latest \/ latest' = latest + 1)
    BY <1>2 DEF Next, CommitVersion, Read, ReadRecords, ReadBatch, FinishWalk, ReadResults,
         ReadLatest, FinishReconcile, PublishBatch, Check, Refused, OpenJournal, FinishPublication,
         KillPublication, Accept, Process, Resolve, ReadExisting, Evaluate, FinishTick, KillWorker,
         vars, streamVars
  <2>2. latest \in Nat /\ latest' \in Nat /\ latest <= latest'
    BY <2>1, StreamConstants DEF TypeOK
  <2>3. \A d \in Discoverers : disc'[d].pc = "building" => Building(d)'
    BY <2>1, <2>2, BuildingStays
  <2>4. RecordsComplete'
    BY <2>1 DEF DiscoveryInv, RecordsComplete
  <2>5. \A v \in Versions : <<"record", v>> \in written' => v <= latest'
    BY <2>1, <2>2, StreamConstants DEF DiscoveryInv
  <2> QED
    BY <2>3, <2>4, <2>5 DEF DiscoveryInv
<1> QED
  BY <1>1, <1>2

-----------------------------------------------------------------------------
(* Publication and acceptance.                                             *)

\* No step takes anything back that is durable.
LEMMA NothingLost ==
  ASSUME TypeOK, [Next]_vars
  PROVE /\ written \subseteq written' /\ latest <= latest'
        /\ journals \subseteq journals' /\ acked \subseteq acked' /\ accepted \subseteq accepted'
        /\ \A e \in DOMAIN results : e \in DOMAIN results' /\ results'[e] = results[e]
        /\ early' = 0 => early = 0
<1>0. latest <= latest /\ latest <= latest + 1
  BY StreamConstants DEF TypeOK
<1>1. CASE CommitVersion \/ UNCHANGED vars
  BY <1>0, <1>1 DEF CommitVersion, deliveryVars, vars, streamVars
<1>2. CASE \E d \in Discoverers : Discover(d) \/ KillDiscovery(d)
  BY <1>0, <1>2 DEF Discover, StartDiscovery, CreateArtifact, WriteArtifact, ReuseArtifact, KillDiscovery,
       streamVars, deliveryVars
<1>3. CASE \E r \in Readers : Read(r)
  BY <1>0, <1>3 DEF Read, ReadRecords, ReadBatch, FinishWalk, ReadResults, ReadLatest, FinishReconcile,
       streamVars, deliveryVars
<1>4. CASE \E c \in Controllers : PublishBatch(c) \/ KillPublication(c)
  BY <1>0, <1>4 DEF PublishBatch, Check, Refused, OpenJournal, FinishPublication, KillPublication,
       streamVars, deliveryVars
<1>5. CASE \E b \in Batches : Accept(b)
  BY <1>0, <1>5, StreamAssumption DEF Accept, TypeOK, streamVars
<1>6. CASE \E w \in Workers : Process(w) \/ KillWorker(w)
  BY <1>0, <1>6 DEF Process, Resolve, ReadExisting, Evaluate, FinishTick, KillWorker, streamVars, deliveryVars
<1> QED
  BY <1>1, <1>2, <1>3, <1>4, <1>5, <1>6 DEF Next

\* Who is authorized is in turn.
LEMMA AuthorizedInTurn ==
  ASSUME DiscoveryInv, NEW b, EarliestUnaccepted(b)
  PROVE b \in Batches /\ InTurn(b) /\ b \notin accepted
BY RecordedPrefix, StreamConstants DEF EarliestUnaccepted, InTurn, DiscoveryInv

\* Who has come too early is counted: no other accept makes a journal.
LEMMA EarlyAccept ==
  ASSUME TypeOK, NEW b \in Batches, Accept(b), early' = 0
  PROVE early = 0 /\ b \in journals /\ journals' = journals
<1>1. early \in Nat
  BY StreamAssumption DEF TypeOK
<1>2. b \in journals
  BY <1>1 DEF Accept
<1> QED
  BY <1>2 DEF Accept

LEMMA NextDelivery == TypeOK /\ DiscoveryInv /\ DeliveryInv /\ [Next]_vars => DeliveryInv'
<1> SUFFICES ASSUME TypeOK, DiscoveryInv, DeliveryInv, [Next]_vars PROVE DeliveryInv'
  OBVIOUS
<1>1. ASSUME NEW b, InTurn(b) PROVE InTurn(b)'
  BY <1>1, NothingLost DEF InTurn
<1>2. ASSUME NEW b \in Batches, Accept(b) PROVE DeliveryInv'
  <2>1. /\ journals' = journals \cup {b} /\ UNCHANGED <<acked, publisher>>
        /\ accepted \subseteq accepted' /\ accepted' \subseteq acked
    BY <1>2 DEF Accept, DeliveryInv
  <2>2. early' = 0 => early = 0 /\ journals' = journals
    BY <1>2, EarlyAccept
  <2> QED
    BY <1>1, <2>1, <2>2 DEF DeliveryInv
<1>3. ASSUME NEW c \in Controllers, PublishBatch(c) \/ KillPublication(c) PROVE DeliveryInv'
  <2>1. CASE Check(c)
    <3>1. PICK b \in Batches : EarliestUnaccepted(b) /\ publisher' = [publisher EXCEPT ![c] = [pc |-> "authorized", batch |-> b]]
      BY <2>1 DEF Check, Authorized
    <3>2. InTurn(b)
      BY <3>1, AuthorizedInTurn
    <3> QED
      BY <1>1, <2>1, <3>1, <3>2 DEF Check, DeliveryInv, TypeOK, deliveryVars
  <2>2. CASE Refused(c)
    BY <1>1, <2>2 DEF Refused, DeliveryInv, deliveryVars
  <2>3. CASE OpenJournal(c)
    <3>1. publisher' = [publisher EXCEPT ![c] = [publisher[c] EXCEPT !.pc = "publishing"]]
      BY <2>3 DEF OpenJournal, TypeOK
    <3>2. publisher'[c].pc = "publishing" /\ publisher'[c].batch = publisher[c].batch
      BY <3>1 DEF TypeOK, PublisherStates
    <3>3. \A x \in Controllers \ {c} : publisher'[x] = publisher[x]
      BY <3>1 DEF TypeOK
    <3>4. publisher[c].batch \in Batches /\ InTurn(publisher[c].batch)
      BY <2>3 DEF OpenJournal, DeliveryInv
    <3>5. /\ journals' = journals \cup {publisher[c].batch} /\ acked' = acked /\ accepted' = accepted
          /\ early' = early
      BY <2>3 DEF OpenJournal
    <3> QED
      BY <1>1, <3>2, <3>3, <3>4, <3>5 DEF DeliveryInv
  <2>4. CASE FinishPublication(c)
    BY <1>1, <2>4 DEF FinishPublication, DeliveryInv, TypeOK, PublisherIdle
  <2>5. CASE KillPublication(c)
    BY <1>1, <2>5 DEF KillPublication, DeliveryInv, TypeOK, PublisherIdle, deliveryVars
  <2> QED
    BY <1>3, <2>1, <2>2, <2>3, <2>4, <2>5 DEF PublishBatch
<1>4. CASE UNCHANGED <<deliveryVars, publisher, early>>
  BY <1>1, <1>4 DEF DeliveryInv, deliveryVars
<1>5. CASE ~(\E b \in Batches : Accept(b)) /\ ~(\E c \in Controllers : PublishBatch(c) \/ KillPublication(c))
  <2>1. UNCHANGED <<deliveryVars, publisher, early>>
    BY <1>5 DEF Next, CommitVersion, Discover, StartDiscovery, CreateArtifact, WriteArtifact, ReuseArtifact,
         KillDiscovery, Read, ReadRecords, ReadBatch, FinishWalk, ReadResults, ReadLatest, FinishReconcile,
         Process, Resolve, ReadExisting, Evaluate, FinishTick, KillWorker, vars
  <2> QED
    BY <1>4, <2>1
<1> QED
  BY <1>2, <1>3, <1>5

-----------------------------------------------------------------------------
(* Reading the progress.                                                   *)

LEMMA RecordedGrows ==
  ASSUME written \subseteq written'
  PROVE Recorded <= Recorded' /\ Recorded \in Nat /\ Recorded' \in Nat
<1> DEFINE S == {v \in Versions : <<"record", v>> \in written}
           T == {v \in Versions : <<"record", v>> \in written'}
<1>1. IsFiniteSet(Versions)
  BY StreamConstants, FS_Interval DEF Versions
<1>2. T \in SUBSET Versions /\ S \in SUBSET T
  OBVIOUS
<1>3. Recorded = Cardinality(S) /\ Recorded' = Cardinality(T)
  BY DEF Recorded
<1> HIDE DEF S, T
<1>4. IsFiniteSet(T)
  BY <1>1, <1>2, FS_Subset
<1>5. IsFiniteSet(S) /\ Cardinality(S) <= Cardinality(T)
  BY <1>2, <1>4, FS_Subset
<1> QED
  BY <1>3, <1>4, <1>5, FS_CardinalityType

\* Results only lessen what of a set of batches is unscored.
LEMMA UnscoredLessens ==
  ASSUME NEW S \in SUBSET Versions, DOMAIN results \subseteq DOMAIN results'
  PROVE /\ Cardinality(Events(S) \ DOMAIN results') <= Cardinality(Events(S) \ DOMAIN results)
        /\ Cardinality(Events(S) \ DOMAIN results') \in Nat /\ Cardinality(Events(S) \ DOMAIN results) \in Nat
<1>1. IsFiniteSet(Events(S) \ DOMAIN results)
  BY EventsFinite, FS_Difference
<1>2. (Events(S) \ DOMAIN results') \in SUBSET (Events(S) \ DOMAIN results)
  OBVIOUS
<1>3. IsFiniteSet(Events(S) \ DOMAIN results')
  BY <1>1, <1>2, FS_Subset
<1> QED
  BY <1>1, <1>2, <1>3, FS_Subset, FS_CardinalityType

LEMMA StandingReader ==
  ASSUME TypeOK, TypeOK', ReaderInv, [Next]_vars, NEW r \in Readers, reader[r].pc # "idle", reader'[r] = reader[r]
  PROVE ReadStill(r)'
<1>1. reader[r] \in ReaderStates /\ ReadStill(r)
  BY DEF TypeOK, ReaderInv, ReadStill
<1>2. reader[r].accepted \in SUBSET Versions /\ reader[r].pending \in Nat /\ reader[r].records \in Nat
  BY <1>1, StreamConstants DEF ReaderStates
<1>3. DOMAIN results \subseteq DOMAIN results' /\ accepted \subseteq accepted' /\ written \subseteq written'
  BY NothingLost
<1>4. Recorded <= Recorded' /\ Recorded \in Nat /\ Recorded' \in Nat
  BY <1>3, RecordedGrows
<1>5. Cardinality(Events(reader[r].accepted) \ DOMAIN results') <= Cardinality(Events(reader[r].accepted) \ DOMAIN results)
  /\ Cardinality(Events(reader[r].accepted) \ DOMAIN results') \in Nat
  /\ Cardinality(Events(reader[r].accepted) \ DOMAIN results) \in Nat
  BY <1>2, <1>3, UnscoredLessens
<1>6. reader[r].records <= Recorded'
  BY <1>1, <1>2, <1>4 DEF ReadStill
<1>7. reader[r].pc \in {"latest", "check"} =>
        Cardinality(Events(reader[r].accepted) \ DOMAIN results') <= reader[r].pending
  BY <1>1, <1>2, <1>5 DEF ReadStill
<1> QED
  BY <1>1, <1>3, <1>6, <1>7 DEF ReadStill

\* A reader that reads holds what is so when it reads it.
LEMMA MovingReader ==
  ASSUME TypeOK, DiscoveryInv, ReaderInv, NEW r \in Readers, Read(r), reader'[r].pc # "idle"
  PROVE ReadStill(r)'
<1>1. UNCHANGED <<latest, written, accepted, results>> /\ r \in DOMAIN reader
  BY DEF Read, ReadRecords, ReadBatch, FinishWalk, ReadResults, ReadLatest, FinishReconcile,
       streamVars, deliveryVars, TypeOK
<1>2. Recorded' = Recorded /\ Recorded \in Nat
  BY <1>1, RecordedGrows DEF Recorded
<1>3. reader[r] \in ReaderStates /\ latest \in Nat
  BY StreamConstants DEF TypeOK
<1>4. reader[r].pc # "idle" => ReadStill(r)
  BY DEF ReaderInv
<1>5. ASSUME NEW reconcile \in BOOLEAN, ReadRecords(r, reconcile) PROVE ReadStill(r)'
  <2>1. reader'[r] = [ReaderIdle EXCEPT !.pc = "walking", !.reconcile = reconcile, !.records = Recorded]
    BY <1>1, <1>5 DEF ReadRecords
  <2> QED
    BY <1>1, <1>2, <2>1 DEF ReadStill, ReaderIdle
<1>6. CASE ReadBatch(r)
  <2>0. reader[r].pc = "walking"
    BY <1>6 DEF ReadBatch
  <2>1. CASE reader[r].next \in accepted /\ reader'[r] # ReaderIdle
    <3>1. reader'[r] = [reader[r] EXCEPT !.next = reader[r].next + 1,
                                         !.accepted = reader[r].accepted \cup {reader[r].next}]
      BY <1>1, <1>6, <2>1 DEF ReadBatch
    <3>2. /\ reader'[r].report = reader[r].report /\ reader'[r].records = reader[r].records
          /\ reader'[r].accepted = reader[r].accepted \cup {reader[r].next} /\ reader'[r].pc = "walking"
          /\ reader'[r].pass = reader[r].pass /\ reader'[r].latest = reader[r].latest
      BY <1>3, <2>0, <3>1 DEF ReaderStates
    <3> QED
      BY <1>1, <1>2, <1>4, <1>6, <2>1, <3>2 DEF ReadStill, ReadBatch
  <2>2. CASE reader[r].next \notin accepted
    <3>1. reader'[r] = [reader[r] EXCEPT !.next = reader[r].next + 1,
                          !.active = reader[r].active + (IF reader[r].next \in journals THEN 1 ELSE 0)]
      BY <1>1, <1>6, <2>2 DEF ReadBatch
    <3>2. /\ reader'[r].report = reader[r].report /\ reader'[r].records = reader[r].records
          /\ reader'[r].accepted = reader[r].accepted /\ reader'[r].pc = "walking"
          /\ reader'[r].pass = reader[r].pass /\ reader'[r].latest = reader[r].latest
      BY <1>3, <2>0, <3>1 DEF ReaderStates
    <3> QED
      BY <1>1, <1>2, <1>4, <1>6, <3>2 DEF ReadStill, ReadBatch
  <2>3. reader'[r] # ReaderIdle
    BY DEF ReaderIdle
  <2> QED
    BY <2>1, <2>2, <2>3
<1>7. CASE FinishWalk(r)
  <2>1. reader'[r] = [reader[r] EXCEPT !.pc = "results"]
    BY <1>1, <1>7 DEF FinishWalk, ReaderIdle
  <2>2. /\ reader'[r].report = reader[r].report /\ reader'[r].records = reader[r].records
        /\ reader'[r].accepted = reader[r].accepted /\ reader'[r].pc = "results"
        /\ reader'[r].pass = reader[r].pass /\ reader'[r].latest = reader[r].latest
    BY <1>3, <2>1 DEF ReaderStates
  <2> QED
    BY <1>1, <1>2, <1>4, <1>7, <2>2 DEF ReadStill, FinishWalk
<1>8. CASE ReadResults(r)
  <2>1. reader'[r] = [reader[r] EXCEPT !.pc = "latest",
                        !.pending = Cardinality(Events(reader[r].accepted) \ DOMAIN results)]
    BY <1>1, <1>8 DEF ReadResults, ReaderIdle
  <2>2. /\ reader'[r].report = reader[r].report /\ reader'[r].records = reader[r].records
        /\ reader'[r].accepted = reader[r].accepted
        /\ reader'[r].pass = reader[r].pass /\ reader'[r].latest = reader[r].latest
        /\ reader'[r].pending = Cardinality(Events(reader[r].accepted) \ DOMAIN results)
    BY <1>3, <2>1 DEF ReaderStates
  <2>3. Cardinality(Events(reader[r].accepted) \ DOMAIN results) \in Nat
    <3>1. reader[r].accepted \in SUBSET Versions
      BY <1>3, StreamConstants DEF ReaderStates
    <3> QED
      BY <3>1, EventsFinite, FS_Difference, FS_CardinalityType
  <2> QED
    BY <1>1, <1>2, <1>4, <1>8, <2>2, <2>3 DEF ReadStill, ReadResults
<1>9. CASE ReadLatest(r)
  <2>1. CASE reader'[r] = [reader[r] EXCEPT !.pc = "check"]
    <3>1. /\ reader'[r].report = reader[r].report /\ reader'[r].records = reader[r].records
          /\ reader'[r].accepted = reader[r].accepted /\ reader'[r].pending = reader[r].pending
          /\ reader'[r].pass = reader[r].pass /\ reader'[r].latest = reader[r].latest
      BY <1>3, <2>1 DEF ReaderStates
    <3> QED
      BY <1>1, <1>2, <1>4, <1>9, <3>1 DEF ReadStill, ReadLatest
  <2>2. CASE latest <= reader[r].records /\
             reader'[r] = [ReaderIdle EXCEPT !.pc = "walking", !.reconcile = TRUE, !.pass = 2,
                                             !.records = Recorded, !.latest = latest]
    <3>1. /\ reader'[r].report = "none" /\ reader'[r].records = Recorded /\ reader'[r].accepted = {}
          /\ reader'[r].pc = "walking" /\ reader'[r].latest = latest
      BY <2>2 DEF ReaderIdle
    <3>2. latest <= Recorded
      BY <1>2, <1>3, <1>4, <1>9, <2>2 DEF ReadStill, ReadLatest, ReaderStates
    <3> QED
      BY <1>1, <1>2, <3>1, <3>2 DEF ReadStill
  <2>3. ReaderIdle.pc = "idle" /\ [ReaderIdle EXCEPT !.report = StateOf(r)].pc = "idle"
    BY DEF ReaderIdle
  <2>4. latest > reader[r].records \/ latest <= reader[r].records
    BY <1>3 DEF ReaderStates
  <2> QED
    BY <1>1, <1>9, <2>1, <2>2, <2>3, <2>4 DEF ReadLatest
<1>10. CASE FinishReconcile(r)
  BY <1>1, <1>10 DEF FinishReconcile, ReaderIdle
<1> QED
  BY <1>5, <1>6, <1>7, <1>8, <1>9, <1>10 DEF Read

\* Another command's step leaves a reader as it is, or ends it unreported.
LEMMA ReaderLeft ==
  ASSUME TypeOK, [Next]_vars, NEW r \in Readers, ~Read(r)
  PROVE reader'[r] = reader[r] \/ reader'[r] = ReaderIdle
<1>1. CASE \E q \in Readers : Read(q)
  <2>1. PICK q \in Readers : Read(q)
    BY <1>1
  <2>2. q # r
    BY <2>1
  <2> QED
    BY <2>1, <2>2 DEF Read, ReadRecords, ReadBatch, FinishWalk, ReadResults, ReadLatest, FinishReconcile, TypeOK
<1>2. CASE \E c \in Controllers : PublishBatch(c) \/ KillPublication(c)
  BY <1>2 DEF PublishBatch, Check, Refused, OpenJournal, FinishPublication, KillPublication, TypeOK
<1>3. CASE \E w \in Workers : Process(w) \/ KillWorker(w)
  BY <1>3 DEF Process, Resolve, ReadExisting, Evaluate, FinishTick, KillWorker
<1>4. CASE \E d \in Discoverers : Discover(d) \/ KillDiscovery(d)
  BY <1>4 DEF Discover, StartDiscovery, CreateArtifact, WriteArtifact, ReuseArtifact, KillDiscovery
<1> QED
  BY <1>1, <1>2, <1>3, <1>4 DEF Next, CommitVersion, Accept, vars

LEMMA NextReader ==
  ASSUME TypeOK, TypeOK', DiscoveryInv, ReaderInv, [Next]_vars
  PROVE ReaderInv'
<1> SUFFICES ASSUME NEW r \in Readers, reader'[r].pc # "idle" PROVE ReadStill(r)'
  BY DEF ReaderInv
<1>1. CASE Read(r)
  BY <1>1, MovingReader
<1>2. CASE ~Read(r)
  <2>1. reader'[r] = reader[r]
    BY <1>2, ReaderLeft DEF ReaderIdle
  <2> QED
    BY <2>1, StandingReader
<1> QED
  BY <1>1, <1>2

-----------------------------------------------------------------------------
(* Inference.                                                              *)

LEMMA AcceptedEvents ==
  ASSUME TypeOK
  PROVE accepted \in SUBSET Versions /\ Events(accepted) \subseteq Events(Versions)
BY StreamConstants, EventsGrow DEF TypeOK

\* What is newly accepted comes after all that was.
LEMMA AcceptedLater ==
  ASSUME TypeOK, DeliveryInv, NEW b, EarliestUnaccepted(b), NEW f \in Events(accepted \cup {b}),
         NEW e \in Events(accepted), Precedes(f, e)
  PROVE f \in Events(accepted)
<1>1. b \in Batches /\ b \in Nat /\ b \notin accepted /\ accepted \cup {b} \in SUBSET Versions
  BY AcceptedEvents, StreamConstants DEF EarliestUnaccepted
<1>2. f = <<f[1], f[2]>> /\ f[1] \in accepted \cup {b} /\ f[1] \in Nat /\ f[2] \in 1..Size[f[1]]
  BY <1>1, EventsParts
<1>3. e[1] \in accepted /\ e[1] \in Nat
  BY AcceptedEvents, EventsParts
<1>4. InTurn(e[1])
  BY <1>3 DEF DeliveryInv
<1>5. f[1] # b
  BY <1>1, <1>3, <1>4 DEF InTurn, Precedes
<1> QED
  BY <1>2, <1>5, AcceptedEvents, EventsIn

LEMMA AcceptInference ==
  ASSUME TypeOK, DeliveryInv, InferenceInv, NEW b \in Batches, Accept(b)
  PROVE InferenceInv'
<1>1. results' = results /\ worker' = worker /\ accepted \subseteq accepted'
  BY DEF Accept
<1>2. Events(accepted) \subseteq Events(accepted')
  <2>1. accepted' \in SUBSET Versions
    BY AcceptedEvents, StreamConstants DEF Accept
  <2> QED
    BY <1>1, <2>1, EventsGrow
<1>3. \A e \in Events(accepted), f \in Events(accepted') : Precedes(f, e) => f \in Events(accepted)
  <2>1. CASE b \in acked /\ EarliestUnaccepted(b)
    BY <2>1, AcceptedLater DEF Accept
  <2>2. CASE ~(b \in acked /\ EarliestUnaccepted(b))
    BY <2>2 DEF Accept
  <2> QED
    BY <2>1, <2>2
<1>4. ResultsInOrder'
  BY <1>1, <1>2, <1>3 DEF InferenceInv, ResultsInOrder, ResultsPrefix, OneWindow
<1>5. ASSUME NEW w \in Workers PROVE WorkerInv(w)'
  <2>1. WorkerInv(w)
    BY DEF InferenceInv
  <2> QED
    BY <1>1, <1>2, <1>3, <2>1 DEF WorkerInv
<1> QED
  BY <1>4, <1>5 DEF InferenceInv

\* The event at hand has no result beyond it; if it has none, the results are
\* those of this worker's window, and all that precede it.
LEMMA AtHandIsNext ==
  ASSUME TypeOK, InferenceInv, NEW w \in Workers, worker[w].pc = "working", worker[w].todo # {},
         NEW e, e = First(worker[w].todo), e \notin DOMAIN results
  PROVE /\ e \in Events(accepted)
        /\ \A f \in Events(accepted) : Precedes(f, e) => f \in DOMAIN results
        /\ \A g \in DOMAIN results : results[g].window = worker[w].window
<1>1. e \in worker[w].todo /\ \A f \in worker[w].todo \ {e} : Precedes(e, f)
  BY AtHand
<1>2. WorkerInv(w) /\ ResultsPrefix
  BY DEF InferenceInv, ResultsInOrder
<1>3. e \in Events(accepted) /\ e \in Events(Versions)
  BY <1>1, <1>2, AcceptedEvents DEF WorkerInv
<1>4. ASSUME NEW f \in Events(accepted), Precedes(f, e) PROVE f \notin worker[w].todo
  <2>1. f \in Events(Versions) /\ f # e
    BY <1>3, <1>4, AcceptedEvents, PrecedesOrder
  <2> QED
    BY <1>1, <1>3, <1>4, <2>1, PrecedesOrder
<1>5. ASSUME NEW g \in DOMAIN results, results[g].window # worker[w].window PROVE FALSE
  <2>1. g \in Events(accepted) /\ g \in Events(Versions) /\ g # e
    BY <1>2, AcceptedEvents DEF ResultsPrefix
  <2>2. CASE Precedes(g, e)
    BY <1>1, <1>2, <1>4, <1>5, <2>1, <2>2 DEF WorkerInv
  <2>3. CASE Precedes(e, g)
    BY <1>2, <1>3, <2>1, <2>3 DEF ResultsPrefix
  <2> QED
    BY <1>3, <2>1, <2>2, <2>3, PrecedesOrder
<1> QED
  BY <1>1, <1>2, <1>3, <1>4, <1>5 DEF WorkerInv

\* A command that leaves the results alone.
LEMMA WorkerOnly ==
  ASSUME InferenceInv, NEW w \in Workers, UNCHANGED <<accepted, results>>,
         \A x \in Workers \ {w} : worker'[x] = worker[x], WorkerInv(w)'
  PROVE InferenceInv'
<1>1. ResultsInOrder'
  BY DEF InferenceInv, ResultsInOrder, ResultsPrefix, OneWindow
<1>2. ASSUME NEW x \in Workers \ {w} PROVE WorkerInv(x)'
  <2>1. WorkerInv(x)
    BY DEF InferenceInv
  <2> QED
    BY <2>1 DEF WorkerInv
<1> QED
  BY <1>1, <1>2 DEF InferenceInv

LEMMA EvaluateInference ==
  ASSUME TypeOK, InferenceInv, NEW w \in Workers, Evaluate(w)
  PROVE InferenceInv'
<1> DEFINE e == First(worker[w].todo)
<1>1. /\ worker[w].pc = "working" /\ worker[w].todo # {} /\ accepted' = accepted
      /\ \A x \in Workers \ {w} : worker'[x] = worker[x]
  BY DEF Evaluate, TakeNext, TypeOK, deliveryVars
<1>2. e \in worker[w].todo /\ e \in Events(Versions) /\ \A f \in worker[w].todo \ {e} : Precedes(e, f)
  BY <1>1, AtHand
<1>3. PICK status \in Outcomes[e] :
        LET result == [window |-> worker[w].window, status |-> status] IN
        IF e \in DOMAIN results
        THEN /\ worker' = IF results[e] = result THEN TakeNext(w, e)
                          ELSE [worker EXCEPT ![w] = WorkerIdle(@.window)]
             /\ UNCHANGED results
        ELSE /\ results' = [f \in DOMAIN results \cup {e} |-> IF f = e THEN result ELSE results[f]]
             /\ worker' = TakeNext(w, e)
  BY DEF Evaluate
<1>4. WorkerInv(w) /\ ResultsPrefix /\ OneWindow
  BY DEF InferenceInv, ResultsInOrder
<1>5. ASSUME worker' = TakeNext(w, e)
      PROVE /\ worker'[w].pc = "working" /\ worker'[w].window = worker[w].window
            /\ worker'[w].todo = worker[w].todo \ {e}
  <2>1. worker'[w] = [worker[w] EXCEPT !.todo = worker[w].todo \ {e}, !.left = worker[w].left - 1]
    BY <1>5 DEF TakeNext, TypeOK
  <2>2. worker[w] \in WorkerStates
    BY DEF TypeOK
  <2> HIDE DEF e
  <2> QED
    BY <1>1, <2>1, <2>2 DEF WorkerStates
<1> HIDE DEF e
<1>6. CASE e \in DOMAIN results
  <2>1. results' = results
    BY <1>3, <1>6
  <2>2. CASE worker'[w] = WorkerIdle(worker[w].window)
    <3>1. WorkerInv(w)'
      BY <2>2 DEF WorkerInv, WorkerIdle
    <3> QED
      BY <1>1, <2>1, <3>1, WorkerOnly
  <2>3. CASE worker'[w] # WorkerIdle(worker[w].window)
    <3>1. results[e].window = worker[w].window /\ worker' = TakeNext(w, e)
      BY <1>3, <1>6, <2>3 DEF TypeOK
    <3>2. \A g \in DOMAIN results : results[g].window = worker[w].window
      BY <1>4, <1>6, <3>1 DEF OneWindow
    <3>3. WorkerInv(w)'
      BY <1>1, <1>4, <1>5, <1>6, <2>1, <3>1, <3>2 DEF WorkerInv
    <3> QED
      BY <1>1, <2>1, <3>3, WorkerOnly
  <2> QED
    BY <2>2, <2>3
<1>7. CASE e \notin DOMAIN results
  <2>1. /\ worker' = TakeNext(w, e) /\ DOMAIN results' = DOMAIN results \cup {e}
        /\ results'[e].window = worker[w].window
        /\ \A f \in DOMAIN results : results'[f] = results[f]
    BY <1>3, <1>7
  <2>2. /\ e \in Events(accepted)
        /\ \A f \in Events(accepted) : Precedes(f, e) => f \in DOMAIN results
        /\ \A g \in DOMAIN results : results[g].window = worker[w].window
    BY <1>1, <1>7, AtHandIsNext DEF e
  <2>3. \A g \in DOMAIN results' : results'[g].window = worker[w].window
    BY <2>1, <2>2
  <2>4. ResultsInOrder'
    BY <1>1, <1>4, <2>1, <2>2, <2>3 DEF ResultsInOrder, ResultsPrefix, OneWindow
  <2>5. WorkerInv(w)'
    BY <1>1, <1>4, <1>5, <2>1, <2>3 DEF WorkerInv
  <2>6. ASSUME NEW x \in Workers \ {w} PROVE WorkerInv(x)'
    <3>1. WorkerInv(x) /\ worker'[x] = worker[x]
      BY <1>1 DEF InferenceInv
    <3>2. ASSUME NEW f \in worker[x].todo, NEW h \in Events(accepted), worker[x].pc = "working",
                 NEW g \in DOMAIN results', Precedes(h, f), results'[g].window # worker[x].window
          PROVE h \in worker[x].todo
      <4>1. CASE DOMAIN results = {}
        BY <3>1, <3>2, <4>1 DEF WorkerInv
      <4>2. CASE DOMAIN results # {}
        <5>1. PICK g0 \in DOMAIN results : TRUE
          BY <4>2
        <5>2. results[g0].window # worker[x].window
          BY <2>2, <2>3, <3>2
        <5> QED
          BY <3>1, <3>2, <5>2 DEF WorkerInv
      <4> QED
        BY <4>1, <4>2
    <3> QED
      BY <1>1, <2>1, <3>1, <3>2 DEF WorkerInv
  <2> QED
    BY <2>4, <2>5, <2>6 DEF InferenceInv
<1> QED
  BY <1>6, <1>7

LEMMA ProcessInference ==
  ASSUME TypeOK, DeliveryInv, InferenceInv, NEW w \in Workers, Process(w) \/ KillWorker(w)
  PROVE InferenceInv'
<1>1. CASE Evaluate(w)
  BY <1>1, EvaluateInference
<1>2. CASE ~Evaluate(w)
  <2>1. UNCHANGED <<accepted, results>> /\ \A x \in Workers \ {w} : worker'[x] = worker[x]
    BY <1>2 DEF Process, Resolve, ReadExisting, FinishTick, KillWorker, deliveryVars, TypeOK
  <2>2. ASSUME NEW window \in Windows, Resolve(w, window) PROVE WorkerInv(w)'
    <3>1. worker'[w] = [WorkerIdle(window) EXCEPT !.pc = "resolved", !.queue = accepted]
      BY <2>2 DEF Resolve, TypeOK
    <3>2. worker'[w].pc = "resolved" /\ worker'[w].queue = accepted
      BY <3>1 DEF WorkerIdle
    <3>3. \A b \in accepted, v \in Batches : v < b => v \in accepted
      BY DEF DeliveryInv, InTurn
    <3> QED
      BY <2>1, <3>2, <3>3 DEF WorkerInv
  <2>3. ASSUME ReadExisting(w) PROVE WorkerInv(w)'
    <3>1. CASE worker'[w] = WorkerIdle(worker[w].window)
      <4>1. worker'[w].pc = "idle"
        BY <3>1 DEF WorkerIdle
      <4> QED
        BY <4>1 DEF WorkerInv
    <3>2. CASE worker'[w] # WorkerIdle(worker[w].window)
      <4> DEFINE Q == worker[w].queue
      <4>1. /\ \A g \in DOMAIN results : results[g].window = worker[w].window
            /\ worker'[w] = [worker[w] EXCEPT !.pc = "working", !.queue = {}, !.left = MaxTick,
                                              !.todo = Events(worker[w].queue) \ DOMAIN results]
        BY <2>3, <3>2 DEF ReadExisting, TypeOK
      <4>2. /\ worker'[w].pc = "working" /\ worker'[w].todo = Events(Q) \ DOMAIN results
            /\ worker'[w].window = worker[w].window
        BY <4>1 DEF TypeOK, WorkerStates
      <4>3. Q \subseteq accepted /\ Q \in SUBSET Versions /\ \A b \in Q, v \in Batches : v < b => v \in Q
        BY <2>3, AcceptedEvents DEF InferenceInv, WorkerInv, ReadExisting
      <4> HIDE DEF Q
      <4>4. Events(Q) \subseteq Events(accepted)
        BY <4>3, EventsGrow
      <4>5. ASSUME NEW e \in Events(Q), NEW f \in Events(accepted), Precedes(f, e) PROVE f \in Events(Q)
        <5>1. e[1] \in Q /\ e[1] \in Nat
          BY <4>3, EventsParts
        <5>2. f = <<f[1], f[2]>> /\ f[1] \in accepted /\ f[1] \in Nat /\ f[2] \in 1..Size[f[1]]
          BY AcceptedEvents, EventsParts
        <5>3. f[1] \in Batches
          BY <5>2 DEF TypeOK
        <5>4. f[1] \in Q
          BY <4>3, <4>5, <5>1, <5>2, <5>3 DEF Precedes
        <5> QED
          BY <4>3, <5>2, <5>4, EventsIn
      <4>6. worker'[w].todo \subseteq Events(accepted)
        BY <4>2, <4>4
      <4>7. \A e \in worker'[w].todo, f \in Events(accepted) :
              Precedes(f, e) => f \in worker'[w].todo \/ f \in DOMAIN results
        BY <4>2, <4>5
      <4>8. \A g \in DOMAIN results : results[g].window = worker'[w].window
        BY <4>1, <4>2
      <4> QED
        BY <2>1, <4>2, <4>6, <4>7, <4>8 DEF WorkerInv
    <3> QED
      BY <3>1, <3>2
  <2>4. ASSUME FinishTick(w) \/ KillWorker(w) PROVE WorkerInv(w)'
    <3>1. worker'[w] = WorkerIdle(worker[w].window)
      BY <2>4 DEF FinishTick, KillWorker, TypeOK
    <3>2. worker'[w].pc = "idle"
      BY <3>1 DEF WorkerIdle
    <3> QED
      BY <3>2 DEF WorkerInv
  <2> QED
    BY <1>2, <2>1, <2>2, <2>3, <2>4, WorkerOnly DEF Process
<1> QED
  BY <1>1, <1>2

LEMMA NextInference == TypeOK /\ DeliveryInv /\ InferenceInv /\ [Next]_vars => InferenceInv'
<1> SUFFICES ASSUME TypeOK, DeliveryInv, InferenceInv, [Next]_vars PROVE InferenceInv'
  OBVIOUS
<1>1. CASE UNCHANGED <<accepted, results, worker>>
  <2>1. ResultsInOrder'
    BY <1>1 DEF InferenceInv, ResultsInOrder, ResultsPrefix, OneWindow
  <2> QED
    BY <1>1, <2>1 DEF InferenceInv, WorkerInv
<1>2. CASE ~(\E b \in Batches : Accept(b)) /\ ~(\E w \in Workers : Process(w) \/ KillWorker(w))
  <2>1. UNCHANGED <<accepted, results, worker>>
    BY <1>2 DEF Next, CommitVersion, Discover, StartDiscovery, CreateArtifact, WriteArtifact, ReuseArtifact,
         KillDiscovery, Read, ReadRecords, ReadBatch, FinishWalk, ReadResults, ReadLatest, FinishReconcile,
         PublishBatch, Check, Refused, OpenJournal, FinishPublication, KillPublication, vars, deliveryVars
  <2> QED
    BY <1>1, <2>1
<1> QED
  BY <1>2, AcceptInference, ProcessInference

-----------------------------------------------------------------------------
(* Capacity.                                                               *)

LEMMA PendingCounted ==
  ASSUME TypeOK
  PROVE IsFiniteSet(Pending) /\ Cardinality(Pending) \in Nat
BY AcceptedEvents, EventsFinite, FS_Difference, FS_CardinalityType DEF Pending

\* Two batches in turn, not accepted, are one.
LEMMA OneInTurn ==
  ASSUME TypeOK, NEW a \in Batches, NEW b \in Batches, InTurn(a), InTurn(b), a \notin accepted, b \notin accepted
  PROVE a = b
BY StreamConstants DEF InTurn

\* An acceptance adds at most the rows of its batch to what is pending.
LEMMA AcceptAdds ==
  ASSUME TypeOK, NEW b \in Batches, Accept(b)
  PROVE Cardinality(Pending') <= Cardinality(Pending) + Size[b] /\ Cardinality(Pending') \in Nat
<1>1. accepted' \subseteq accepted \cup {b} /\ results' = results
  BY DEF Accept
<1>2. Pending' \in SUBSET (Pending \cup Events({b}))
  BY <1>1 DEF Pending, Events
<1>3. IsFiniteSet(Events({b})) /\ Cardinality(Events({b})) = Size[b] /\ Size[b] \in Nat
  BY EventsCounted, StreamConstants
<1>4. IsFiniteSet(Pending) /\ Cardinality(Pending) \in Nat
  BY PendingCounted
<1>5. /\ IsFiniteSet(Pending \cup Events({b}))
      /\ Cardinality(Pending \cup Events({b})) = Cardinality(Pending) + Cardinality(Events({b})) - Cardinality(Pending \cap Events({b}))
  BY <1>3, <1>4, FS_Union
<1>6. Cardinality(Pending \cap Events({b})) \in Nat
  BY <1>4, FS_Intersection, FS_CardinalityType
<1>7. IsFiniteSet(Pending') /\ Cardinality(Pending') <= Cardinality(Pending \cup Events({b}))
  BY <1>2, <1>5, FS_Subset
<1>8. Cardinality(Pending') \in Nat
  BY <1>7, FS_CardinalityType
<1> QED
  BY <1>3, <1>4, <1>5, <1>6, <1>7, <1>8

\* There is room for a batch that is authorized now: the summary of the
\* controller overstates what is pending, unless its batch has a journal.
LEMMA AuthorizedAdmitted ==
  ASSUME TypeOK, DiscoveryInv, DeliveryInv, ReaderInv, CapacityInv,
         NEW c \in Controllers, NEW b \in Batches, reader[c].pc = "check", Authorized(c, b)
  PROVE Admitted(b)
<1>1. b \notin accepted /\ reader[c].pending + Size[b] <= MaxUnprocessed
  BY DEF Authorized, EarliestUnaccepted
<1>2. CASE b \in journals
  BY <1>1, <1>2 DEF CapacityInv
<1>3. CASE b \notin journals
  <2>1. c \in Readers /\ reader[c] \in ReaderStates /\ ReadStill(c) /\ Unchanging(c)
    BY DEF TypeOK, Readers, ReaderInv, CapacityInv
  <2>2. ~(reader[c].active > 0) /\ reader[c].next > reader[c].records
    BY <1>3, <2>1 DEF Authorized, Unchanging
  <2>3. reader[c].next \in Nat /\ reader[c].records \in Nat /\ reader[c].pending \in Nat
    BY <2>1, StreamConstants DEF ReaderStates
  <2>4. journals \subseteq reader[c].accepted
    <3> SUFFICES ASSUME NEW a \in journals PROVE a \in reader[c].accepted
      OBVIOUS
    <3>1. a \in Nat /\ a <= reader[c].records
      BY <2>1, StreamConstants DEF TypeOK, Unchanging
    <3>2. a < reader[c].next
      BY <2>2, <2>3, <3>1
    <3> QED
      BY <2>1, <2>2, <3>2 DEF Unchanging
  <2>5. reader[c].accepted = accepted
    BY <2>1, <2>4 DEF ReadStill, DeliveryInv
  <2>6. Cardinality(Pending) <= reader[c].pending
    BY <2>1, <2>5 DEF ReadStill, Pending
  <2>7. Cardinality(Pending) \in Nat /\ Size[b] \in Nat /\ MaxUnprocessed \in Nat
    BY PendingCounted, StreamConstants, StreamAssumption
  <2> QED
    BY <1>1, <2>3, <2>6, <2>7 DEF Admitted
<1> QED
  BY <1>2, <1>3

\* Room stays while nothing more is accepted.
LEMMA AdmittedStays ==
  ASSUME TypeOK, accepted' = accepted, DOMAIN results \subseteq DOMAIN results'
  PROVE /\ Cardinality(Pending') <= Cardinality(Pending)
        /\ AcceptedBounded => AcceptedBounded'
        /\ \A b \in Batches : Admitted(b) => Admitted(b)'
<1>1. /\ Cardinality(Pending') <= Cardinality(Pending)
      /\ Cardinality(Pending) \in Nat /\ Cardinality(Pending') \in Nat
  BY AcceptedEvents, UnscoredLessens DEF Pending
<1>2. MaxUnprocessed \in Nat /\ \A b \in Batches : Size[b] \in Nat
  BY StreamConstants, StreamAssumption
<1> QED
  BY <1>1, <1>2 DEF AcceptedBounded, Admitted

LEMMA AcceptCapacity ==
  ASSUME TypeOK, DeliveryInv, CapacityInv, NEW b \in Batches, Accept(b), early' = 0
  PROVE CapacityInv'
<1>1. /\ b \in journals /\ \A a \in journals : InTurn(a)
      /\ UNCHANGED <<journals, results, publisher, reader>>
  BY EarlyAccept DEF Accept, DeliveryInv
<1>2. \A c \in Controllers : Unchanging(c) /\ accepted \subseteq accepted' => Unchanging(c)'
  BY <1>1 DEF Unchanging
<1>3. CASE b \in acked /\ EarliestUnaccepted(b)
  <2>1. b \in journals \ accepted /\ InTurn(b) /\ accepted' = accepted \cup {b}
    BY <1>1, <1>3 DEF Accept, EarliestUnaccepted
  <2>2. AcceptedBounded'
    <3>1. Admitted(b) /\ MaxUnprocessed \in Nat /\ Size[b] \in Nat /\ Cardinality(Pending) \in Nat
      BY <2>1, StreamAssumption, StreamConstants, PendingCounted DEF CapacityInv
    <3> QED
      BY <3>1, AcceptAdds DEF AcceptedBounded, Admitted
  <2>3. \A a \in Batches : InTurn(a) => a \in accepted'
    BY <2>1, OneInTurn
  <2>4. journals \subseteq accepted'
    BY <1>1, <2>3 DEF TypeOK
  <2>5. \A c \in Controllers : publisher[c].pc # "idle" => publisher[c].batch \in accepted'
    BY <2>3 DEF DeliveryInv
  <2> QED
    BY <1>1, <1>2, <2>1, <2>2, <2>4, <2>5 DEF CapacityInv
<1>4. CASE ~(b \in acked /\ EarliestUnaccepted(b))
  <2>1. accepted' = accepted
    BY <1>4 DEF Accept
  <2>2. AcceptedBounded' /\ \A a \in Batches : Admitted(a) => Admitted(a)'
    BY <1>1, <2>1, AdmittedStays DEF CapacityInv
  <2>3. \A a \in journals' \ accepted' : Admitted(a)'
    BY <1>1, <2>1, <2>2 DEF CapacityInv, TypeOK
  <2>4. \A c \in Controllers :
          publisher'[c].pc # "idle" => publisher'[c].batch \in accepted' \/ Admitted(publisher[c].batch)'
    BY <1>1, <2>1, <2>2 DEF CapacityInv, DeliveryInv
  <2> QED
    BY <1>1, <1>2, <2>1, <2>2, <2>3, <2>4 DEF CapacityInv, Admitted
<1> QED
  BY <1>3, <1>4

LEMMA PublicationCapacity ==
  ASSUME OneController, TypeOK, DiscoveryInv, DeliveryInv, ReaderInv, CapacityInv,
         NEW c \in Controllers, PublishBatch(c) \/ KillPublication(c)
  PROVE CapacityInv'
<1>1. accepted' = accepted /\ results' = results /\ c \in Readers /\ Controllers = {c}
  BY DEF PublishBatch, Check, Refused, OpenJournal, FinishPublication, KillPublication, deliveryVars,
         OneController, Readers
<1>2. AcceptedBounded' /\ \A b \in Batches : Admitted(b) => Admitted(b)'
  BY <1>1, AdmittedStays DEF CapacityInv
<1>3. \A b \in journals : b \in Batches
  BY DEF TypeOK
<1>4. ASSUME Check(c) \/ Refused(c) PROVE reader'[c].pc = "idle" /\ journals' = journals
  BY <1>1, <1>4 DEF Check, Refused, TypeOK, ReaderIdle, deliveryVars
<1>5. CASE Check(c)
  <2>1. PICK b \in Batches : Authorized(c, b) /\ publisher' = [publisher EXCEPT ![c] = [pc |-> "authorized", batch |-> b]]
    BY <1>5 DEF Check
  <2>2. Admitted(b)
    BY <1>5, <2>1, AuthorizedAdmitted DEF Check
  <2>3. publisher'[c].batch = b
    BY <2>1 DEF TypeOK
  <2> QED
    BY <1>1, <1>2, <1>3, <1>4, <1>5, <2>2, <2>3 DEF CapacityInv
<1>6. CASE Refused(c)
  <2>1. publisher' = publisher
    BY <1>6 DEF Refused
  <2> QED
    BY <1>1, <1>2, <1>3, <1>4, <1>6, <2>1 DEF CapacityInv, DeliveryInv
<1>7. CASE OpenJournal(c)
  <2>1. /\ publisher[c].pc = "authorized" /\ publisher[c].batch \in Batches
        /\ journals' = journals \cup {publisher[c].batch} /\ reader' = reader
        /\ publisher' = [publisher EXCEPT ![c] = [publisher[c] EXCEPT !.pc = "publishing"]]
    BY <1>7 DEF OpenJournal, TypeOK, DeliveryInv
  <2>2. publisher'[c].batch = publisher[c].batch
    BY <2>1 DEF TypeOK, PublisherStates
  <2>3. reader'[c].pc = "idle"
    BY <2>1 DEF CapacityInv, Unchanging
  <2>4. publisher[c].batch \in accepted \/ Admitted(publisher[c].batch)
    BY <2>1 DEF CapacityInv
  <2> QED
    BY <1>1, <1>2, <1>3, <2>1, <2>2, <2>3, <2>4 DEF CapacityInv
<1>8. CASE FinishPublication(c) \/ KillPublication(c)
  <2>1. /\ publisher[c].pc # "idle" /\ publisher'[c].pc = "idle"
        /\ journals' = journals /\ reader' = reader
    BY <1>8 DEF FinishPublication, KillPublication, TypeOK, PublisherIdle, deliveryVars
  <2>2. reader'[c].pc = "idle"
    BY <2>1 DEF CapacityInv, Unchanging
  <2> QED
    BY <1>1, <1>2, <1>3, <2>1, <2>2 DEF CapacityInv
<1> QED
  BY <1>5, <1>6, <1>7, <1>8 DEF PublishBatch

\* What a controller reads covers every journal.
LEMMA ReadingCapacity ==
  ASSUME TypeOK, DiscoveryInv, DeliveryInv, CapacityInv, early = 0, NEW c \in Controllers,
         Read(c), reader'[c].pc # "idle"
  PROVE Unchanging(c)'
<1>1. /\ UNCHANGED <<journals, publisher>> /\ c \in Readers /\ c \in DOMAIN reader
      /\ reader[c] \in ReaderStates
  BY DEF Read, ReadRecords, ReadBatch, FinishWalk, ReadResults, ReadLatest, FinishReconcile,
       deliveryVars, TypeOK, Readers
<1>2. reader[c].pc # "idle" => Unchanging(c)
  BY DEF CapacityInv
<1>3. /\ reader[c].next \in Nat /\ reader[c].active \in Nat /\ reader[c].records \in Nat
      /\ \A b \in journals : b \in Nat /\ 1 <= b /\ b \in Batches
  BY <1>1, StreamConstants DEF ReaderStates, TypeOK
<1>4. ASSUME NEW reconcile \in BOOLEAN, ReadRecords(c, reconcile) PROVE Unchanging(c)'
  <2>1. reader'[c] = [ReaderIdle EXCEPT !.pc = "walking", !.reconcile = reconcile, !.records = Recorded]
    BY <1>1, <1>4 DEF ReadRecords
  <2>2. reader'[c].pc = "walking" /\ reader'[c].records = Recorded /\ reader'[c].next = 1
    BY <2>1 DEF ReaderIdle
  <2>3. publisher[c].pc = "idle"
    BY <1>4 DEF ReadRecords
  <2>4. \A b \in journals : b <= Recorded
    BY <1>3, RecordedPrefix, StreamConstants DEF DeliveryInv, InTurn, DiscoveryInv
  <2> QED
    BY <1>1, <1>3, <2>2, <2>3, <2>4 DEF Unchanging
<1>5. CASE ReadBatch(c)
  <2>1. reader[c].pc = "walking" /\ Unchanging(c)
    BY <1>2, <1>5 DEF ReadBatch
  <2>2. CASE reader[c].next \in accepted
    <3>1. reader'[c] = [reader[c] EXCEPT !.next = reader[c].next + 1,
                                         !.accepted = reader[c].accepted \cup {reader[c].next}]
      BY <1>1, <1>5, <2>2 DEF ReadBatch, ReaderIdle
    <3>2. /\ reader'[c].records = reader[c].records /\ reader'[c].next = reader[c].next + 1
          /\ reader'[c].accepted = reader[c].accepted \cup {reader[c].next} /\ reader'[c].pc = "walking"
          /\ reader'[c].active = reader[c].active
      BY <1>1, <2>1, <3>1 DEF ReaderStates
    <3> QED
      BY <1>1, <1>3, <2>1, <3>2 DEF Unchanging
  <2>3. CASE reader[c].next \notin accepted
    <3> DEFINE more == IF reader[c].next \in journals THEN 1 ELSE 0
    <3>1. reader'[c] = [reader[c] EXCEPT !.next = reader[c].next + 1, !.active = reader[c].active + more]
      BY <1>1, <1>5, <2>3 DEF ReadBatch
    <3> HIDE DEF more
    <3>2. /\ reader'[c].records = reader[c].records /\ reader'[c].next = reader[c].next + 1
          /\ reader'[c].accepted = reader[c].accepted /\ reader'[c].pc = "walking"
          /\ reader'[c].active = reader[c].active + more
      BY <1>1, <2>1, <3>1 DEF ReaderStates
    <3>3. more \in Nat /\ (reader[c].next \in journals => more > 0)
      BY DEF more
    <3>4. \A b \in journals : b < reader'[c].next => b \in reader'[c].accepted \/ reader'[c].active > 0
      BY <1>3, <2>1, <3>2, <3>3 DEF Unchanging
    <3> QED
      BY <1>1, <2>1, <3>2, <3>4 DEF Unchanging
  <2> QED
    BY <2>2, <2>3
<1>6. ASSUME reader[c].pc # "idle", reader[c].pc # "walking" \/ reader[c].next > reader[c].records,
             reader'[c].records = reader[c].records, reader'[c].next = reader[c].next,
             reader'[c].accepted = reader[c].accepted, reader'[c].active = reader[c].active
      PROVE Unchanging(c)'
  BY <1>1, <1>2, <1>6 DEF Unchanging
<1>7. CASE FinishWalk(c)
  <2>1. reader'[c] = [reader[c] EXCEPT !.pc = "results"]
    BY <1>1, <1>7 DEF FinishWalk, ReaderIdle
  <2>2. /\ reader'[c].records = reader[c].records /\ reader'[c].next = reader[c].next
        /\ reader'[c].accepted = reader[c].accepted /\ reader'[c].active = reader[c].active
    BY <1>1, <2>1 DEF ReaderStates
  <2> QED
    BY <1>6, <1>7, <2>2 DEF FinishWalk
<1>8. CASE ReadResults(c)
  <2>1. reader'[c] = [reader[c] EXCEPT !.pc = "latest",
                        !.pending = Cardinality(Events(reader[c].accepted) \ DOMAIN results)]
    BY <1>1, <1>8 DEF ReadResults, ReaderIdle
  <2>2. /\ reader'[c].records = reader[c].records /\ reader'[c].next = reader[c].next
        /\ reader'[c].accepted = reader[c].accepted /\ reader'[c].active = reader[c].active
    BY <1>1, <2>1 DEF ReaderStates
  <2> QED
    BY <1>6, <1>8, <2>2 DEF ReadResults
<1>9. CASE ReadLatest(c)
  <2>1. reader'[c] = [reader[c] EXCEPT !.pc = "check"]
    BY <1>1, <1>9 DEF ReadLatest
  <2>2. /\ reader'[c].records = reader[c].records /\ reader'[c].next = reader[c].next
        /\ reader'[c].accepted = reader[c].accepted /\ reader'[c].active = reader[c].active
    BY <1>1, <2>1 DEF ReaderStates
  <2> QED
    BY <1>6, <1>9, <2>2 DEF ReadLatest
<1>10. CASE FinishReconcile(c)
  BY <1>1, <1>10 DEF FinishReconcile, ReaderIdle
<1> QED
  BY <1>4, <1>5, <1>7, <1>8, <1>9, <1>10 DEF Read

LEMMA NextCapacity ==
  ASSUME OneController, TypeOK, DiscoveryInv, DeliveryInv, ReaderInv, WithinCapacity, [Next]_vars
  PROVE WithinCapacity'
<1> SUFFICES ASSUME early' = 0 PROVE CapacityInv'
  BY DEF WithinCapacity
<1>0. early = 0 /\ CapacityInv
  BY NothingLost DEF WithinCapacity
<1>1. CASE \E b \in Batches : Accept(b)
  BY <1>0, <1>1, AcceptCapacity
<1>2. CASE \E c \in Controllers : PublishBatch(c) \/ KillPublication(c)
  BY <1>0, <1>2, PublicationCapacity
<1>3. CASE ~(\E b \in Batches : Accept(b)) /\ ~(\E c \in Controllers : PublishBatch(c) \/ KillPublication(c))
  <2>1. UNCHANGED <<accepted, journals, publisher>>
    BY <1>3 DEF Next, CommitVersion, Discover, StartDiscovery, CreateArtifact, WriteArtifact, ReuseArtifact,
         KillDiscovery, Read, ReadRecords, ReadBatch, FinishWalk, ReadResults, ReadLatest, FinishReconcile,
         Process, Resolve, ReadExisting, Evaluate, FinishTick, KillWorker, vars, deliveryVars
  <2>2. AcceptedBounded' /\ \A b \in Batches : Admitted(b) => Admitted(b)'
    BY <1>0, <2>1, NothingLost, AdmittedStays DEF CapacityInv
  <2>3. ASSUME NEW c \in Controllers, reader'[c].pc # "idle" PROVE Unchanging(c)'
    <3>1. CASE Read(c)
      BY <1>0, <2>3, <3>1, ReadingCapacity
    <3>2. CASE ~Read(c)
      <4>1. reader'[c] = reader[c]
        BY <2>3, <3>2, ReaderLeft DEF ReaderIdle, Readers
      <4> QED
        BY <1>0, <2>1, <2>3, <4>1 DEF CapacityInv, Unchanging
    <3> QED
      BY <3>1, <3>2
  <2>4. \A b \in journals' \ accepted' : Admitted(b)'
    BY <1>0, <2>1, <2>2 DEF CapacityInv, TypeOK
  <2>5. \A c \in Controllers : publisher'[c].pc # "idle" => publisher'[c].batch \in accepted' \/ (publisher'[c].batch \in Batches /\ Admitted(publisher[c].batch)')
    BY <1>0, <2>1, <2>2 DEF CapacityInv, DeliveryInv
  <2> QED
    BY <2>1, <2>2, <2>3, <2>4, <2>5 DEF CapacityInv, Admitted
<1> QED
  BY <1>1, <1>2, <1>3

-----------------------------------------------------------------------------
(* The invariants, and what follows from them.                             *)

LEMMA InitInv == Init => StreamInv /\ CapacityInv
<1> SUFFICES ASSUME Init PROVE StreamInv /\ CapacityInv
  OBVIOUS
<1>1. TypeOK
  BY InitType
<1>2. DiscoveryInv
  BY DEF Init, DiscoveryInv, RecordsComplete, DiscIdle
<1>3. /\ journals = {} /\ acked = {} /\ accepted = {} /\ DOMAIN results = {}
      /\ \A c \in Controllers : publisher[c].pc = "idle"
      /\ \A r \in Readers : reader[r].pc = "idle"
      /\ \A w \in Workers : worker[w].pc = "idle"
  BY DEF Init, PublisherIdle, ReaderIdle, WorkerIdle
<1>4. DeliveryInv /\ ReaderInv
  BY <1>3 DEF DeliveryInv, ReaderInv
<1>5. InferenceInv
  BY <1>3 DEF InferenceInv, WorkerInv, ResultsInOrder, ResultsPrefix, OneWindow
<1>6. CapacityInv
  <2>1. Pending = {}
    BY <1>3 DEF Pending, Events
  <2>2. Cardinality(Pending) = 0
    BY <2>1, FS_EmptySet
  <2>3. AcceptedBounded
    BY <2>2, StreamAssumption DEF AcceptedBounded
  <2> QED
    BY <1>3, <2>3 DEF CapacityInv, Readers
<1> QED
  BY <1>1, <1>2, <1>4, <1>5, <1>6 DEF StreamInv

LEMMA NextInv == StreamInv /\ [Next]_vars => StreamInv'
BY NextType, NextDiscovery, NextDelivery, NextReader, NextInference DEF StreamInv

\* The inductive invariant of the stream's commands: what each holds at hand.
\* Batches are acknowledged and accepted in turn though journals are not always
\* opened in turn.
THEOREM StreamInvariant == Spec => []StreamInv
<1> QED
  BY InitInv, NextInv, PTL DEF Spec

\* A discovery record is a promise about its version and all earlier ones,
\* whatever discover commands race or die (discover_next, _resume_batch).
THEOREM RecordsCompleteHolds == Spec => []RecordsComplete
<1>1. StreamInv => RecordsComplete
  BY DEF StreamInv, DiscoveryInv
<1> QED
  BY <1>1, StreamInvariant, PTL

\* Results are a prefix of the accepted queue, of one window, whatever workers
\* race, fail or are killed (resolved_work, process_tick).
THEOREM ResultsInOrderHolds == Spec => []ResultsInOrder
<1>1. StreamInv => ResultsInOrder
  BY DEF StreamInv, InferenceInv
<1> QED
  BY <1>1, StreamInvariant, PTL

\* The state stays well formed and, when one controller authorizes publications
\* and no accept came before its batch was published, within the capacity for
\* accepted, unscored rows (authorize_publication).
THEOREM BacklogBoundedHolds == OneController => (Spec => []BacklogBounded)
<1> SUFFICES ASSUME OneController PROVE Spec => []BacklogBounded
  OBVIOUS
<1>1. StreamInv /\ WithinCapacity /\ [Next]_vars => (StreamInv /\ WithinCapacity)'
  BY NextInv, NextCapacity DEF StreamInv
<1>2. StreamInv /\ WithinCapacity => BacklogBounded
  BY DEF StreamInv, CapacityInv, WithinCapacity, BacklogBounded
<1>3. Init => StreamInv /\ WithinCapacity
  BY InitInv DEF WithinCapacity
<1> QED
  BY <1>1, <1>2, <1>3, PTL DEF Spec

\* No step replaces or removes a durable result (claim_result).
THEOREM ResultsStableHolds == Spec => ResultsStable
<1>1. StreamInv /\ [Next]_vars => [\A e \in DOMAIN results : e \in DOMAIN results' /\ results'[e] = results[e]]_vars
  BY NothingLost DEF StreamInv
<1> QED
  BY <1>1, StreamInvariant, PTL DEF Spec, ResultsStable

-----------------------------------------------------------------------------
(* Reports.                                                                *)

\* Nothing of the versions that r has read is left to accept.
LEMMA NoBacklog ==
  ASSUME TypeOK, NEW r \in Readers, Backlog(r) = 0
  PROVE \A v \in Batches : v <= reader[r].records => v \in reader[r].accepted
<1> DEFINE S == {v \in Batches : v <= reader[r].records} \ reader[r].accepted
<1>1. S \in SUBSET Versions /\ \A v \in S : Size[v] \in Nat /\ Size[v] > 0
  BY StreamConstants
<1>2. Backlog(r) = Cardinality(Events(S))
  BY DEF Backlog
<1> HIDE DEF S
<1>3. Events(S) = {}
  BY <1>1, <1>2, EventsFinite, FS_EmptySet
<1>4. \A v \in S : <<v, 1>> \in Events(S)
  BY <1>1, EventsIn
<1>5. S = {}
  BY <1>3, <1>4
<1> QED
  BY <1>5 DEF S

LEMMA BacklogCounted ==
  ASSUME NEW r \in Readers
  PROVE Backlog(r) \in Nat
<1> DEFINE S == {v \in Batches : v <= reader[r].records} \ reader[r].accepted
<1>1. S \in SUBSET Versions /\ Backlog(r) = Cardinality(Events(S))
  BY StreamConstants DEF Backlog
<1> HIDE DEF S
<1> QED
  BY <1>1, EventsFinite, FS_CardinalityType

\* The reports are those of the last read of inspect and of a reconciliation.
LEMMA WhoReports ==
  ASSUME StreamInv, NEW r \in Readers, [Next]_vars, reader[r].pc # "idle", reader'[r].report # "none"
  PROVE \/ ReadLatest(r) /\ reader'[r] = [ReaderIdle EXCEPT !.report = StateOf(r)]
        \/ FinishReconcile(r) /\ Complete(r) /\ reader'[r].report = "RECONCILED"
<1>1. reader[r].report = "none" /\ ReaderIdle.report = "none"
  BY DEF StreamInv, ReaderInv, ReadStill, ReaderIdle
<1>2. Read(r)
  BY <1>1, ReaderLeft DEF StreamInv
<1>3. reader'[r].pc = "idle" /\ r \in DOMAIN reader /\ reader[r] \in ReaderStates
  BY <1>2, MovingReader DEF StreamInv, ReadStill, TypeOK
<1>4. ASSUME NEW reconcile \in BOOLEAN, ReadRecords(r, reconcile) PROVE FALSE
  BY <1>3, <1>4 DEF ReadRecords
<1>5. ~ReadBatch(r)
  <2> SUFFICES ASSUME ReadBatch(r) PROVE FALSE
    OBVIOUS
  <2> DEFINE taken == [reader[r] EXCEPT !.next = reader[r].next + 1,
                                        !.accepted = reader[r].accepted \cup {reader[r].next}]
             passed == [reader[r] EXCEPT !.next = reader[r].next + 1,
                          !.active = reader[r].active + (IF reader[r].next \in journals THEN 1 ELSE 0)]
  <2>1. reader'[r] \in {ReaderIdle, taken, passed}
    BY <1>3 DEF ReadBatch
  <2>2. taken.report = "none" /\ passed.report = "none"
    BY <1>1, <1>3 DEF ReaderStates
  <2> QED
    BY <1>1, <2>1, <2>2
<1>6. ~FinishWalk(r)
  <2>1. [reader[r] EXCEPT !.pc = "results"].report = "none"
    BY <1>1, <1>3 DEF ReaderStates
  <2> QED
    BY <1>1, <1>3, <2>1 DEF FinishWalk
<1>7. ~ReadResults(r)
  <2> DEFINE pending == Cardinality(Events(reader[r].accepted) \ DOMAIN results)
  <2>1. [reader[r] EXCEPT !.pc = "latest", !.pending = pending].report = "none"
    BY <1>1, <1>3 DEF ReaderStates
  <2> QED
    BY <1>1, <1>3, <2>1 DEF ReadResults
<1>8. ASSUME ReadLatest(r) PROVE reader'[r] = [ReaderIdle EXCEPT !.report = StateOf(r)]
  <2>1. [reader[r] EXCEPT !.pc = "check"].report = "none"
    BY <1>1, <1>3 DEF ReaderStates
  <2>2. \A n, l : [ReaderIdle EXCEPT !.pc = "walking", !.reconcile = TRUE, !.pass = 2,
                                     !.records = n, !.latest = l].report = "none"
    BY DEF ReaderIdle
  <2> QED
    BY <1>1, <1>3, <1>8, <2>1, <2>2 DEF ReadLatest
<1>9. ASSUME FinishReconcile(r) PROVE Complete(r) /\ reader'[r].report = "RECONCILED"
  BY <1>1, <1>3, <1>9 DEF FinishReconcile, ReaderIdle
<1> QED
  BY <1>2, <1>4, <1>5, <1>6, <1>7, <1>8, <1>9 DEF Read

\* What a reader reports of its records is so of the versions up to any of them.
LEMMA AllDoneUpTo ==
  ASSUME TypeOK, NEW r \in Readers, NEW last \in Nat, last <= reader[r].records, reader[r].accepted \subseteq accepted,
         Backlog(r) = 0, Events(reader[r].accepted) \subseteq DOMAIN results
  PROVE AllDone(last)
<1>1. reader[r].records \in Nat
  BY StreamConstants DEF TypeOK, ReaderStates
<1>2. \A v \in Batches : v <= last => v \in reader[r].accepted
  BY <1>1, NoBacklog, StreamConstants
<1>3. Events({v \in Batches : v <= last}) \subseteq Events(reader[r].accepted)
  BY <1>2, EventsGrow
<1> QED
  BY <1>2, <1>3 DEF AllDone

LEMMA IdleStep ==
  ASSUME StreamInv, NEW r \in Readers, [Next]_vars, reader[r].pc # "idle", reader'[r].report = "IDLE"
  PROVE Recorded = latest /\ AllDone(latest)
<1>1. ReadLatest(r) /\ reader'[r] = [ReaderIdle EXCEPT !.report = StateOf(r)]
  BY WhoReports
<1>2. StateOf(r) = "IDLE"
  BY <1>1 DEF ReaderIdle
<1>3. TypeOK /\ ReadStill(r) /\ reader[r] \in ReaderStates /\ reader[r].pc = "latest"
  BY <1>1 DEF StreamInv, ReaderInv, ReadLatest, TypeOK
<1>4. reader[r].pending \in Nat /\ reader[r].records \in Nat /\ latest \in Nat /\ Backlog(r) \in Nat
  BY <1>3, BacklogCounted, StreamConstants DEF ReaderStates, TypeOK
<1>5. latest <= reader[r].records /\ Backlog(r) = 0 /\ reader[r].pending = 0
  BY <1>2, <1>4 DEF StateOf
<1>6. Recorded \in 0..Len(Size) /\ \A v \in Versions : <<"record", v>> \in written <=> v <= Recorded
  BY RecordedPrefix DEF StreamInv, DiscoveryInv
<1>7. Recorded <= latest
  <2>1. CASE Recorded = 0
    BY <1>4, <2>1
  <2>2. CASE Recorded # 0
    <3>1. Recorded \in Versions
      BY <1>6, <2>2, StreamConstants
    <3>2. <<"record", Recorded>> \in written
      BY <1>6, <3>1, StreamConstants
    <3>3. \A v \in Versions : <<"record", v>> \in written => v <= latest
      BY DEF StreamInv, DiscoveryInv
    <3> QED
      BY <3>1, <3>2, <3>3
  <2> QED
    BY <2>1, <2>2
<1>8. Events(reader[r].accepted) \subseteq DOMAIN results
  <2>1. reader[r].accepted \in SUBSET Versions
    BY <1>3, StreamConstants DEF ReaderStates
  <2>2. IsFiniteSet(Events(reader[r].accepted) \ DOMAIN results)
    BY <2>1, EventsFinite, FS_Difference
  <2>3. Cardinality(Events(reader[r].accepted) \ DOMAIN results) = 0
    BY <1>3, <1>5, <2>2, FS_CardinalityType DEF ReadStill
  <2> QED
    BY <2>2, <2>3, FS_EmptySet
<1>9. AllDone(latest)
  BY <1>3, <1>4, <1>5, <1>8, AllDoneUpTo DEF ReadStill
<1>10. Recorded \in Nat /\ reader[r].records <= Recorded
  BY <1>3, <1>6, StreamConstants DEF ReadStill
<1> QED
  BY <1>4, <1>5, <1>7, <1>9, <1>10

LEMMA ReconciledStep ==
  ASSUME StreamInv, NEW r \in Readers, [Next]_vars, reader[r].pc # "idle", reader'[r].report = "RECONCILED"
  PROVE AllDone(reader[r].latest) /\ \A e \in DOMAIN results : results[e].status \notin Failed
<1>1. StateOf(r) # "RECONCILED" /\ [ReaderIdle EXCEPT !.report = StateOf(r)].report = StateOf(r)
  BY DEF StateOf, ReaderIdle
<1>2. FinishReconcile(r) /\ Complete(r)
  BY <1>1, WhoReports
<1>3. TypeOK /\ ReadStill(r) /\ reader[r].pass = 2 /\ reader[r].latest \in Nat
  BY <1>2, StreamConstants DEF StreamInv, ReaderInv, FinishReconcile, TypeOK, ReaderStates
<1>4. AllDone(reader[r].latest)
  BY <1>2, <1>3, AllDoneUpTo DEF ReadStill, Complete
<1> QED
  BY <1>2, <1>4 DEF Complete

\* IDLE, and a successful reconciliation, are true when they are reported, for
\* any number of controllers (progress, reconcile).
THEOREM ReportsTrueHolds == Spec => ReportsTrue
<1>1. StreamInv /\ [Next]_vars =>
        [\A r \in Inspectors : reader[r].pc # "idle" /\ reader'[r].report = "IDLE" =>
           Recorded = latest /\ AllDone(latest)]_vars
  BY IdleStep DEF Readers
<1>2. StreamInv /\ [Next]_vars =>
        [\A r \in Inspectors : reader[r].pc # "idle" /\ reader'[r].report = "RECONCILED" =>
           /\ AllDone(reader[r].latest)
           /\ \A e \in DOMAIN results : results[e].status \notin Failed]_vars
  BY ReconciledStep DEF Readers
<1>3. Spec => IdleIsTrue
  BY <1>1, StreamInvariant, PTL DEF Spec, IdleIsTrue
<1>4. Spec => ReconciledIsTrue
  BY <1>2, StreamInvariant, PTL DEF Spec, ReconciledIsTrue
<1> QED
  BY <1>3, <1>4 DEF ReportsTrue
=============================================================================
