------------------------ MODULE FeatureReadyTransport ------------------------
(***************************************************************************)
(* The operational feature-ready lineage: prepared batches are published   *)
(* to the Kafka topic features.ready behind an acknowledgement journal,    *)
(* received behind durable receipts that precede the offset commit, and    *)
(* sealed one after another as exact per-partition offset ranges.          *)
(*                                                                         *)
(* A file claimed by FeatureReadyFiles is an element of a set of records   *)
(* (acks, receipts, observed, tries, sealed): claims only add, never       *)
(* replace.  A process is a program counter with the local values it       *)
(* carries from one durable step to the next; killing it forgets them.     *)
(* The operator runs publish behind authorize-publish, but may run accept  *)
(* for any batch at any time.                                              *)
(*                                                                         *)
(* Offsets count from 0 as Kafka's do: the record at offset o of partition *)
(* p is log[p][o + 1], and Len(log[p]) is the end offset.                  *)
(***************************************************************************)
EXTENDS Integers, Sequences, FiniteSets

CONSTANTS
  Partitions,    \* partitions of features.ready (three in the code)
  Ids,           \* ready-event ids of the prepared outboxes
  Foreign,       \* a record of another lineage on the shared topic
  NBatches,      \* batches, numbered in the order of their Delta versions
  Records,       \* Records[b]: the ids of batch b in publication order
  PartitionOf,   \* Kafka's partitioner: the key is the ready-event id
  Publishers,    \* publish processes an operator may have running
  Bounds,        \* values passed as --maximum and --maximum-deliveries
  MaxFailures,   \* bound: kills and sends without a known outcome
  MaxReplays,    \* bound: publications with --replay-acknowledged
  MaxForeign,    \* bound: records of other lineages
  MaxExpiry,     \* bound: retention steps of the broker
  HardKills,     \* may a kill land inside FeatureReadyFiles.claim?
  LateLanding    \* may a send of a dead publisher reach the log later?

Batches == 1..NBatches
Offsets == [Partitions -> Nat]
Copies == [id : Ids, part : Partitions, off : Nat]
Folders == {"attempts", "acks", "receipts"}

ASSUME TransportAssumption ==
  /\ NBatches \in Nat \ {0}
  /\ Partitions # {}
  /\ Foreign \notin Ids
  /\ Records \in [Batches -> Seq(Ids)]
  /\ \A b \in Batches : Records[b] # <<>>
  /\ PartitionOf \in [Ids -> Partitions]
  /\ Bounds \subseteq Nat \ {0}
  /\ MaxFailures \in Nat /\ MaxReplays \in Nat
  /\ MaxForeign \in Nat /\ MaxExpiry \in Nat
  /\ HardKills \in BOOLEAN /\ LateLanding \in BOOLEAN

IdsOf(b) == {Records[b][k] : k \in DOMAIN Records[b]}

\* No id belongs to two batches, and none occurs twice in one.
ASSUME BatchesDisjoint ==
  \A b, c \in Batches : \A j \in DOMAIN Records[b], k \in DOMAIN Records[c] :
     Records[b][j] = Records[c][k] => b = c /\ j = k

NoOffset == -1     \* the group has no committed offset for the partition

VARIABLES
  log,         \* the broker: one append-only sequence per partition
  beginning,   \* first retained offset of each partition
  limbo,       \* ids sent by a dead publisher, not (or not yet) in the log
  committed,   \* committed next offset of the operational group
  fence,       \* set holding the claimed starting fence, or empty
  journals,    \* batches with a publication journal directory
  acks,        \* acknowledgement files
  damaged,     \* <<folder, batch>> with a leftover its inspection rejects
  receipts,    \* receipt files, with the first coordinate of the id
  observed,    \* observation files, one per physical record received
  tries,       \* delivery-attempt files: <<id, flagged duplicate>>
  sealed,      \* acceptance files: [batch, start, end]
  pubPc, pubBatch, pubQueue, pubReplay, pubAt,     \* publish processes
  accPc, accBatch, accStart, accEnd, accNext,      \* the accept process
  accPart, accLeft, accFresh,
  failures, replays, foreigns, expiries            \* use of the bounds

brokerVars == <<log, beginning, limbo, committed>>
journalVars == <<journals, acks>>
storeVars == <<receipts, observed, tries>>
pubVars == <<pubPc, pubBatch, pubQueue, pubReplay, pubAt>>
accVars == <<accPc, accBatch, accStart, accEnd, accNext, accPart, accLeft, accFresh>>
boundVars == <<failures, replays, foreigns, expiries>>
vars == <<brokerVars, fence, journalVars, damaged, storeVars, sealed,
          pubVars, accVars, boundVars>>

PubStates == {"idle", "authorized", "opening", "sending", "acked", "noted"}
AccStates == {"idle", "fencing", "polling", "received", "observing", "committing"}

Zero == [p \in Partitions |-> 0]
NoPart == CHOOSE p \in Partitions : TRUE

TypeOK ==
  /\ log \in [Partitions -> Seq(Ids \cup {Foreign})]
  /\ beginning \in Offsets
  /\ limbo \subseteq Ids
  /\ committed \in [Partitions -> Nat \cup {NoOffset}]
  /\ fence \subseteq Offsets
  /\ journals \subseteq Batches
  /\ acks \subseteq Copies
  /\ damaged \subseteq Folders \X Batches
  /\ receipts \subseteq Copies
  /\ observed \subseteq Copies
  /\ tries \subseteq Ids \X BOOLEAN
  /\ sealed \subseteq [batch : Batches, start : Offsets, end : Offsets]
  /\ pubPc \in [Publishers -> PubStates]
  /\ pubBatch \in [Publishers -> Batches]
  /\ pubQueue \in [Publishers -> SUBSET Ids]
  /\ pubReplay \in [Publishers -> BOOLEAN]
  /\ pubAt \in [Publishers -> SUBSET Copies]
  /\ accPc \in AccStates
  /\ accBatch \in Batches
  /\ accStart \in Offsets /\ accEnd \in Offsets /\ accNext \in Offsets
  /\ accPart \in Partitions
  /\ accLeft \in Nat
  /\ accFresh \in BOOLEAN
  /\ failures \in Nat /\ replays \in Nat /\ foreigns \in Nat /\ expiries \in Nat

-----------------------------------------------------------------------------
(* What the files say. *)

Acknowledged(b) == {a.id : a \in {x \in acks : x.id \in IdsOf(b)}}
ReceiptIds(b) == {r.id : r \in {x \in receipts : x.id \in IdsOf(b)}}
ObservedOf(b) == {x \in observed : x.id \in IdsOf(b)}
Accepted(b) == \E s \in sealed : s.batch = b
Sound(folder, b) == <<folder, b>> \notin damaged

\* Journal.start inspects every attempt: a directory that another process is
\* still creating looks as incomplete as one a dead process left behind.
AttemptsSound(b) ==
  /\ Sound("attempts", b)
  /\ \A q \in Publishers : ~(pubPc[q] = "opening" /\ pubBatch[q] = b)

\* The receipt store refuses to open, and to report, over a leftover.
StoreSound(b) == Sound("receipts", b)

\* What a --preceding-boundary may name: the fence or any acceptance file.
Boundaries == fence \cup {s.end : s \in sealed}

\* The physical coordinates between two boundaries.
Between(start, end) ==
  UNION {{<<p, o>> : o \in start[p]..(end[p] - 1)} : p \in Partitions}

EndOffsets == [p \in Partitions |-> Len(log[p])]

\* Mutation: the evidence is complete, but its coordinates are not compared.
VerifyEvidenceIdsOnly(b, start, end) ==
  /\ ReceiptIds(b) = IdsOf(b)
  /\ Acknowledged(b) = IdsOf(b)
  /\ \A p \in Partitions : start[p] <= end[p]

\* Receipts, acknowledgements and observations cover exactly the range.
VerifyEvidence(b, start, end) ==
  /\ ReceiptIds(b) = IdsOf(b)
  /\ Acknowledged(b) = IdsOf(b)
  /\ {<<x.part, x.off>> : x \in ObservedOf(b)} = Between(start, end)
  /\ {x.id : x \in ObservedOf(b)} = IdsOf(b)
  /\ \A a \in acks : a.id \in IdsOf(b) => a \in observed

-----------------------------------------------------------------------------
Init ==
  /\ log = [p \in Partitions |-> <<>>]
  /\ beginning = Zero
  /\ limbo = {}
  /\ committed = [p \in Partitions |-> NoOffset]
  /\ fence = {}
  /\ journals = {} /\ acks = {} /\ damaged = {}
  /\ receipts = {} /\ observed = {} /\ tries = {}
  /\ sealed = {}
  /\ pubPc = [q \in Publishers |-> "idle"]
  /\ pubBatch = [q \in Publishers |-> 1]
  /\ pubQueue = [q \in Publishers |-> {}]
  /\ pubReplay = [q \in Publishers |-> FALSE]
  /\ pubAt = [q \in Publishers |-> {}]
  /\ accPc = "idle" /\ accBatch = 1
  /\ accStart = Zero /\ accEnd = Zero /\ accNext = Zero
  /\ accPart = NoPart /\ accLeft = 0 /\ accFresh = FALSE
  /\ failures = 0 /\ replays = 0 /\ foreigns = 0 /\ expiries = 0

Append1(p, record) == log' = [log EXCEPT ![p] = Append(@, record)]

-----------------------------------------------------------------------------
(* The starting fence of the group: claimed as a file, then committed. *)

Uncommitted == \A p \in Partitions : committed[p] = NoOffset

ClaimFence ==
  /\ fence = {} /\ Uncommitted
  /\ fence' = {EndOffsets}
  /\ UNCHANGED <<brokerVars, journalVars, damaged, storeVars, sealed,
                 pubVars, accVars, boundVars>>

\* Mutation: a later process commits the fence again.
CommitFenceAgain ==
  /\ fence # {}
  /\ \E f \in fence : committed' = f
  /\ UNCHANGED <<log, beginning, limbo, fence, journalVars, damaged, storeVars,
                 sealed, pubVars, accVars, boundVars>>

\* The same process, or a later one that finds the file, commits the end
\* offsets the file holds, whatever the log has become.
CommitFence ==
  /\ fence # {} /\ Uncommitted
  /\ \E f \in fence : committed' = f
  /\ UNCHANGED <<log, beginning, limbo, fence, journalVars, damaged, storeVars,
                 sealed, pubVars, accVars, boundVars>>

-----------------------------------------------------------------------------
(* The publisher. *)

\* The process ends and its local values are gone.
PubExit(q) ==
  /\ pubPc' = [pubPc EXCEPT ![q] = "idle"]
  /\ pubBatch' = [pubBatch EXCEPT ![q] = 1]
  /\ pubQueue' = [pubQueue EXCEPT ![q] = {}]
  /\ pubReplay' = [pubReplay EXCEPT ![q] = FALSE]
  /\ pubAt' = [pubAt EXCEPT ![q] = {}]

\* Mutation: any batch that is not accepted may be published.
AnyUnaccepted(b) == ~Accepted(b)

EarliestUnaccepted(b) == ~Accepted(b) /\ \A c \in 1..(b - 1) : Accepted(c)

\* A batch is active, for the progress of the stream, if it has a journal and
\* no acceptance.
Active == {c \in journals : ~Accepted(c)}

\* authorize-publish admits the earliest unaccepted batch, and only if no other
\* batch is active; two active batches are an error of every command.  It runs
\* once the make recipe that initializes the group has returned.
Authorize(q, b) ==
  /\ pubPc[q] = "idle"
  /\ ~Uncommitted
  /\ EarliestUnaccepted(b)
  /\ Active \subseteq {b}
  /\ pubPc' = [pubPc EXCEPT ![q] = "authorized"]
  /\ pubBatch' = [pubBatch EXCEPT ![q] = b]
  /\ UNCHANGED <<brokerVars, fence, journalVars, damaged, storeVars, sealed,
                 pubQueue, pubReplay, pubAt, accVars, boundVars>>

\* Records are published in the order of the batch file.
Before(b, i, j) ==
  \E m, n \in DOMAIN Records[b] : m < n /\ Records[b][m] = i /\ Records[b][n] = j

FirstFew(b, S, m) == {i \in S : Cardinality({j \in S : Before(b, j, i)}) < m}

NextToSend(q) == {i \in pubQueue[q] : ~\E j \in pubQueue[q] : Before(pubBatch[q], j, i)}

\* The publish command opens the journal, reads the durable acknowledgements
\* once, and creates the directories of a new attempt.
OpenAttempt(q, replay, maximum) ==
  LET b == pubBatch[q]
      pending == {i \in IdsOf(b) : replay \/ i \notin Acknowledged(b)}
  IN /\ pubPc[q] = "authorized"
     /\ journals' = journals \cup {b}
     /\ replay => replays < MaxReplays
     /\ IF Sound("acks", b) /\ AttemptsSound(b)
        THEN /\ pubPc' = [pubPc EXCEPT ![q] = "opening"]
             /\ pubQueue' = [pubQueue EXCEPT ![q] = FirstFew(b, pending, maximum)]
             /\ pubReplay' = [pubReplay EXCEPT ![q] = replay]
             /\ replays' = IF replay THEN replays + 1 ELSE replays
             /\ UNCHANGED <<pubBatch, pubAt>>
        ELSE PubExit(q) /\ UNCHANGED replays
     /\ UNCHANGED <<brokerVars, fence, acks, damaged, storeVars, sealed, accVars,
                    failures, foreigns, expiries>>

\* start.json completes the structure of the attempt.
StartAttempt(q) ==
  /\ pubPc[q] = "opening"
  /\ pubPc' = [pubPc EXCEPT ![q] = "sending"]
  /\ UNCHANGED <<brokerVars, fence, journalVars, damaged, storeVars, sealed,
                 pubBatch, pubQueue, pubReplay, pubAt, accVars, boundVars>>

\* Mutation: the journal gets the next offset instead of the record's own.
SendOffByOne(q) ==
  /\ pubPc[q] = "sending"
  /\ \E id \in NextToSend(q) :
       LET p == PartitionOf[id] IN
       /\ Append1(p, id)
       /\ pubAt' = [pubAt EXCEPT ![q] = {[id |-> id, part |-> p, off |-> Len(log[p]) + 1]}]
  /\ pubPc' = [pubPc EXCEPT ![q] = "acked"]
  /\ UNCHANGED <<beginning, limbo, committed, fence, journalVars, damaged,
                 storeVars, sealed, pubBatch, pubQueue, pubReplay, accVars,
                 boundVars>>

\* The send whose broker acknowledgement arrives.
Send(q) ==
  /\ pubPc[q] = "sending"
  /\ \E id \in NextToSend(q) :
       LET p == PartitionOf[id] IN
       /\ Append1(p, id)
       /\ pubAt' = [pubAt EXCEPT ![q] = {[id |-> id, part |-> p, off |-> Len(log[p])]}]
  /\ pubPc' = [pubPc EXCEPT ![q] = "acked"]
  /\ UNCHANGED <<beginning, limbo, committed, fence, journalVars, damaged,
                 storeVars, sealed, pubBatch, pubQueue, pubReplay, accVars,
                 boundVars>>

\* A send that times out, or whose process dies before the acknowledgement:
\* the record is in the log, on its way, or lost.
SendUncertain(q) ==
  /\ pubPc[q] = "sending"
  /\ failures < MaxFailures
  /\ failures' = failures + 1
  /\ \E id \in NextToSend(q) :
       \/ Append1(PartitionOf[id], id) /\ UNCHANGED limbo
       \/ LateLanding /\ limbo' = limbo \cup {id} /\ UNCHANGED log
       \/ UNCHANGED <<log, limbo>>
  /\ PubExit(q)
  /\ UNCHANGED <<beginning, committed, fence, journalVars, damaged, storeVars,
                 sealed, accVars, replays, foreigns, expiries>>

\* Journal.record, first file: the delivery of this attempt.
NoteDelivery(q) ==
  /\ pubPc[q] = "acked"
  /\ pubPc' = [pubPc EXCEPT ![q] = "noted"]
  /\ UNCHANGED <<brokerVars, fence, journalVars, damaged, storeVars, sealed,
                 pubBatch, pubQueue, pubReplay, pubAt, accVars, boundVars>>

\* Journal.record, second file: the acknowledgement, exclusive per id and
\* never written by a replay.  Another process's acknowledgement conflicts.
AckConflict(q) == \E a \in acks, c \in pubAt[q] : a.id = c.id

RecordAck(q) ==
  /\ pubPc[q] = "noted"
  /\ IF ~pubReplay[q] /\ AckConflict(q)
     THEN PubExit(q) /\ UNCHANGED acks
     ELSE /\ acks' = IF pubReplay[q] THEN acks ELSE acks \cup pubAt[q]
          /\ pubQueue' = [pubQueue EXCEPT ![q] = @ \ {c.id : c \in pubAt[q]}]
          /\ pubAt' = [pubAt EXCEPT ![q] = {}]
          /\ pubPc' = [pubPc EXCEPT ![q] = "sending"]
          /\ UNCHANGED <<pubBatch, pubReplay>>
  /\ UNCHANGED <<brokerVars, fence, journals, damaged, storeVars, sealed,
                 accVars, boundVars>>

\* complete.json ends the attempt.
CompleteAttempt(q) ==
  /\ pubPc[q] = "sending" /\ pubQueue[q] = {}
  /\ PubExit(q)
  /\ UNCHANGED <<brokerVars, fence, journalVars, damaged, storeVars, sealed,
                 accVars, boundVars>>

\* A publisher is killed between two durable steps.  Directories of an attempt
\* without their start.json stay for every later inspection to reject.
KillPublisher(q) ==
  /\ pubPc[q] # "idle" /\ failures < MaxFailures
  /\ failures' = failures + 1
  /\ HardKills \/ pubPc[q] # "opening"
  /\ damaged' = IF pubPc[q] = "opening"
                THEN damaged \cup {<<"attempts", pubBatch[q]>>} ELSE damaged
  /\ PubExit(q)
  /\ UNCHANGED <<brokerVars, fence, journalVars, storeVars, sealed, accVars,
                 replays, foreigns, expiries>>

\* ... or inside a claim, after its temporary .pending-*.json was created: the
\* leftover stays in the listed directory, with or without the link made.
KillInClaim(q) ==
  /\ HardKills /\ failures < MaxFailures
  /\ failures' = failures + 1
  /\ \/ /\ pubPc[q] = "acked" \/ (pubPc[q] = "sending" /\ pubQueue[q] = {})
        /\ damaged' = damaged \cup {<<"attempts", pubBatch[q]>>}
        /\ UNCHANGED acks
     \/ /\ pubPc[q] = "noted" /\ ~pubReplay[q]
        /\ damaged' = damaged \cup {<<"acks", pubBatch[q]>>}
        /\ \/ UNCHANGED acks
           \/ ~AckConflict(q) /\ acks' = acks \cup pubAt[q]
  /\ PubExit(q)
  /\ UNCHANGED <<brokerVars, fence, journals, storeVars, sealed, accVars,
                 replays, foreigns, expiries>>

-----------------------------------------------------------------------------
(* The broker and the other users of the topic. *)

\* A send of a dead publisher reaches the log.
Land(id) ==
  /\ id \in limbo
  /\ Append1(PartitionOf[id], id)
  /\ limbo' = limbo \ {id}
  /\ UNCHANGED <<beginning, committed, fence, journalVars, damaged, storeVars,
                 sealed, pubVars, accVars, boundVars>>

\* Another lineage publishes to the topic.
AppendForeign(p) ==
  /\ foreigns < MaxForeign
  /\ foreigns' = foreigns + 1
  /\ Append1(p, Foreign)
  /\ UNCHANGED <<beginning, limbo, committed, fence, journalVars, damaged,
                 storeVars, sealed, pubVars, accVars, failures, replays, expiries>>

\* Retention deletes the oldest record of a partition.
Expire(p) ==
  /\ expiries < MaxExpiry
  /\ expiries' = expiries + 1
  /\ beginning[p] < Len(log[p])
  /\ beginning' = [beginning EXCEPT ![p] = @ + 1]
  /\ UNCHANGED <<log, limbo, committed, fence, journalVars, damaged, storeVars,
                 sealed, pubVars, accVars, failures, replays, foreigns>>

-----------------------------------------------------------------------------
(* The accept command: one member of the operational group. *)

AccExit ==
  /\ accPc' = "idle" /\ accBatch' = 1
  /\ accStart' = Zero /\ accEnd' = Zero /\ accNext' = Zero
  /\ accPart' = NoPart /\ accLeft' = 0 /\ accFresh' = FALSE

\* The batch is published and not accepted, and the range after the boundary
\* is still there.
Acceptable(b, start) ==
  /\ Sound("acks", b) /\ Acknowledged(b) = IdsOf(b)
  /\ StoreSound(b)
  /\ \A p \in Partitions : beginning[p] <= start[p]
  /\ ~Accepted(b)

\* accept-operational-batch, for any batch and after a boundary the operator
\* names.  It opens the journal, and so makes it, before it looks whether the
\* acknowledgements are complete: a command that goes no further leaves the
\* journal behind.
OpenAccept(b, start, maximum) ==
  /\ accPc = "idle"
  /\ start \in Boundaries
  /\ journals' = journals \cup {b}
  /\ IF Acceptable(b, start)
     THEN /\ accPc' = "fencing" /\ accBatch' = b
          /\ accStart' = start /\ accLeft' = maximum
          /\ UNCHANGED <<accEnd, accNext, accPart, accFresh>>
     ELSE UNCHANGED accVars
  /\ UNCHANGED <<brokerVars, fence, acks, damaged, storeVars, sealed, pubVars, boundVars>>

\* Mutation: the group must stand exactly at the boundary.
FenceAtBoundary ==
  /\ accPc = "fencing"
  /\ IF committed = accStart
     THEN /\ accPc' = "polling"
          /\ accNext' = committed /\ accEnd' = EndOffsets
          /\ UNCHANGED <<accBatch, accStart, accPart, accLeft, accFresh>>
     ELSE AccExit
  /\ UNCHANGED <<brokerVars, fence, journalVars, damaged, storeVars, sealed,
                 pubVars, boundVars>>

\* The consumer fences every partition at its end offset and takes up the
\* group's progress, which must lie in the retained range after the boundary.
Fence ==
  LET next == [p \in Partitions |->
                 IF committed[p] = NoOffset THEN beginning[p] ELSE committed[p]]
  IN /\ accPc = "fencing"
     /\ IF \A p \in Partitions : /\ beginning[p] <= next[p]
                                 /\ next[p] <= Len(log[p])
                                 /\ accStart[p] <= next[p]
        THEN /\ accPc' = "polling"
             /\ accNext' = next /\ accEnd' = EndOffsets
             /\ UNCHANGED <<accBatch, accStart, accPart, accLeft, accFresh>>
        ELSE AccExit
     /\ UNCHANGED <<brokerVars, fence, journalVars, damaged, storeVars, sealed,
                    pubVars, boundVars>>

NextId(p) == log[p][accNext[p] + 1]

CopyAt(p) == [id |-> NextId(p), part |-> p, off |-> accNext[p]]

HasReceipt(id) == \E r \in receipts : r.id = id

\* Mutation: the bound on examined records is not enforced.
ReceivableUnbounded(p) ==
  /\ beginning[p] <= accNext[p]
  /\ NextId(p) \in IdsOf(accBatch)

Receivable(p) ==
  /\ beginning[p] <= accNext[p]
  /\ accLeft > 0
  /\ NextId(p) \in IdsOf(accBatch)

\* Mutation: a record of another lineage is skipped and its offset committed.
ReceiveSkipping(p) ==
  /\ accPc = "polling" /\ accNext[p] < accEnd[p]
  /\ IF Receivable(p)
     THEN /\ receipts' = IF HasReceipt(NextId(p)) THEN receipts
                         ELSE receipts \cup {CopyAt(p)}
          /\ accFresh' = ~HasReceipt(NextId(p))
          /\ accPc' = "received" /\ accPart' = p
          /\ UNCHANGED <<accBatch, accStart, accEnd, accNext, accLeft, committed>>
     ELSE /\ accNext' = [accNext EXCEPT ![p] = @ + 1]
          /\ committed' = [committed EXCEPT ![p] = accNext[p] + 1]
          /\ UNCHANGED <<receipts, accPc, accBatch, accStart, accEnd, accPart,
                         accLeft, accFresh>>
  /\ UNCHANGED <<log, beginning, limbo, fence, journalVars, damaged, observed,
                 tries, sealed, pubVars, boundVars>>

\* The next record of a partition is polled, validated against the batch and
\* receipted unless the id has a receipt.  A deleted record (a hole), a record
\* of another batch or lineage, and an exhausted maximum end the command.
Receive(p) ==
  /\ accPc = "polling" /\ accNext[p] < accEnd[p]
  /\ IF Receivable(p)
     THEN /\ receipts' = IF HasReceipt(NextId(p)) THEN receipts
                         ELSE receipts \cup {CopyAt(p)}
          /\ accFresh' = ~HasReceipt(NextId(p))
          /\ accPc' = "received" /\ accPart' = p
          /\ UNCHANGED <<accBatch, accStart, accEnd, accNext, accLeft>>
     ELSE AccExit /\ UNCHANGED receipts
  /\ UNCHANGED <<brokerVars, fence, journalVars, damaged, observed, tries,
                 sealed, pubVars, boundVars>>

Current == CopyAt(accPart)

\* The physical coordinate becomes an observation file.
Observe ==
  /\ accPc = "received"
  /\ observed' = observed \cup {Current}
  /\ accPc' = "observing"
  /\ UNCHANGED <<brokerVars, fence, journalVars, damaged, receipts, tries, sealed,
                 pubVars, accBatch, accStart, accEnd, accNext, accPart, accLeft,
                 accFresh, boundVars>>

\* The delivery attempt says whether the id already had a receipt.
RecordTry ==
  /\ accPc = "observing"
  /\ tries' = tries \cup {<<Current.id, ~accFresh>>}
  /\ accPc' = "committing"
  /\ UNCHANGED <<brokerVars, fence, journalVars, damaged, receipts, observed,
                 sealed, pubVars, accBatch, accStart, accEnd, accNext, accPart,
                 accLeft, accFresh, boundVars>>

\* commitSync of the next offset of the partition.
Commit ==
  /\ accPc = "committing"
  /\ committed' = [committed EXCEPT ![accPart] = accNext[accPart] + 1]
  /\ accNext' = [accNext EXCEPT ![accPart] = @ + 1]
  /\ accLeft' = accLeft - 1
  /\ accPc' = "polling"
  /\ UNCHANGED <<log, beginning, limbo, fence, journalVars, damaged, storeVars,
                 sealed, pubVars, accBatch, accStart, accEnd, accPart, accFresh,
                 boundVars>>

\* Every partition is at its fence: the range is sealed if the evidence covers
\* it exactly, and the command ends.
Seal ==
  /\ accPc = "polling" /\ accNext = accEnd
  /\ sealed' = IF /\ StoreSound(accBatch) /\ Sound("acks", accBatch)
                  /\ VerifyEvidence(accBatch, accStart, accEnd)
               THEN sealed \cup {[batch |-> accBatch, start |-> accStart,
                                  end |-> accEnd]}
               ELSE sealed
  /\ AccExit
  /\ UNCHANGED <<brokerVars, fence, journalVars, damaged, storeVars, pubVars,
                 boundVars>>

\* The command is killed, or its commit fails, between two durable steps.
KillAcceptor ==
  /\ accPc # "idle" /\ failures < MaxFailures
  /\ failures' = failures + 1
  /\ AccExit
  /\ UNCHANGED <<brokerVars, fence, journalVars, damaged, storeVars, sealed,
                 pubVars, replays, foreigns, expiries>>

\* ... or inside the claim of a receipt, an observation or a delivery attempt.
KillInStoreClaim ==
  /\ HardKills /\ failures < MaxFailures
  /\ failures' = failures + 1
  /\ damaged' = damaged \cup {<<"receipts", accBatch>>}
  /\ \/ /\ accPc = "polling"
        /\ \E p \in Partitions :
             /\ accNext[p] < accEnd[p] /\ Receivable(p)
             /\ ~HasReceipt(NextId(p))
             /\ receipts' \in {receipts, receipts \cup {CopyAt(p)}}
        /\ UNCHANGED <<observed, tries>>
     \/ /\ accPc = "received"
        /\ observed' \in {observed, observed \cup {Current}}
        /\ UNCHANGED <<receipts, tries>>
     \/ accPc = "observing" /\ UNCHANGED <<receipts, observed, tries>>
  /\ AccExit
  /\ UNCHANGED <<brokerVars, fence, journalVars, sealed, pubVars, replays,
                 foreigns, expiries>>

-----------------------------------------------------------------------------
Publish(q) ==
  \/ \E b \in Batches : Authorize(q, b)
  \/ \E replay \in BOOLEAN, m \in Bounds : OpenAttempt(q, replay, m)
  \/ StartAttempt(q) \/ Send(q) \/ NoteDelivery(q) \/ RecordAck(q)
  \/ CompleteAttempt(q)

PublisherFails(q) == SendUncertain(q) \/ KillPublisher(q) \/ KillInClaim(q)

Accept ==
  \/ \E b \in Batches, start \in Boundaries, m \in Bounds : OpenAccept(b, start, m)
  \/ Fence \/ (\E p \in Partitions : Receive(p)) \/ Observe \/ RecordTry
  \/ Commit \/ Seal

Next ==
  \/ ClaimFence \/ CommitFence
  \/ \E q \in Publishers : Publish(q) \/ PublisherFails(q)
  \/ Accept \/ KillAcceptor \/ KillInStoreClaim
  \/ \E id \in Ids : Land(id)
  \/ \E p \in Partitions : AppendForeign(p) \/ Expire(p)

Spec == Init /\ [][Next]_vars

-----------------------------------------------------------------------------
(* What a crash, a duplicate or a second process must not break. *)

LogAt(p, o) == log[p][o + 1]

\* An acknowledgement file names a record the broker really holds at that
\* coordinate, whoever wrote it and however often the id was sent.
AckedOnBroker ==
  \A a \in acks : a.off < Len(log[a.part]) /\ LogAt(a.part, a.off) = a.id

\* Receipt before commit: no committed offset, beyond the starting fence, has a
\* record without its observation and without a receipt for its id.
CommittedIsObserved ==
  \A f \in fence, p \in Partitions : \A o \in f[p]..(committed[p] - 1) :
     /\ [id |-> LogAt(p, o), part |-> p, off |-> o] \in observed
     /\ HasReceipt(LogAt(p, o))

\* A sealed range holds each id of its batch, and no other record: nothing was
\* skipped, lost or taken from another lineage.
SealedExactly ==
  \A s \in sealed :
     {LogAt(c[1], c[2]) : c \in Between(s.start, s.end)} = IdsOf(s.batch)

\* Batches are sealed once each and in order, and each range begins where the
\* one before it ended, although the operator may name any boundary file.
SealedContiguous ==
  /\ \A s, t \in sealed : s.batch = t.batch => s = t
  /\ \A s \in sealed :
       IF s.batch = 1 THEN s.start \in fence
       ELSE \E t \in sealed : t.batch = s.batch - 1 /\ t.end = s.start

\* The evidence of an accepted batch stays valid: running accept again, and
\* the checks of every later tick, still verify it.
EvidenceStaysValid ==
  \A s \in sealed :
     /\ VerifyEvidence(s.batch, s.start, s.end)
     /\ \A p \in Partitions : s.end[p] <= committed[p]

\* What accept verified of a batch is exactly the batch, and remains verified.
AcceptedEvidence == SealedExactly /\ EvidenceStaysValid

\* Publication of a batch is under way: by a process, in its acknowledgements,
\* or in what a dead process sent.
UnderWay(b) ==
  \/ \E q \in Publishers : pubPc[q] # "idle" /\ pubBatch[q] = b
  \/ Acknowledged(b) # {}
  \/ limbo \cap IdsOf(b) # {}

\* "One active publication batch is permitted": at most one batch is being
\* published and not accepted, although an accept that came too early leaves
\* the journal of another, and processes outlive the authorization they had.
OnePublished ==
  \A b, c \in Batches : UnderWay(b) /\ UnderWay(c) /\ ~Accepted(b) /\ ~Accepted(c) => b = c

\* Batches take turns, on the topic and in the sealed ranges.
BatchesTakeTurns == SealedContiguous /\ OnePublished

\* The group never goes back: a committed offset only grows.
OffsetsNeverRewind ==
  [][\A p \in Partitions : committed[p] <= committed'[p]]_vars

-----------------------------------------------------------------------------
(* Restarts finish the work.  The operator retries every command with        *)
(* sufficient bounds, and accept for a published batch, with the boundary of *)
(* the latest acceptance.                                                    *)

LatestBoundary(start) ==
  /\ start \in Boundaries
  /\ \A other \in Boundaries : \A p \in Partitions : other[p] <= start[p]

OperatorAccepts ==
  \E b \in Batches, start \in Boundaries, m \in Bounds :
     /\ LatestBoundary(start)
     /\ Acknowledged(b) = IdsOf(b)
     /\ OpenAccept(b, start, m)

Fairness ==
  /\ WF_vars(ClaimFence) /\ WF_vars(CommitFence)
  /\ \A q \in Publishers :
       /\ WF_vars(\E b \in Batches : Authorize(q, b))
       /\ WF_vars(\E m \in Bounds : OpenAttempt(q, FALSE, m))
       /\ WF_vars(StartAttempt(q)) /\ WF_vars(Send(q))
       /\ WF_vars(NoteDelivery(q)) /\ WF_vars(RecordAck(q))
       /\ WF_vars(CompleteAttempt(q))
  /\ SF_vars(OperatorAccepts)
  /\ WF_vars(Fence) /\ WF_vars(\E p \in Partitions : Receive(p))
  /\ WF_vars(Observe) /\ WF_vars(RecordTry) /\ WF_vars(Commit) /\ WF_vars(Seal)

FairSpec == Spec /\ Fairness

\* An accept that came too early left the journal of a batch whose turn it is
\* not: the batch before it may not be published any more.
OutOfTurn == \E b \in Active : \E c \in 1..(b - 1) : ~Accepted(c)

\* Discover, publish and accept are independently restartable: whatever was
\* interrupted between its durable steps, every prepared batch is accepted in
\* the end, unless a record of another lineage or the broker's retention comes in
\* between, or an accept out of turn leaves a journal that stays in the way.
EveryBatchAccepted ==
  <>((\A b \in Batches : Accepted(b)) \/ foreigns > 0 \/ expiries > 0) \/ <>[]OutOfTurn

-----------------------------------------------------------------------------
(* The lineage implements the abstract delivery of notifications. *)

OnTopic == {id \in Ids : \E p \in Partitions : \E k \in DOMAIN log[p] : log[p][k] = id}

Delivery == INSTANCE ReadyDelivery WITH
  Members <- [b \in Batches |-> IdsOf(b)],
  published <- OnTopic,
  accepted <- {b \in Batches : Accepted(b)}

\* Every step of publishers, broker, acceptor and crashes is a step of the
\* abstract delivery or leaves it alone: batches take turns on the topic, and a
\* batch is accepted only after all of its notifications are visible.
DeliverySpec == Delivery!Spec

\* A restarted publisher sends the ids without an acknowledgement: once the
\* journal of a batch exists, its acknowledgements are complete in the end, if
\* no accept out of turn stays in the way.
RestartCompletesJournal ==
  (\A b \in Batches : b \in journals ~> Acknowledged(b) = IdsOf(b)) \/ <>[]OutOfTurn
=============================================================================
