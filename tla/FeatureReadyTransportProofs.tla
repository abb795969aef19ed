--------------------- MODULE FeatureReadyTransportProofs ---------------------
(***************************************************************************)
(* Proofs about FeatureReadyTransport, for every number of partitions,     *)
(* ids, batches, publishers and failures.                                  *)
(***************************************************************************)
EXTENDS FeatureReadyTransport, TLAPS

\* Holding a place in the log: offset o of p has a record.
InLog(p, o) == o < Len(log[p])

\* The acknowledgement a publisher is about to journal is on the broker.
HeldOnBroker ==
  \A q \in Publishers : \A c \in pubAt[q] :
     InLog(c.part, c.off) /\ LogAt(c.part, c.off) = c.id

\* The fence is claimed once.
FenceUnique == \A f, g \in fence : f = g

\* The group is initialized as a whole, and before anything is published.
GroupInitialized ==
  /\ \A p, r \in Partitions : committed[p] = NoOffset => committed[r] = NoOffset
  /\ acks # {} => ~Uncommitted
  /\ \A q \in Publishers : pubPc[q] # "idle" => ~Uncommitted
  /\ accPc # "idle" => ~Uncommitted

Consuming == accPc \in {"polling", "received", "observing", "committing"}
Holding == accPc \in {"received", "observing", "committing"}

CommittedInLog == \A p \in Partitions : committed[p] <= Len(log[p])
FenceInLog == \A f \in fence, p \in Partitions : f[p] <= Len(log[p])

\* The consumer works on from the committed offsets towards its own fence.
ConsumerProgress ==
  Consuming => \A p \in Partitions :
     accNext[p] = committed[p] /\ accNext[p] <= accEnd[p] /\ accEnd[p] <= Len(log[p])

\* What the consumer holds between the receipt of a record and its commit.
ConsumerHolds ==
  /\ Holding => /\ accNext[accPart] < accEnd[accPart]
                /\ Current.id \in Ids /\ HasReceipt(Current.id)
                /\ accLeft > 0
  /\ accPc \in {"observing", "committing"} => Current \in observed

IInv ==
  /\ TypeOK
  /\ AckedOnBroker /\ HeldOnBroker
  /\ FenceUnique /\ GroupInitialized /\ CommittedInLog /\ FenceInLog
  /\ ConsumerProgress /\ ConsumerHolds
  /\ CommittedIsObserved

LEMMA IdsOfType == \A b \in Batches : IdsOf(b) \subseteq Ids
  BY TransportAssumption DEF TransportAssumption, IdsOf

LEMMA FirstBatch == 1 \in Batches
  BY TransportAssumption DEF TransportAssumption, Batches

LEMMA NoPartType == NoPart \in Partitions
  BY TransportAssumption DEF TransportAssumption, NoPart

LEMMA ZeroType == Zero \in Offsets
  BY DEF Zero, Offsets

LEMMA EndOffsetsType == TypeOK => EndOffsets \in Offsets
  BY DEF TypeOK, EndOffsets, Offsets

LEMMA PubExitType ==
  ASSUME TypeOK, NEW q \in Publishers, PubExit(q)
  PROVE  /\ pubPc' \in [Publishers -> PubStates]
         /\ pubBatch' \in [Publishers -> Batches]
         /\ pubQueue' \in [Publishers -> SUBSET Ids]
         /\ pubReplay' \in [Publishers -> BOOLEAN]
         /\ pubAt' \in [Publishers -> SUBSET Copies]
  BY FirstBatch DEF TypeOK, PubExit, PubStates

LEMMA AccExitType ==
  ASSUME AccExit
  PROVE  /\ accPc' \in AccStates /\ accBatch' \in Batches
         /\ accStart' \in Offsets /\ accEnd' \in Offsets /\ accNext' \in Offsets
         /\ accPart' \in Partitions /\ accLeft' \in Nat /\ accFresh' \in BOOLEAN
  BY NoPartType, ZeroType, FirstBatch DEF AccExit, AccStates

LEMMA Append1Type ==
  ASSUME TypeOK, NEW p \in Partitions, NEW r \in Ids \cup {Foreign}, Append1(p, r)
  PROVE  log' \in [Partitions -> Seq(Ids \cup {Foreign})]
  BY DEF TypeOK, Append1

LEMMA InitType == Init => TypeOK
<1> SUFFICES ASSUME Init PROVE TypeOK
  OBVIOUS
<1>1. /\ log \in [Partitions -> Seq(Ids \cup {Foreign})]
      /\ beginning \in Offsets /\ limbo \subseteq Ids
      /\ committed \in [Partitions -> Nat \cup {NoOffset}]
  BY ZeroType DEF Init
<1>2. /\ fence \subseteq Offsets /\ journals \subseteq Batches /\ acks \subseteq Copies
      /\ damaged \subseteq Folders \X Batches
      /\ receipts \subseteq Copies /\ observed \subseteq Copies
      /\ tries \subseteq Ids \X BOOLEAN
      /\ sealed \subseteq [batch : Batches, start : Offsets, end : Offsets]
  BY DEF Init
<1>3. /\ pubPc \in [Publishers -> PubStates]
      /\ pubBatch \in [Publishers -> Batches]
      /\ pubQueue \in [Publishers -> SUBSET Ids]
      /\ pubReplay \in [Publishers -> BOOLEAN]
      /\ pubAt \in [Publishers -> SUBSET Copies]
  BY FirstBatch DEF Init, PubStates
<1>4. /\ accPc \in AccStates /\ accBatch \in Batches
      /\ accStart \in Offsets /\ accEnd \in Offsets /\ accNext \in Offsets
      /\ accPart \in Partitions /\ accLeft \in Nat /\ accFresh \in BOOLEAN
      /\ failures \in Nat /\ replays \in Nat /\ foreigns \in Nat /\ expiries \in Nat
  BY FirstBatch, NoPartType, ZeroType DEF Init, AccStates
<1> QED  BY <1>1, <1>2, <1>3, <1>4 DEF TypeOK

LEMMA CurrentType ==
  ASSUME TypeOK, ConsumerHolds, Holding
  PROVE  Current \in Copies
  BY DEF TypeOK, ConsumerHolds, Holding, Current, CopyAt, Copies, Offsets

LEMMA TypeStep ==
  ASSUME IInv, [Next]_vars
  PROVE  TypeOK'
<1> USE DEF IInv
<1>1. CASE UNCHANGED vars
  BY <1>1 DEF TypeOK, vars, brokerVars, journalVars, storeVars, pubVars, accVars, boundVars
<1>2. CASE ClaimFence
  BY <1>2, EndOffsetsType
  DEF ClaimFence, TypeOK, brokerVars, journalVars, storeVars, pubVars, accVars, boundVars
<1>3. CASE CommitFence
  BY <1>3 DEF CommitFence, TypeOK, Offsets, journalVars, storeVars, pubVars, accVars, boundVars
<1>4. ASSUME NEW q \in Publishers, NEW b \in Batches, Authorize(q, b)
      PROVE  TypeOK'
  BY <1>4 DEF Authorize, TypeOK, PubStates, brokerVars, journalVars, storeVars, accVars, boundVars
<1>5. ASSUME NEW q \in Publishers, NEW replay \in BOOLEAN, NEW m \in Bounds,
             OpenAttempt(q, replay, m)
      PROVE  TypeOK'
  <2> DEFINE pending == {i \in IdsOf(pubBatch[q]) : replay \/ i \notin Acknowledged(pubBatch[q])}
  <2>1. FirstFew(pubBatch[q], pending, m) \in SUBSET Ids
    BY IdsOfType DEF TypeOK, FirstFew
  <2>2. journals' \subseteq Batches /\ acks' = acks
    BY <1>5 DEF OpenAttempt, TypeOK
  <2>3. CASE Sound("acks", pubBatch[q]) /\ AttemptsSound(pubBatch[q])
    <3>1. /\ pubPc' = [pubPc EXCEPT ![q] = "opening"]
          /\ pubQueue' = [pubQueue EXCEPT ![q] = FirstFew(pubBatch[q], pending, m)]
          /\ pubReplay' = [pubReplay EXCEPT ![q] = replay]
          /\ replays' = IF replay THEN replays + 1 ELSE replays
          /\ UNCHANGED <<pubBatch, pubAt>>
      BY <1>5, <2>3 DEF OpenAttempt
    <3> HIDE DEF pending
    <3> QED
      BY <1>5, <2>1, <2>2, <3>1
      DEF OpenAttempt, TypeOK, PubStates, brokerVars, storeVars, accVars
  <2>4. CASE ~(Sound("acks", pubBatch[q]) /\ AttemptsSound(pubBatch[q]))
    BY <1>5, <2>2, <2>4, PubExitType
    DEF OpenAttempt, TypeOK, brokerVars, storeVars, accVars
  <2> QED  BY <2>3, <2>4
<1>6. ASSUME NEW q \in Publishers, StartAttempt(q)
      PROVE  TypeOK'
  BY <1>6 DEF StartAttempt, TypeOK, PubStates, brokerVars, journalVars, storeVars, accVars, boundVars
<1>7. ASSUME NEW q \in Publishers, Send(q)
      PROVE  TypeOK'
  <2>1. PICK id \in NextToSend(q) :
          /\ Append1(PartitionOf[id], id)
          /\ pubAt' = [pubAt EXCEPT ![q] =
                {[id |-> id, part |-> PartitionOf[id], off |-> Len(log[PartitionOf[id]])]}]
    BY <1>7 DEF Send
  <2>2. id \in Ids /\ PartitionOf[id] \in Partitions
    BY TransportAssumption DEF TypeOK, NextToSend
  <2>3. log' \in [Partitions -> Seq(Ids \cup {Foreign})]
    BY <2>1, <2>2, Append1Type
  <2>4. Len(log[PartitionOf[id]]) \in Nat
    BY <2>2 DEF TypeOK
  <2>5. pubAt' \in [Publishers -> SUBSET Copies]
    BY <2>1, <2>2, <2>4 DEF TypeOK, Copies
  <2> QED
    BY <1>7, <2>3, <2>5 DEF Send, TypeOK, PubStates, journalVars, storeVars, accVars, boundVars
<1>8. ASSUME NEW q \in Publishers, SendUncertain(q)
      PROVE  TypeOK'
  <2>1. PICK id \in NextToSend(q) :
          \/ Append1(PartitionOf[id], id) /\ UNCHANGED limbo
          \/ LateLanding /\ limbo' = limbo \cup {id} /\ UNCHANGED log
          \/ UNCHANGED <<log, limbo>>
    BY <1>8 DEF SendUncertain
  <2>2. id \in Ids /\ PartitionOf[id] \in Partitions
    BY TransportAssumption DEF TypeOK, NextToSend
  <2>3. log' \in [Partitions -> Seq(Ids \cup {Foreign})] /\ limbo' \subseteq Ids
    BY <2>1, <2>2, Append1Type DEF TypeOK
  <2> QED
    BY <1>8, <2>3, PubExitType DEF SendUncertain, TypeOK, journalVars, storeVars, accVars
<1>9. ASSUME NEW q \in Publishers, NoteDelivery(q)
      PROVE  TypeOK'
  BY <1>9 DEF NoteDelivery, TypeOK, PubStates, brokerVars, journalVars, storeVars, accVars, boundVars
<1>10. ASSUME NEW q \in Publishers, RecordAck(q)
       PROVE  TypeOK'
  <2>1. CASE PubExit(q) /\ UNCHANGED acks
    BY <1>10, <2>1, PubExitType DEF RecordAck, TypeOK, brokerVars, storeVars, accVars, boundVars
  <2>2. CASE /\ acks' = IF pubReplay[q] THEN acks ELSE acks \cup pubAt[q]
             /\ pubQueue' = [pubQueue EXCEPT ![q] = @ \ {c.id : c \in pubAt[q]}]
             /\ pubAt' = [pubAt EXCEPT ![q] = {}]
             /\ pubPc' = [pubPc EXCEPT ![q] = "sending"]
             /\ UNCHANGED <<pubBatch, pubReplay>>
    BY <1>10, <2>2 DEF RecordAck, TypeOK, PubStates, brokerVars, storeVars, accVars, boundVars
  <2> QED  BY <1>10, <2>1, <2>2 DEF RecordAck
<1>11. ASSUME NEW q \in Publishers, CompleteAttempt(q)
       PROVE  TypeOK'
  BY <1>11, PubExitType
  DEF CompleteAttempt, TypeOK, brokerVars, journalVars, storeVars, accVars, boundVars
<1>12. ASSUME NEW q \in Publishers, KillPublisher(q)
       PROVE  TypeOK'
  <2>1. damaged' \subseteq Folders \X Batches
    BY <1>12 DEF KillPublisher, TypeOK, Folders
  <2> QED
    BY <1>12, <2>1, PubExitType
    DEF KillPublisher, TypeOK, brokerVars, journalVars, storeVars, accVars
<1>13. ASSUME NEW q \in Publishers, KillInClaim(q)
       PROVE  TypeOK'
  <2>1. damaged' \subseteq Folders \X Batches /\ acks' \subseteq Copies
    BY <1>13 DEF KillInClaim, TypeOK, Folders
  <2> QED
    BY <1>13, <2>1, PubExitType DEF KillInClaim, TypeOK, brokerVars, storeVars, accVars
<1>14. ASSUME NEW id \in Ids, Land(id)
       PROVE  TypeOK'
  <2>1. log' \in [Partitions -> Seq(Ids \cup {Foreign})]
    BY <1>14, Append1Type, TransportAssumption DEF Land
  <2> QED
    BY <1>14, <2>1 DEF Land, TypeOK, journalVars, storeVars, pubVars, accVars, boundVars
<1>15. ASSUME NEW p \in Partitions, AppendForeign(p)
       PROVE  TypeOK'
  <2>1. log' \in [Partitions -> Seq(Ids \cup {Foreign})]
    BY <1>15, Append1Type DEF AppendForeign
  <2> QED
    BY <1>15, <2>1 DEF AppendForeign, TypeOK, journalVars, storeVars, pubVars, accVars
<1>16. ASSUME NEW p \in Partitions, Expire(p)
       PROVE  TypeOK'
  <2>1. beginning' \in Offsets /\ expiries' \in Nat
    BY <1>16 DEF Expire, TypeOK, Offsets
  <2> QED
    BY <1>16, <2>1 DEF Expire, TypeOK, journalVars, storeVars, pubVars, accVars
<1>17. ASSUME NEW b \in Batches, NEW start \in Boundaries, NEW m \in Bounds,
              OpenAccept(b, start, m)
       PROVE  TypeOK'
  <2>1. start \in Offsets /\ m \in Nat
    BY TransportAssumption DEF Boundaries, TypeOK
  <2>2. CASE Acceptable(b, start)
    BY <1>17, <2>1, <2>2 DEF OpenAccept, TypeOK, AccStates, brokerVars, storeVars, pubVars, boundVars
  <2>3. CASE ~Acceptable(b, start)
    BY <1>17, <2>3 DEF OpenAccept, TypeOK, brokerVars, storeVars, pubVars, accVars, boundVars
  <2> QED  BY <2>2, <2>3
<1>18. CASE Fence
  <2>1. CASE AccExit
    BY <1>18, <2>1, AccExitType
    DEF Fence, TypeOK, brokerVars, journalVars, storeVars, pubVars, boundVars
  <2>2. CASE /\ accPc' = "polling"
             /\ accNext' = [p \in Partitions |->
                   IF committed[p] = NoOffset THEN beginning[p] ELSE committed[p]]
             /\ accEnd' = EndOffsets
             /\ UNCHANGED <<accBatch, accStart, accPart, accLeft, accFresh>>
    <3>1. accNext' \in Offsets /\ accEnd' \in Offsets
      BY <2>2, EndOffsetsType DEF TypeOK, Offsets
    <3> QED
      BY <1>18, <2>2, <3>1
      DEF Fence, TypeOK, AccStates, brokerVars, journalVars, storeVars, pubVars, boundVars
  <2> QED  BY <1>18, <2>1, <2>2 DEF Fence
<1>19. ASSUME NEW p \in Partitions, Receive(p)
       PROVE  TypeOK'
  <2>1. CASE Receivable(p)
    <3>1. CopyAt(p) \in Copies
      BY <2>1, IdsOfType DEF Receivable, CopyAt, Copies, TypeOK, Offsets
    <3> QED
      BY <1>19, <2>1, <3>1
      DEF Receive, TypeOK, AccStates, brokerVars, journalVars, pubVars, boundVars
  <2>2. CASE ~Receivable(p)
    BY <1>19, <2>2, AccExitType DEF Receive, TypeOK, brokerVars, journalVars, pubVars, boundVars
  <2> QED  BY <2>1, <2>2
<1>20. CASE Observe
  <2>1. Current \in Copies
    BY <1>20, CurrentType DEF Observe, Holding
  <2> QED
    BY <1>20, <2>1
    DEF Observe, TypeOK, AccStates, brokerVars, journalVars, pubVars, boundVars
<1>21. CASE RecordTry
  <2>1. Current \in Copies
    BY <1>21, CurrentType DEF RecordTry, Holding
  <2>2. <<Current.id, ~accFresh>> \in Ids \X BOOLEAN
    BY <2>1 DEF Copies
  <2> QED
    BY <1>21, <2>2
    DEF RecordTry, TypeOK, AccStates, brokerVars, journalVars, pubVars, boundVars
<1>22. CASE Commit
  <2>1. accLeft - 1 \in Nat
    BY <1>22 DEF Commit, ConsumerHolds, Holding, TypeOK
  <2> QED
    BY <1>22, <2>1
    DEF Commit, TypeOK, Offsets, AccStates, journalVars, storeVars, pubVars, boundVars
<1>23. CASE Seal
  <2>1. sealed' \subseteq [batch : Batches, start : Offsets, end : Offsets]
    BY <1>23 DEF Seal, TypeOK
  <2> QED
    BY <1>23, <2>1, AccExitType
    DEF Seal, TypeOK, brokerVars, journalVars, storeVars, pubVars, boundVars
<1>24. CASE KillAcceptor
  BY <1>24, AccExitType
  DEF KillAcceptor, TypeOK, brokerVars, journalVars, storeVars, pubVars
<1>25. CASE KillInStoreClaim
  <2>1. damaged' \subseteq Folders \X Batches
    BY <1>25 DEF KillInStoreClaim, TypeOK, Folders
  <2>2. receipts' \subseteq Copies
    <3>1. ASSUME NEW p \in Partitions, Receivable(p)
          PROVE  CopyAt(p) \in Copies
      BY <3>1, IdsOfType DEF Receivable, CopyAt, Copies, TypeOK, Offsets
    <3> QED  BY <1>25, <3>1 DEF KillInStoreClaim, TypeOK
  <2>3. observed' \subseteq Copies
    BY <1>25, CurrentType DEF KillInStoreClaim, TypeOK, Holding
  <2>4. tries' = tries
    BY <1>25 DEF KillInStoreClaim
  <2> QED
    BY <1>25, <2>1, <2>2, <2>3, <2>4, AccExitType
    DEF KillInStoreClaim, TypeOK, brokerVars, journalVars, pubVars
<1> QED
  BY <1>1, <1>2, <1>3, <1>4, <1>5, <1>6, <1>7, <1>8, <1>9, <1>10, <1>11, <1>12, <1>13,
     <1>14, <1>15, <1>16, <1>17, <1>18, <1>19, <1>20, <1>21, <1>22, <1>23, <1>24, <1>25
  DEF Next, Publish, PublisherFails, Accept

-----------------------------------------------------------------------------
(* The log only grows, so a coordinate names one record for ever. *)

LogGrows ==
  \A p \in Partitions :
     /\ Len(log[p]) <= Len(log'[p])
     /\ \A o \in Nat : o < Len(log[p]) => log'[p][o + 1] = log[p][o + 1]

LEMMA Append1Grows ==
  ASSUME TypeOK, NEW p \in Partitions, NEW r \in Ids \cup {Foreign}, Append1(p, r)
  PROVE  /\ LogGrows
         /\ Len(log'[p]) = Len(log[p]) + 1
         /\ log'[p][Len(log[p]) + 1] = r
<1>1. log'[p] = Append(log[p], r) /\ \A s \in Partitions : s # p => log'[s] = log[s]
  BY DEF TypeOK, Append1
<1>2. log[p] \in Seq(Ids \cup {Foreign}) /\ Len(log[p]) \in Nat
  BY DEF TypeOK
<1>3. /\ Len(log'[p]) = Len(log[p]) + 1 /\ log'[p][Len(log[p]) + 1] = r
      /\ \A k \in 1..Len(log[p]) : log'[p][k] = log[p][k]
  BY <1>1, <1>2
<1>4. \A s \in Partitions : Len(log[s]) \in Nat
  BY DEF TypeOK
<1>5. ASSUME NEW s \in Partitions
      PROVE  /\ Len(log[s]) <= Len(log'[s])
             /\ \A o \in Nat : o < Len(log[s]) => log'[s][o + 1] = log[s][o + 1]
  <2>1. CASE s = p
    <3>1. \A o \in Nat : o < Len(log[p]) => o + 1 \in 1..Len(log[p])
      BY <1>2
    <3> QED  BY <1>2, <1>3, <2>1, <3>1
  <2>2. CASE s # p
    BY <1>1, <1>4, <2>2
  <2> QED  BY <2>1, <2>2
<1> QED  BY <1>3, <1>5 DEF LogGrows

LEMMA LogStays == ASSUME TypeOK, log' = log PROVE LogGrows
<1>1. \A p \in Partitions : Len(log[p]) \in Nat
  BY DEF TypeOK
<1> QED  BY <1>1 DEF LogGrows

LEMMA StepGrows ==
  ASSUME IInv, [Next]_vars
  PROVE  LogGrows
<1> USE DEF IInv
<1>1. ASSUME NEW q \in Publishers, Send(q) \/ SendUncertain(q)
      PROVE  LogGrows
  <2>1. PICK id \in NextToSend(q) : Append1(PartitionOf[id], id) \/ UNCHANGED log
    BY <1>1 DEF Send, SendUncertain
  <2>2. id \in Ids /\ PartitionOf[id] \in Partitions
    BY TransportAssumption DEF TypeOK, NextToSend
  <2> QED  BY <2>1, <2>2, Append1Grows, LogStays
<1>2. ASSUME NEW id \in Ids, Land(id)
      PROVE  LogGrows
  BY <1>2, Append1Grows, TransportAssumption DEF Land
<1>3. ASSUME NEW p \in Partitions, AppendForeign(p)
      PROVE  LogGrows
  BY <1>3, Append1Grows DEF AppendForeign
<1>4. CASE log' = log
  BY <1>4, LogStays
<1>5. \/ log' = log
      \/ \E q \in Publishers : Send(q) \/ SendUncertain(q)
      \/ \E id \in Ids : Land(id)
      \/ \E p \in Partitions : AppendForeign(p)
  BY DEF Next, Publish, PublisherFails, Accept, vars, brokerVars, ClaimFence, CommitFence,
         Authorize, OpenAttempt, StartAttempt, NoteDelivery, RecordAck, CompleteAttempt,
         KillPublisher, KillInClaim, Expire, OpenAccept, Fence, Receive, Observe, RecordTry,
         Commit, Seal, KillAcceptor, KillInStoreClaim
<1> QED  BY <1>1, <1>2, <1>3, <1>4, <1>5

-----------------------------------------------------------------------------
(* Acknowledgements. *)

\* The coordinates a publisher holds were returned by the broker.
LEMMA HeldStep ==
  ASSUME IInv, [Next]_vars
  PROVE  HeldOnBroker'
<1> USE DEF IInv
<1> SUFFICES ASSUME NEW q \in Publishers, NEW c \in pubAt'[q]
             PROVE  c.off < Len(log'[c.part]) /\ log'[c.part][c.off + 1] = c.id
  BY DEF HeldOnBroker, InLog, LogAt
<1>1. LogGrows
  BY StepGrows
<1>2. CASE c \in pubAt[q]
  <2>1. c \in Copies
    BY <1>2 DEF TypeOK
  <2>2. c.off < Len(log[c.part]) /\ log[c.part][c.off + 1] = c.id
    BY <1>2 DEF HeldOnBroker, InLog, LogAt
  <2>3. Len(log[c.part]) \in Nat /\ Len(log'[c.part]) \in Nat
    BY <2>1, TypeStep DEF TypeOK, Copies
  <2> QED  BY <1>1, <2>1, <2>2, <2>3 DEF LogGrows, Copies
<1>3. CASE c \notin pubAt[q]
  <2>a. \A r \in Publishers : PubExit(r) => c \in pubAt[q]
    BY DEF PubExit, TypeOK
  <2>b. \A r \in Publishers : RecordAck(r) => c \in pubAt[q]
    BY <2>a DEF RecordAck, TypeOK
  <2>c. \A r \in Publishers, m \in BOOLEAN, n \in Bounds :
           OpenAttempt(r, m, n) => c \in pubAt[q]
    BY <2>a DEF OpenAttempt, TypeOK
  <2>d. \A r \in Publishers : Send(r) => r = q
    BY <1>3 DEF Send, TypeOK
  <2>e. ASSUME pubAt' = pubAt PROVE FALSE
    BY <1>3, <2>e
  <2>1. Send(q)
    BY <1>3, <2>a, <2>b, <2>c, <2>d, <2>e
    DEF Next, Publish, PublisherFails, Accept, vars, pubVars, ClaimFence,
        CommitFence, Authorize, StartAttempt, NoteDelivery,
        CompleteAttempt, SendUncertain, KillPublisher, KillInClaim, Land,
        AppendForeign, Expire, OpenAccept, Fence, Receive, Observe, RecordTry, Commit,
        Seal, KillAcceptor, KillInStoreClaim
  <2>2. PICK id \in NextToSend(q) :
          /\ Append1(PartitionOf[id], id)
          /\ pubAt' = [pubAt EXCEPT ![q] =
                {[id |-> id, part |-> PartitionOf[id], off |-> Len(log[PartitionOf[id]])]}]
    BY <2>1 DEF Send
  <2>3. id \in Ids /\ PartitionOf[id] \in Partitions
    BY TransportAssumption DEF TypeOK, NextToSend
  <2>4. c = [id |-> id, part |-> PartitionOf[id], off |-> Len(log[PartitionOf[id]])]
    BY <2>2 DEF TypeOK
  <2>5. Len(log[PartitionOf[id]]) \in Nat
    BY <2>3 DEF TypeOK
  <2> QED  BY <2>2, <2>3, <2>4, <2>5, Append1Grows
<1> QED  BY <1>2, <1>3

\* A new acknowledgement file holds what the publisher held.
LEMMA AckedStep ==
  ASSUME IInv, [Next]_vars
  PROVE  AckedOnBroker'
<1> USE DEF IInv
<1> SUFFICES ASSUME NEW a \in acks'
             PROVE  a.off < Len(log'[a.part]) /\ log'[a.part][a.off + 1] = a.id
  BY DEF AckedOnBroker, LogAt
<1>1. LogGrows
  BY StepGrows
<1>2. a \in acks \/ \E q \in Publishers : a \in pubAt[q]
  BY DEF Next, Publish, PublisherFails, Accept, vars, journalVars, ClaimFence,
         CommitFence, Authorize, OpenAttempt, StartAttempt, Send, NoteDelivery, RecordAck,
         CompleteAttempt, SendUncertain, KillPublisher, KillInClaim, Land,
         AppendForeign, Expire, OpenAccept, Fence, Receive, Observe, RecordTry, Commit,
         Seal, KillAcceptor, KillInStoreClaim
<1>3. a \in Copies
  BY <1>2 DEF TypeOK
<1>4. a.off < Len(log[a.part]) /\ log[a.part][a.off + 1] = a.id
  BY <1>2 DEF AckedOnBroker, HeldOnBroker, InLog, LogAt
<1>5. Len(log[a.part]) \in Nat /\ Len(log'[a.part]) \in Nat
  BY <1>3, TypeStep DEF TypeOK, Copies
<1> QED  BY <1>1, <1>3, <1>4, <1>5 DEF LogGrows, Copies

-----------------------------------------------------------------------------
(* The group and its consumer. *)

\* Files of the receipt store are never removed.
LEMMA StoreGrows ==
  ASSUME [Next]_vars
  PROVE  receipts \subseteq receipts' /\ observed \subseteq observed'
<1>1. Observe => observed \subseteq observed' /\ receipts' = receipts
  BY DEF Observe
<1>2. \A p \in Partitions : Receive(p) => receipts \subseteq receipts' /\ observed' = observed
  BY DEF Receive
<1>3. KillInStoreClaim => receipts \subseteq receipts' /\ observed \subseteq observed'
  BY DEF KillInStoreClaim
<1> QED
  BY <1>1, <1>2, <1>3
  DEF Next, Publish, PublisherFails, Accept, vars, storeVars, ClaimFence, CommitFence,
      Authorize, OpenAttempt, StartAttempt, Send, NoteDelivery, RecordAck, CompleteAttempt,
      SendUncertain, KillPublisher, KillInClaim, Land, AppendForeign, Expire, OpenAccept,
      Fence, RecordTry, Commit, Seal, KillAcceptor

\* A step of the consumer, a step of the group, or neither.
Undisturbed == UNCHANGED <<committed, accVars>>

LEMMA ConsumerFrame ==
  ASSUME [Next]_vars
  PROVE  \/ Undisturbed
         \/ CommitFence
         \/ AccExit /\ UNCHANGED committed
         \/ \E b \in Batches, start \in Boundaries, m \in Bounds : OpenAccept(b, start, m)
         \/ Fence \/ (\E p \in Partitions : Receive(p)) \/ Observe \/ RecordTry \/ Commit
<1>1. CASE UNCHANGED vars
  BY <1>1 DEF Undisturbed, vars, brokerVars
<1>2. CASE ClaimFence
  BY <1>2 DEF Undisturbed, ClaimFence, brokerVars
<1>3. ASSUME NEW q \in Publishers, Publish(q) \/ PublisherFails(q)
      PROVE  Undisturbed
  BY <1>3 DEF Publish, PublisherFails, Undisturbed, brokerVars, Authorize, OpenAttempt,
         StartAttempt, Send, NoteDelivery, RecordAck, CompleteAttempt, SendUncertain,
         KillPublisher, KillInClaim
<1>4. CASE Seal \/ KillAcceptor \/ KillInStoreClaim
  BY <1>4 DEF Seal, KillAcceptor, KillInStoreClaim, brokerVars
<1>5. ASSUME NEW id \in Ids, Land(id)
      PROVE  Undisturbed
  BY <1>5 DEF Land, Undisturbed
<1>6. ASSUME NEW p \in Partitions, AppendForeign(p) \/ Expire(p)
      PROVE  Undisturbed
  BY <1>6 DEF AppendForeign, Expire, Undisturbed
<1> QED  BY <1>1, <1>2, <1>3, <1>4, <1>5, <1>6 DEF Next, Accept

\* The fence is claimed while the group is uncommitted, and never changes.
LEMMA FenceFrame ==
  ASSUME [Next]_vars
  PROVE  \/ fence' = fence
         \/ /\ fence = {} /\ Uncommitted /\ fence' = {EndOffsets}
            /\ UNCHANGED <<log, committed>>
  BY DEF Next, Publish, PublisherFails, Accept, vars, brokerVars, ClaimFence, CommitFence,
         Authorize, OpenAttempt, StartAttempt, Send, NoteDelivery, RecordAck,
         CompleteAttempt, SendUncertain, KillPublisher, KillInClaim, Land, AppendForeign,
         Expire, OpenAccept, Fence, Receive, Observe, RecordTry, Commit, Seal,
         KillAcceptor, KillInStoreClaim

LEMMA FenceStep ==
  ASSUME IInv, [Next]_vars
  PROVE  FenceUnique' /\ FenceInLog'
<1> USE DEF IInv
<1>1. FenceUnique'
  BY FenceFrame DEF FenceUnique
<1>2. ASSUME NEW f \in fence', NEW p \in Partitions
      PROVE  f[p] <= Len(log'[p])
  <2>1. Len(log[p]) <= Len(log'[p])
    BY StepGrows DEF LogGrows
  <2>2. Len(log[p]) \in Nat /\ Len(log'[p]) \in Nat /\ f[p] \in Nat
    <3>1. Len(log[p]) \in Nat
      BY DEF TypeOK
    <3>2. Len(log'[p]) \in Nat
      BY TypeStep DEF TypeOK
    <3>3. fence' \subseteq Offsets
      BY TypeStep DEF TypeOK
    <3> QED  BY <1>2, <3>1, <3>2, <3>3 DEF Offsets
  <2>3. CASE f \in fence
    BY <2>1, <2>2, <2>3 DEF FenceInLog
  <2>4. CASE f = EndOffsets
    BY <2>1, <2>4 DEF EndOffsets
  <2> QED  BY <1>2, <2>3, <2>4, FenceFrame
<1> QED  BY <1>1, <1>2 DEF FenceInLog

\* A new acknowledgement was held by a publisher at work.
LEMMA AckOrigin ==
  ASSUME TypeOK, [Next]_vars
  PROVE  \A a \in acks' : a \in acks \/ \E q \in Publishers : a \in pubAt[q] /\ pubPc[q] # "idle"
<1>1. \A q \in Publishers : RecordAck(q) => acks' \subseteq acks \cup pubAt[q] /\ pubPc[q] # "idle"
  BY DEF RecordAck
<1>2. \A q \in Publishers : KillInClaim(q) =>
         acks' = acks \/ (acks' \subseteq acks \cup pubAt[q] /\ pubPc[q] # "idle")
  BY DEF KillInClaim
<1>3. acks' = acks \/ \E q \in Publishers : RecordAck(q) \/ KillInClaim(q)
  BY DEF Next, Publish, PublisherFails, Accept, vars, journalVars, ClaimFence, CommitFence,
         Authorize, OpenAttempt, StartAttempt, Send, NoteDelivery, CompleteAttempt,
         SendUncertain, KillPublisher, Land, AppendForeign, Expire, OpenAccept, Fence,
         Receive, Observe, RecordTry, Commit, Seal, KillAcceptor, KillInStoreClaim
<1> QED  BY <1>1, <1>2, <1>3

\* A publisher at work was at work before, or the group is initialized.
LEMMA PublisherOrigin ==
  ASSUME TypeOK, [Next]_vars, NEW q \in Publishers, pubPc'[q] # "idle"
  PROVE  pubPc[q] # "idle" \/ ~Uncommitted
<1>1. ASSUME NEW r \in Publishers, PubExit(r)
      PROVE  pubPc[q] # "idle"
  BY <1>1 DEF PubExit, TypeOK
<1>2. ASSUME NEW r \in Publishers, NEW s, pubPc[r] # "idle", pubPc' = [pubPc EXCEPT ![r] = s]
      PROVE  pubPc[q] # "idle"
  BY <1>2 DEF TypeOK
<1>3. ASSUME NEW r \in Publishers, Publish(r)
      PROVE  pubPc[q] # "idle" \/ ~Uncommitted
  <2>1. CASE \E b \in Batches : Authorize(r, b)
    BY <2>1 DEF Authorize
  <2>2. CASE \E replay \in BOOLEAN, m \in Bounds : OpenAttempt(r, replay, m)
    BY <1>1, <1>2, <2>2 DEF OpenAttempt
  <2>3. CASE StartAttempt(r) \/ Send(r) \/ NoteDelivery(r) \/ RecordAck(r)
    BY <1>1, <1>2, <2>3 DEF StartAttempt, Send, NoteDelivery, RecordAck
  <2> QED  BY <1>1, <1>3, <2>1, <2>2, <2>3 DEF Publish, CompleteAttempt
<1>4. ASSUME NEW r \in Publishers, PublisherFails(r)
      PROVE  pubPc[q] # "idle"
  BY <1>1, <1>4 DEF PublisherFails, SendUncertain, KillPublisher, KillInClaim
<1>5. pubPc' = pubPc \/ \E r \in Publishers : Publish(r) \/ PublisherFails(r)
  BY DEF Next, Accept, vars, pubVars, ClaimFence, CommitFence, Land, AppendForeign, Expire,
         OpenAccept, Fence, Receive, Observe, RecordTry, Commit, Seal, KillAcceptor,
         KillInStoreClaim
<1> QED  BY <1>3, <1>4, <1>5

\* The accept command at work was at work before, or a batch is acknowledged.
LEMMA AcceptorOrigin ==
  ASSUME [Next]_vars, accPc' # "idle"
  PROVE  accPc # "idle" \/ acks # {}
<1>1. ASSUME NEW b \in Batches, Acknowledged(b) = IdsOf(b)
      PROVE  acks # {}
  <2>1. Records[b] \in Seq(Ids) /\ Records[b] # <<>>
    BY TransportAssumption DEF TransportAssumption
  <2>2. 1 \in DOMAIN Records[b]
    BY <2>1
  <2>3. Records[b][1] \in IdsOf(b)
    BY <2>2 DEF IdsOf
  <2> QED  BY <1>1, <2>3 DEF Acknowledged
<1>2. CASE Undisturbed
  BY <1>2 DEF Undisturbed, accVars
<1>3. CASE CommitFence
  BY <1>3 DEF CommitFence, accVars
<1>4. CASE AccExit
  BY <1>4 DEF AccExit
<1>5. CASE \E b \in Batches, start \in Boundaries, m \in Bounds : OpenAccept(b, start, m)
  BY <1>1, <1>5 DEF OpenAccept, Acceptable, accVars
<1>6. CASE Fence \/ (\E p \in Partitions : Receive(p)) \/ Observe \/ RecordTry \/ Commit
  BY <1>6 DEF Fence, Receive, Observe, RecordTry, Commit
<1> QED  BY <1>2, <1>3, <1>4, <1>5, <1>6, ConsumerFrame

LEMMA CommittedFrame ==
  ASSUME [Next]_vars
  PROVE  committed' = committed \/ CommitFence \/ Commit
  BY ConsumerFrame
  DEF Undisturbed, OpenAccept, Fence, Receive, Observe, RecordTry, brokerVars

\* The group is initialized as a whole, before any publisher or acceptor runs.
LEMMA InitializedStep ==
  ASSUME IInv, [Next]_vars
  PROVE  GroupInitialized'
<1> USE DEF IInv
<1>1. ASSUME committed' # committed
      PROVE  \A p \in Partitions : committed'[p] # NoOffset
  <2>1. CASE CommitFence
    BY <2>1 DEF CommitFence, TypeOK, Offsets, NoOffset
  <2>2. CASE Commit
    <3>1. \A p \in Partitions : committed[p] # NoOffset
      BY <2>2 DEF Commit, GroupInitialized, Uncommitted
    <3>2. accNext[accPart] + 1 # NoOffset
      BY DEF TypeOK, Offsets, NoOffset
    <3> QED  BY <2>2, <3>1, <3>2 DEF Commit, TypeOK
  <2> QED  BY <1>1, <2>1, <2>2, CommittedFrame
<1>2. ~Uncommitted => ~Uncommitted'
  BY <1>1 DEF Uncommitted
<1>3. \A p, r \in Partitions : committed'[p] = NoOffset => committed'[r] = NoOffset
  BY <1>1 DEF GroupInitialized
<1>4. acks' # {} => ~Uncommitted
  BY AckOrigin DEF GroupInitialized
<1>5. \A q \in Publishers : pubPc'[q] # "idle" => ~Uncommitted
  BY PublisherOrigin DEF GroupInitialized
<1>6. accPc' # "idle" => ~Uncommitted
  BY AcceptorOrigin DEF GroupInitialized
<1> QED  BY <1>2, <1>3, <1>4, <1>5, <1>6 DEF GroupInitialized

LEMMA CommittedLogStep ==
  ASSUME IInv, [Next]_vars
  PROVE  CommittedInLog'
<1> USE DEF IInv
<1> SUFFICES ASSUME NEW p \in Partitions
             PROVE  committed'[p] <= Len(log'[p])
  BY DEF CommittedInLog
<1>1. /\ Len(log[p]) \in Nat /\ committed[p] \in Nat \cup {NoOffset}
      /\ committed[p] <= Len(log[p])
  BY DEF TypeOK, CommittedInLog
<1>2. Len(log'[p]) \in Nat
  BY TypeStep DEF TypeOK
<1>3. Len(log[p]) <= Len(log'[p])
  BY StepGrows DEF LogGrows
<1>4. committed'[p] <= Len(log[p])
  <2>1. CASE CommitFence
    BY <2>1 DEF CommitFence, FenceInLog
  <2>2. CASE Commit
    <3>1. accNext[accPart] < accEnd[accPart] /\ accEnd[accPart] <= Len(log[accPart])
      BY <2>2 DEF Commit, ConsumerHolds, ConsumerProgress, Holding, Consuming, TypeOK
    <3>2. accNext[accPart] \in Nat /\ accEnd[accPart] \in Nat /\ Len(log[accPart]) \in Nat
      BY DEF TypeOK, Offsets
    <3>3. committed' = [committed EXCEPT ![accPart] = accNext[accPart] + 1]
      BY <2>2 DEF Commit
    <3> QED  BY <1>1, <3>1, <3>2, <3>3 DEF TypeOK
  <2> QED  BY <1>1, <2>1, <2>2, CommittedFrame
<1>5. committed'[p] \in Nat \cup {NoOffset}
  BY TypeStep DEF TypeOK
<1> QED  BY <1>2, <1>3, <1>4, <1>5, <1>1 DEF NoOffset

\* The consumer follows the committed offsets up to its fence.
LEMMA ProgressStep ==
  ASSUME IInv, [Next]_vars
  PROVE  ConsumerProgress'
<1> USE DEF IInv
<1> SUFFICES ASSUME Consuming', NEW p \in Partitions
             PROVE  /\ accNext'[p] = committed'[p] /\ accNext'[p] <= accEnd'[p]
                    /\ accEnd'[p] <= Len(log'[p])
  BY DEF ConsumerProgress
<1>1. Len(log[p]) \in Nat /\ Len(log'[p]) \in Nat /\ Len(log[p]) <= Len(log'[p])
  <2>1. Len(log[p]) \in Nat
    BY DEF TypeOK
  <2>2. Len(log'[p]) \in Nat
    BY TypeStep DEF TypeOK
  <2> QED  BY <2>1, <2>2, StepGrows DEF LogGrows
<1>2. accNext[p] \in Nat /\ accEnd[p] \in Nat
  BY DEF TypeOK, Offsets
<1>3. ASSUME Consuming
      PROVE  accNext[p] = committed[p] /\ accNext[p] <= accEnd[p] /\ accEnd[p] <= Len(log[p])
  BY <1>3 DEF ConsumerProgress
<1>4. CASE UNCHANGED <<accNext, accEnd, committed>> /\ Consuming
  BY <1>1, <1>2, <1>3, <1>4
<1>5. CASE Undisturbed
  BY <1>4, <1>5 DEF Undisturbed, accVars, Consuming
<1>6. CASE CommitFence
  BY <1>6 DEF CommitFence, accVars, Consuming, GroupInitialized
<1>7. CASE AccExit
  BY <1>7 DEF AccExit, Consuming
<1>8. CASE \E b \in Batches, start \in Boundaries, m \in Bounds : OpenAccept(b, start, m)
  BY <1>8 DEF OpenAccept, accVars, Consuming
<1>9. CASE Fence
  <2>1. accPc = "fencing" /\ UNCHANGED <<committed, log>>
    BY <1>9 DEF Fence, brokerVars
  <2>2. committed[p] # NoOffset
    BY <2>1 DEF GroupInitialized, Uncommitted
  <2>3. ~AccExit
    BY DEF AccExit, Consuming
  <2>4. /\ accEnd' = EndOffsets
        /\ accNext' = [s \in Partitions |->
                         IF committed[s] = NoOffset THEN beginning[s] ELSE committed[s]]
    BY <1>9, <2>3 DEF Fence
  <2>5. accNext'[p] = committed[p] /\ accEnd'[p] = Len(log[p])
    BY <2>2, <2>4 DEF EndOffsets
  <2> QED  BY <1>1, <2>1, <2>5 DEF CommittedInLog
<1>10. CASE \E s \in Partitions : Receive(s)
  BY <1>4, <1>7, <1>10 DEF Receive, brokerVars, Consuming
<1>11. CASE Observe \/ RecordTry
  BY <1>4, <1>11 DEF Observe, RecordTry, brokerVars, Consuming
<1>12. CASE Commit
  <2>1. Consuming /\ accNext[accPart] < accEnd[accPart]
    BY <1>12 DEF Commit, ConsumerHolds, Holding, Consuming
  <2>2. /\ committed' = [committed EXCEPT ![accPart] = accNext[accPart] + 1]
        /\ accNext' = [accNext EXCEPT ![accPart] = @ + 1] /\ accEnd' = accEnd
    BY <1>12 DEF Commit
  <2>3. accNext'[p] = committed'[p] /\ accNext'[p] <= accEnd'[p]
    BY <1>2, <1>3, <2>1, <2>2 DEF TypeOK, Offsets
  <2> QED  BY <1>1, <1>2, <1>3, <2>1, <2>2, <2>3
<1> QED  BY <1>5, <1>6, <1>7, <1>8, <1>9, <1>10, <1>11, <1>12, ConsumerFrame

\* The record a consumer holds does not change under it.
LEMMA CurrentStays ==
  ASSUME IInv, [Next]_vars, Holding, UNCHANGED <<accPart, accNext>>
  PROVE  Current' = Current
<1> USE DEF IInv
<1>1. accPart \in Partitions /\ accNext[accPart] \in Nat /\ accEnd[accPart] \in Nat
      /\ Len(log[accPart]) \in Nat
  BY DEF TypeOK, Offsets
<1>2. accNext[accPart] < accEnd[accPart] /\ accEnd[accPart] <= Len(log[accPart])
  BY <1>1 DEF ConsumerHolds, ConsumerProgress, Holding, Consuming
<1>3. log'[accPart][accNext[accPart] + 1] = log[accPart][accNext[accPart] + 1]
  BY <1>1, <1>2, StepGrows DEF LogGrows
<1> QED  BY <1>3 DEF Current, CopyAt, NextId

\* What is received stays receipted and observed until it is committed.
LEMMA HoldsStep ==
  ASSUME IInv, [Next]_vars
  PROVE  ConsumerHolds'
<1> USE DEF IInv
<1>1. ASSUME NEW id, HasReceipt(id)
      PROVE  HasReceipt(id)'
  BY <1>1, StoreGrows DEF HasReceipt
<1>2. CASE Holding /\ UNCHANGED accVars
  <2>1. Current' = Current
    BY <1>2, CurrentStays DEF accVars
  <2> QED  BY <1>1, <1>2, <2>1, StoreGrows DEF ConsumerHolds, Holding, accVars
<1>3. CASE UNCHANGED accVars
  BY <1>2, <1>3 DEF ConsumerHolds, Holding, accVars
<1>4. CASE AccExit
  BY <1>4 DEF AccExit, ConsumerHolds, Holding
<1>5. CASE \E b \in Batches, start \in Boundaries, m \in Bounds : OpenAccept(b, start, m)
  BY <1>5 DEF OpenAccept, accVars, ConsumerHolds, Holding
<1>6. CASE Fence \/ Commit
  BY <1>4, <1>6 DEF Fence, Commit, ConsumerHolds, Holding
<1>7. ASSUME NEW p \in Partitions, Receive(p), ~AccExit
      PROVE  ConsumerHolds'
  <2>1. /\ Receivable(p) /\ accPc' = "received" /\ accPart' = p
        /\ receipts' = IF HasReceipt(NextId(p)) THEN receipts ELSE receipts \cup {CopyAt(p)}
        /\ UNCHANGED <<accNext, accEnd, accLeft, log>> /\ accNext[p] < accEnd[p]
    BY <1>7 DEF Receive, brokerVars
  <2>2. NextId(p) \in Ids /\ accLeft > 0
    BY <2>1, IdsOfType DEF Receivable, TypeOK
  <2>3. HasReceipt(NextId(p))'
    <3>1. NextId(p)' = NextId(p)
      BY <2>1 DEF NextId
    <3>2. CASE HasReceipt(NextId(p))
      <4>1. HasReceipt(NextId(p))' <=> \E r \in receipts' : r.id = NextId(p)
        BY <3>1 DEF HasReceipt
      <4> QED  BY <2>1, <3>2, <4>1 DEF HasReceipt
    <3>3. CASE ~HasReceipt(NextId(p))
      <4>1. CopyAt(p) \in receipts' /\ CopyAt(p).id = NextId(p)
        BY <2>1, <3>3 DEF CopyAt
      <4> QED  BY <3>1, <4>1 DEF HasReceipt
    <3> QED  BY <3>2, <3>3
  <2>4. Current'.id = NextId(p)' /\ NextId(p)' = NextId(p)
    BY <2>1 DEF Current, CopyAt, NextId
  <2> QED  BY <2>1, <2>2, <2>3, <2>4 DEF ConsumerHolds, Holding
<1>8. CASE Observe
  <2>1. /\ Holding /\ accPc' = "observing" /\ observed' = observed \cup {Current}
        /\ UNCHANGED <<accPart, accNext, accEnd, accLeft>>
    BY <1>8 DEF Observe, Holding
  <2>2. Current' = Current
    BY <2>1, CurrentStays
  <2> QED  BY <1>1, <2>1, <2>2 DEF ConsumerHolds
<1>9. CASE RecordTry
  <2>1. /\ Holding /\ accPc = "observing" /\ accPc' = "committing"
        /\ UNCHANGED <<accPart, accNext, accEnd, accLeft>>
    BY <1>9 DEF RecordTry, Holding
  <2>2. Current' = Current
    BY <2>1, CurrentStays
  <2> QED  BY <1>1, <2>1, <2>2, StoreGrows DEF ConsumerHolds
<1>10. CASE CommitFence
  BY <1>3, <1>10 DEF CommitFence
<1> QED
  BY <1>3, <1>4, <1>5, <1>6, <1>7, <1>8, <1>9, <1>10, ConsumerFrame DEF Undisturbed

-----------------------------------------------------------------------------
(* Receipt before commit. *)

LEMMA ObservedStep ==
  ASSUME IInv, [Next]_vars
  PROVE  CommittedIsObserved'
<1> USE DEF IInv
<1> SUFFICES ASSUME NEW f \in fence', NEW p \in Partitions, NEW o \in f[p]..(committed'[p] - 1)
             PROVE  /\ [id |-> log'[p][o + 1], part |-> p, off |-> o] \in observed'
                    /\ \E r \in receipts' : r.id = log'[p][o + 1]
  BY DEF CommittedIsObserved, HasReceipt, LogAt
<1>1. f[p] \in Nat /\ committed'[p] \in Nat \cup {NoOffset}
  <2>1. fence' \subseteq Offsets /\ committed' \in [Partitions -> Nat \cup {NoOffset}]
    BY TypeStep DEF TypeOK
  <2> QED  BY <2>1 DEF Offsets
<1>2. o \in Nat /\ f[p] <= o /\ o < committed'[p]
  BY <1>1 DEF NoOffset
<1>3. /\ committed[p] \in Nat \cup {NoOffset} /\ committed[p] <= Len(log[p])
      /\ Len(log[p]) \in Nat
  BY DEF TypeOK, CommittedInLog
<1>4. CASE f \in fence /\ o < committed[p]
  <2>1. o \in f[p]..(committed[p] - 1)
    BY <1>1, <1>2, <1>3, <1>4 DEF NoOffset
  <2>2. log'[p][o + 1] = log[p][o + 1]
    BY <1>2, <1>3, <1>4, StepGrows DEF LogGrows, NoOffset
  <2>3. /\ [id |-> log[p][o + 1], part |-> p, off |-> o] \in observed
        /\ \E r \in receipts : r.id = log[p][o + 1]
    BY <1>4, <2>1 DEF CommittedIsObserved, HasReceipt, LogAt
  <2> QED  BY <2>2, <2>3, StoreGrows
<1>5. CASE fence' # fence
  BY <1>2, <1>5, FenceFrame DEF Uncommitted, NoOffset
<1>6. CASE fence' = fence /\ ~(o < committed[p])
  <2>1. committed' # committed
    BY <1>2, <1>6
  <2>2. CASE CommitFence
    <3>1. committed' = f
      BY <1>6, <2>2 DEF CommitFence, FenceUnique
    <3> QED  BY <1>1, <1>2, <3>1
  <2>3. CASE Commit
    <3>1. /\ Holding /\ Consuming /\ accPc = "committing"
          /\ committed' = [committed EXCEPT ![accPart] = accNext[accPart] + 1]
          /\ UNCHANGED <<log, observed, receipts>>
      BY <2>3 DEF Commit, Holding, Consuming, storeVars
    <3>2. accNext[accPart] = committed[accPart] /\ accPart \in Partitions
      BY <3>1 DEF ConsumerProgress, TypeOK
    <3>3. p = accPart
      BY <1>2, <1>6, <3>1 DEF TypeOK
    <3>4. o = accNext[p]
      BY <1>2, <1>3, <1>6, <3>1, <3>2, <3>3 DEF TypeOK, NoOffset
    <3>5. Current \in observed /\ HasReceipt(Current.id)
      BY <3>1 DEF ConsumerHolds
    <3>6. Current = [id |-> log'[p][o + 1], part |-> p, off |-> o]
      BY <3>1, <3>3, <3>4 DEF Current, CopyAt, NextId
    <3> QED  BY <3>1, <3>5, <3>6 DEF HasReceipt
  <2> QED  BY <2>1, <2>2, <2>3, CommittedFrame
<1> QED  BY <1>4, <1>5, <1>6

-----------------------------------------------------------------------------
(* The inductive invariant and what follows from it. *)

LEMMA InitInvariant == Init => IInv
<1> SUFFICES ASSUME Init PROVE IInv
  OBVIOUS
<1>1. AckedOnBroker /\ HeldOnBroker /\ FenceUnique /\ FenceInLog
  BY DEF Init, AckedOnBroker, HeldOnBroker, FenceUnique, FenceInLog
<1>2. GroupInitialized
  BY DEF Init, GroupInitialized
<1>3. CommittedInLog
  BY DEF Init, CommittedInLog, NoOffset
<1>4. ConsumerProgress /\ ConsumerHolds /\ CommittedIsObserved
  BY DEF Init, ConsumerProgress, ConsumerHolds, Consuming, Holding, CommittedIsObserved
<1> QED  BY <1>1, <1>2, <1>3, <1>4, InitType DEF IInv

LEMMA NextInvariant == IInv /\ [Next]_vars => IInv'
<1> SUFFICES ASSUME IInv, [Next]_vars PROVE IInv'
  OBVIOUS
<1> QED
  BY TypeStep, HeldStep, AckedStep, FenceStep, InitializedStep, CommittedLogStep,
     ProgressStep, HoldsStep, ObservedStep
  DEF IInv

LEMMA Invariance == Spec => []IInv
  BY InitInvariant, NextInvariant, PTL DEF Spec

\* Every variable keeps its type, for any number of partitions, ids, batches,
\* publishers and failures.
THEOREM TypeCorrect == Spec => []TypeOK
<1>1. IInv => TypeOK
  BY DEF IInv
<1> QED  BY <1>1, Invariance, PTL

\* Whatever publishers are killed, time out, race or replay, an acknowledgement
\* file names a record that the broker holds at that coordinate.
THEOREM AcknowledgedIsStored == Spec => []AckedOnBroker
<1>1. IInv => AckedOnBroker
  BY DEF IInv
<1> QED  BY <1>1, Invariance, PTL

\* Receipt before commit: wherever the accept command is killed, every record
\* between the fence and the committed offset has its receipt and observation.
THEOREM ReceiptBeforeCommit == Spec => []CommittedIsObserved
<1>1. IInv => CommittedIsObserved
  BY DEF IInv
<1> QED  BY <1>1, Invariance, PTL

LEMMA CommittedGrows ==
  ASSUME IInv, [Next]_vars, NEW p \in Partitions
  PROVE  committed[p] <= committed'[p]
<1>1. committed[p] \in Nat \cup {NoOffset}
  BY DEF IInv, TypeOK
<1>2. CASE CommitFence
  <2>1. committed[p] = NoOffset
    BY <1>2 DEF CommitFence, Uncommitted
  <2>2. committed'[p] \in Nat
    BY <1>2 DEF CommitFence, IInv, TypeOK, Offsets
  <2> QED  BY <2>1, <2>2 DEF NoOffset
<1>3. CASE Commit
  <2>1. accNext[accPart] = committed[accPart]
    BY <1>3 DEF Commit, IInv, ConsumerProgress, Consuming, TypeOK
  <2>2. accNext[accPart] \in Nat
    BY DEF IInv, TypeOK, Offsets
  <2>3. committed' = [committed EXCEPT ![accPart] = accNext[accPart] + 1]
    BY <1>3 DEF Commit
  <2> QED  BY <1>1, <2>1, <2>2, <2>3 DEF IInv, TypeOK, NoOffset
<1> QED  BY <1>1, <1>2, <1>3, CommittedFrame DEF NoOffset

\* The group never goes back.
THEOREM NoRewind == Spec => OffsetsNeverRewind
<1>1. IInv /\ [Next]_vars => [\A p \in Partitions : committed[p] <= committed'[p]]_vars
  BY CommittedGrows
<1> QED  BY <1>1, Invariance, PTL DEF Spec, OffsetsNeverRewind

-----------------------------------------------------------------------------
(* Batches take turns.  A batch is in turn when all before it are accepted;*)
(* whatever a publisher or the acceptor has in hand, an acknowledgement or *)
(* a send under way is of a batch in turn, and what is sealed is behind    *)
(* the committed offsets, range after range.  Journals say nothing: an     *)
(* accept that comes too early leaves one of any batch.                    *)

InTurn(b) == \A c \in 1..(b - 1) : Accepted(c)

PublisherHolds(q) ==
  /\ pubPc[q] # "idle" => InTurn(pubBatch[q])
  /\ pubPc[q] \in {"idle", "authorized"} => pubQueue[q] = {} /\ pubAt[q] = {}
  /\ pubQueue[q] \subseteq IdsOf(pubBatch[q])
  /\ \A c \in pubAt[q] : c.id \in IdsOf(pubBatch[q])

PublishersHold == \A q \in Publishers : PublisherHolds(q)

\* The id is of a batch in turn.
IdInTurn(id) == \E b \in Batches : id \in IdsOf(b) /\ InTurn(b)

SentInTurn ==
  /\ \A a \in acks : IdInTurn(a.id)
  /\ \A id \in limbo : IdInTurn(id)
  /\ \A s \in sealed : InTurn(s.batch)

\* The accept command works on a batch that is not accepted, from a boundary.
AcceptorHolds ==
  accPc # "idle" =>
    /\ InTurn(accBatch) /\ ~Accepted(accBatch) /\ accStart \in Boundaries
    /\ Consuming => \A p \in Partitions : accStart[p] <= accNext[p]
    /\ Holding => Current.id \in IdsOf(accBatch)

ObservedOnBroker == \A x \in observed : x.off < Len(log[x.part]) /\ LogAt(x.part, x.off) = x.id

\* Ranges follow each other from the fence to the committed offsets.
RangesOrdered ==
  /\ \A s \in sealed, p \in Partitions : s.start[p] <= s.end[p]
  /\ \A s, t \in sealed : s.batch < t.batch => \A p \in Partitions : s.end[p] <= t.start[p]
  /\ \A f \in fence, s \in sealed, p \in Partitions : f[p] <= s.start[p]

TurnInv ==
  /\ PublishersHold /\ SentInTurn /\ AcceptorHolds /\ ObservedOnBroker
  /\ EvidenceStaysValid /\ RangesOrdered /\ SealedContiguous

LEMMA BatchFacts ==
  /\ \A b \in Batches : IdsOf(b) # {} /\ IdsOf(b) \subseteq Ids /\ b \in Nat /\ 1 <= b
  /\ \A b, c \in Batches : \A id : id \in IdsOf(b) /\ id \in IdsOf(c) => b = c
<1>1. ASSUME NEW b \in Batches PROVE IdsOf(b) # {} /\ IdsOf(b) \subseteq Ids /\ b \in Nat /\ 1 <= b
  <2>1. Records[b] \in Seq(Ids) /\ Records[b] # <<>>
    BY TransportAssumption DEF TransportAssumption
  <2>2. 1 \in DOMAIN Records[b]
    BY <2>1
  <2>3. Records[b][1] \in IdsOf(b)
    BY <2>2 DEF IdsOf
  <2> QED  BY <2>3, IdsOfType, TransportAssumption DEF TransportAssumption, Batches
<1>2. \A b, c \in Batches : \A id : id \in IdsOf(b) /\ id \in IdsOf(c) => b = c
  BY BatchesDisjoint DEF IdsOf
<1> QED  BY <1>1, <1>2

\* Acceptances and boundaries are never removed; only Seal accepts.
LEMMA SealedFrame ==
  ASSUME [Next]_vars
  PROVE  \/ sealed' = sealed
         \/ /\ Seal /\ VerifyEvidence(accBatch, accStart, accEnd)
            /\ sealed' = sealed \cup {[batch |-> accBatch, start |-> accStart, end |-> accEnd]}
  BY DEF Next, Publish, PublisherFails, Accept, vars, ClaimFence, CommitFence,
         Authorize, OpenAttempt, StartAttempt, Send, NoteDelivery, RecordAck,
         CompleteAttempt, SendUncertain, KillPublisher, KillInClaim, Land, AppendForeign,
         Expire, OpenAccept, Fence, Receive, Observe, RecordTry, Commit, Seal,
         KillAcceptor, KillInStoreClaim

LEMMA TurnsStay ==
  ASSUME [Next]_vars
  PROVE  /\ sealed \subseteq sealed' /\ Boundaries \subseteq Boundaries'
         /\ \A b : Accepted(b) => \E s \in sealed' : s.batch = b
         /\ \A b : InTurn(b) => \A c \in 1..(b - 1) : \E s \in sealed' : s.batch = c
<1>1. sealed \subseteq sealed'
  BY SealedFrame
<1>2. fence \subseteq fence'
  BY FenceFrame
<1> QED  BY <1>1, <1>2 DEF Boundaries, Accepted, InTurn

-----------------------------------------------------------------------------
(* What publishers hold. *)

Carries(q) == <<pubPc[q], pubBatch[q], pubQueue[q], pubAt[q]>>

LEMMA CarriedStays ==
  ASSUME [Next]_vars, NEW q \in Publishers, PublisherHolds(q), Carries(q)' = Carries(q)
  PROVE  PublisherHolds(q)'
<1>1. /\ pubPc'[q] = pubPc[q] /\ pubBatch'[q] = pubBatch[q]
      /\ pubQueue'[q] = pubQueue[q] /\ pubAt'[q] = pubAt[q]
  BY DEF Carries
<1>2. InTurn(pubBatch[q]) => InTurn(pubBatch[q])'
  BY <1>1, TurnsStay DEF InTurn, Accepted
<1> QED  BY <1>1, <1>2 DEF PublisherHolds

LEMMA ExitHolds ==
  ASSUME TypeOK, NEW q \in Publishers, PubExit(q)
  PROVE  PublisherHolds(q)' /\ \A r \in Publishers : r # q => Carries(r)' = Carries(r)
<1>1. /\ pubPc'[q] = "idle" /\ pubQueue'[q] = {} /\ pubAt'[q] = {}
  BY DEF TypeOK, PubExit
<1>2. \A r \in Publishers : r # q => Carries(r)' = Carries(r)
  BY DEF TypeOK, PubExit, Carries
<1> QED  BY <1>1, <1>2 DEF PublisherHolds

LEMMA PublisherStep ==
  ASSUME IInv, PublishersHold, [Next]_vars, NEW q \in Publishers, Publish(q) \/ PublisherFails(q)
  PROVE  PublisherHolds(q)' /\ \A r \in Publishers : r # q => Carries(r)' = Carries(r)
<1> USE DEF IInv
<1>0. PublisherHolds(q)
  BY DEF PublishersHold
<1>1. ASSUME NEW b \in Batches, Authorize(q, b)
      PROVE  PublisherHolds(q)' /\ \A r \in Publishers : r # q => Carries(r)' = Carries(r)
  <2>1. /\ pubPc' = [pubPc EXCEPT ![q] = "authorized"] /\ pubBatch' = [pubBatch EXCEPT ![q] = b]
        /\ UNCHANGED <<pubQueue, pubAt, sealed>> /\ pubPc[q] = "idle" /\ EarliestUnaccepted(b)
    BY <1>1 DEF Authorize
  <2>2. pubPc'[q] = "authorized" /\ pubBatch'[q] = b /\ pubQueue'[q] = {} /\ pubAt'[q] = {}
    BY <1>0, <2>1 DEF TypeOK, PublisherHolds
  <2>3. InTurn(b)
    BY <2>1 DEF EarliestUnaccepted, InTurn
  <2> QED  BY <2>1, <2>2, <2>3 DEF TypeOK, PublisherHolds, Carries, InTurn, Accepted
<1>2. ASSUME NEW replay \in BOOLEAN, NEW m \in Bounds, OpenAttempt(q, replay, m)
      PROVE  PublisherHolds(q)' /\ \A r \in Publishers : r # q => Carries(r)' = Carries(r)
  <2> DEFINE b == pubBatch[q]
             pending == {i \in IdsOf(b) : replay \/ i \notin Acknowledged(b)}
  <2>1. CASE PubExit(q)
    BY <2>1, ExitHolds
  <2>2. CASE ~PubExit(q)
    <3>1. /\ pubPc' = [pubPc EXCEPT ![q] = "opening"]
          /\ pubQueue' = [pubQueue EXCEPT ![q] = FirstFew(b, pending, m)]
          /\ UNCHANGED <<pubBatch, pubAt, sealed>> /\ pubPc[q] = "authorized"
      BY <1>2, <2>2 DEF OpenAttempt
    <3>2. FirstFew(b, pending, m) \subseteq IdsOf(b)
      BY DEF FirstFew
    <3> HIDE DEF pending
    <3>3. /\ pubPc'[q] = "opening" /\ pubBatch'[q] = b /\ pubQueue'[q] \subseteq IdsOf(b)
          /\ pubAt'[q] = {} /\ InTurn(b)
      BY <1>0, <3>1, <3>2 DEF TypeOK, PublisherHolds
    <3>4. InTurn(b)'
      BY <3>1, <3>3 DEF InTurn, Accepted
    <3> QED  BY <3>1, <3>3, <3>4 DEF TypeOK, PublisherHolds, Carries
  <2> QED  BY <2>1, <2>2
<1>3. ASSUME NEW s \in {"sending", "noted"}, pubPc' = [pubPc EXCEPT ![q] = s],
             pubPc[q] \notin {"idle", "authorized"}, UNCHANGED <<pubBatch, pubQueue, pubAt, sealed>>
      PROVE  PublisherHolds(q)' /\ \A r \in Publishers : r # q => Carries(r)' = Carries(r)
  BY <1>0, <1>3 DEF TypeOK, PublisherHolds, Carries, InTurn, Accepted
<1>4. CASE StartAttempt(q) \/ NoteDelivery(q)
  BY <1>3, <1>4 DEF StartAttempt, NoteDelivery
<1>5. CASE Send(q)
  <2>1. PICK id \in NextToSend(q) :
          pubAt' = [pubAt EXCEPT ![q] =
                {[id |-> id, part |-> PartitionOf[id], off |-> Len(log[PartitionOf[id]])]}]
    BY <1>5 DEF Send
  <2>2. /\ pubPc' = [pubPc EXCEPT ![q] = "acked"] /\ pubPc[q] = "sending"
        /\ UNCHANGED <<pubBatch, pubQueue, sealed>>
    BY <1>5 DEF Send
  <2>3. id \in IdsOf(pubBatch[q])
    BY <1>0 DEF NextToSend, PublisherHolds
  <2>4. \A c \in pubAt'[q] : c.id \in IdsOf(pubBatch[q])
    BY <2>1, <2>3 DEF TypeOK
  <2>5. PublisherHolds(q)'
    BY <1>0, <2>2, <2>4 DEF TypeOK, PublisherHolds, InTurn, Accepted
  <2> QED  BY <2>1, <2>2, <2>5 DEF TypeOK, Carries
<1>6. CASE RecordAck(q)
  <2>1. CASE PubExit(q)
    BY <2>1, ExitHolds
  <2>2. CASE ~PubExit(q)
    <3>1. /\ pubQueue' = [pubQueue EXCEPT ![q] = @ \ {c.id : c \in pubAt[q]}]
          /\ pubAt' = [pubAt EXCEPT ![q] = {}]
          /\ pubPc' = [pubPc EXCEPT ![q] = "sending"] /\ pubPc[q] = "noted"
          /\ UNCHANGED <<pubBatch, sealed>>
      BY <1>6, <2>2 DEF RecordAck
    <3>2. /\ pubPc'[q] = "sending" /\ pubBatch'[q] = pubBatch[q] /\ pubAt'[q] = {} /\ pubQueue'[q] \subseteq pubQueue[q]
      BY <3>1 DEF TypeOK
    <3>3. PublisherHolds(q)'
      BY <1>0, <3>1, <3>2 DEF PublisherHolds, InTurn, Accepted
    <3> QED  BY <3>1, <3>3 DEF TypeOK, Carries
  <2> QED  BY <2>1, <2>2
<1>7. CASE CompleteAttempt(q) \/ PublisherFails(q)
  <2>1. PubExit(q)
    BY <1>7 DEF CompleteAttempt, PublisherFails, SendUncertain, KillPublisher, KillInClaim
  <2> QED  BY <2>1, ExitHolds
<1> QED  BY <1>1, <1>2, <1>4, <1>5, <1>6, <1>7 DEF Publish

LEMMA PublishersStep ==
  ASSUME IInv, PublishersHold, [Next]_vars
  PROVE  PublishersHold'
<1>1. ASSUME NEW r \in Publishers PROVE PublisherHolds(r)'
  <2>1. CASE \E q \in Publishers : Publish(q) \/ PublisherFails(q)
    BY <2>1, PublisherStep, CarriedStays DEF PublishersHold
  <2>2. CASE UNCHANGED pubVars
    BY <2>2, CarriedStays DEF PublishersHold, Carries, pubVars
  <2>3. (\E q \in Publishers : Publish(q) \/ PublisherFails(q)) \/ UNCHANGED pubVars
    BY DEF Next, Accept, vars, ClaimFence, CommitFence, Land, AppendForeign, Expire,
         OpenAccept, Fence, Receive, Observe, RecordTry, Commit, Seal, KillAcceptor,
         KillInStoreClaim
  <2> QED  BY <2>1, <2>2, <2>3
<1> QED  BY <1>1 DEF PublishersHold

-----------------------------------------------------------------------------
(* Acknowledgements and sends are of batches in turn.                      *)

LEMMA AcknowledgedInTurn ==
  ASSUME SentInTurn, NEW b \in Batches, Acknowledged(b) # {}
  PROVE  InTurn(b)
<1>1. PICK a \in acks : a.id \in IdsOf(b)
  BY DEF Acknowledged
<1>2. PICK c \in Batches : a.id \in IdsOf(c) /\ InTurn(c)
  BY DEF SentInTurn, IdInTurn
<1> QED  BY <1>1, <1>2, BatchFacts

\* What is new in the acknowledgements and in limbo comes from a publisher at work.
LEMMA AckFromHolder ==
  ASSUME IInv, PublishersHold, [Next]_vars, NEW a \in acks', a \notin acks
  PROVE  IdInTurn(a.id)
<1>1. PICK q \in Publishers : a \in pubAt[q] /\ pubPc[q] # "idle"
  BY AckOrigin DEF IInv
<1> QED  BY <1>1 DEF PublishersHold, PublisherHolds, IdInTurn, IInv, TypeOK

LEMMA LimboFromHolder ==
  ASSUME IInv, PublishersHold, [Next]_vars, NEW id \in limbo', id \notin limbo
  PROVE  IdInTurn(id)
<1>1. \/ limbo' \subseteq limbo
      \/ \E q \in Publishers : SendUncertain(q)
  BY DEF Next, Publish, PublisherFails, Accept, vars, brokerVars, ClaimFence, CommitFence,
         Authorize, OpenAttempt, StartAttempt, Send, NoteDelivery, RecordAck, CompleteAttempt,
         KillPublisher, KillInClaim, Land, AppendForeign, Expire, OpenAccept, Fence, Receive, Observe,
         RecordTry, Commit, Seal, KillAcceptor, KillInStoreClaim
<1>2. PICK q \in Publishers : SendUncertain(q)
  BY <1>1
<1>3. pubPc[q] = "sending" /\ id \in NextToSend(q)
  BY <1>2 DEF SendUncertain
<1>4. id \in IdsOf(pubBatch[q]) /\ InTurn(pubBatch[q])
  BY <1>3 DEF PublishersHold, PublisherHolds, NextToSend
<1> QED  BY <1>4 DEF IdInTurn, IInv, TypeOK

LEMMA SentStep ==
  ASSUME IInv, PublishersHold, SentInTurn, AcceptorHolds, [Next]_vars
  PROVE  SentInTurn'
<1>1. ASSUME NEW a \in acks' PROVE IdInTurn(a.id)
  BY AckFromHolder DEF SentInTurn
<1>2. ASSUME NEW id \in limbo' PROVE IdInTurn(id)
  BY LimboFromHolder DEF SentInTurn
<1>3. ASSUME NEW s \in sealed' PROVE InTurn(s.batch)
  <2>1. CASE s \in sealed
    BY <2>1 DEF SentInTurn
  <2>2. CASE s \notin sealed
    <3>1. s = [batch |-> accBatch, start |-> accStart, end |-> accEnd] /\ Seal
      BY <2>2, SealedFrame
    <3>2. s.batch = accBatch /\ accPc # "idle"
      BY <3>1 DEF Seal
    <3> QED  BY <3>2 DEF AcceptorHolds
  <2> QED  BY <2>1, <2>2
<1>4. ASSUME NEW a \in acks' PROVE \E b \in Batches : a.id \in IdsOf(b) /\ \A c \in 1..(b - 1) : \E s \in sealed' : s.batch = c
  <2>1. PICK b \in Batches : a.id \in IdsOf(b) /\ InTurn(b)
    BY <1>1 DEF IdInTurn
  <2> QED  BY <2>1, TurnsStay
<1>5. ASSUME NEW id \in limbo' PROVE \E b \in Batches : id \in IdsOf(b) /\ \A c \in 1..(b - 1) : \E s \in sealed' : s.batch = c
  <2>1. PICK b \in Batches : id \in IdsOf(b) /\ InTurn(b)
    BY <1>2 DEF IdInTurn
  <2> QED  BY <2>1, TurnsStay
<1>6. ASSUME NEW s \in sealed' PROVE \A c \in 1..(s.batch - 1) : \E t \in sealed' : t.batch = c
  BY <1>3, TurnsStay
<1> QED  BY <1>4, <1>5, <1>6 DEF SentInTurn, IdInTurn, InTurn, Accepted, IdsOf

-----------------------------------------------------------------------------
(* The acceptor. *)

LEMMA AcceptorStep ==
  ASSUME IInv, SentInTurn, AcceptorHolds, [Next]_vars
  PROVE  AcceptorHolds'
<1> USE DEF IInv
<1>1. SUFFICES ASSUME accPc' # "idle" PROVE AcceptorHolds'
  BY DEF AcceptorHolds
<1>2. sealed' = sealed
  BY <1>1, SealedFrame DEF Seal, AccExit
<1>3. Boundaries \subseteq Boundaries'
  BY TurnsStay
<1>4. ~AccExit
  BY <1>1 DEF AccExit
<1>5. \A p \in Partitions : accNext[p] \in Nat /\ accStart[p] \in Nat
  BY DEF TypeOK, Offsets
<1>6. CASE accPc # "idle" /\ accBatch' = accBatch /\ accStart' = accStart
  <2>1. InTurn(accBatch)' /\ ~Accepted(accBatch)' /\ accStart' \in Boundaries'
    BY <1>2, <1>3, <1>6 DEF AcceptorHolds, Accepted, InTurn
  <2>2. ASSUME Consuming', NEW p \in Partitions PROVE accStart'[p] <= accNext'[p]
    <3>1. CASE Consuming /\ accNext' = accNext
      BY <1>6, <3>1 DEF AcceptorHolds
    <3>2. CASE Fence
      BY <1>4, <1>6, <3>2 DEF Fence
    <3>3. CASE Commit
      BY <1>5, <1>6, <3>3 DEF Commit, AcceptorHolds, Consuming, TypeOK, Offsets
    <3>4. (Consuming /\ accNext' = accNext) \/ Fence \/ Commit
      BY <1>4, <1>6, <2>2, ConsumerFrame DEF Undisturbed, accVars, CommitFence, OpenAccept, Receive, Observe, RecordTry, Consuming
    <3> QED  BY <3>1, <3>2, <3>3, <3>4
  <2>3. ASSUME Holding' PROVE Current'.id \in IdsOf(accBatch')
    <3>1. CASE Holding /\ UNCHANGED <<accPart, accNext>>
      <4>1. Current' = Current
        BY <3>1, CurrentStays
      <4> QED  BY <1>6, <3>1, <4>1 DEF AcceptorHolds
    <3>2. ASSUME NEW p \in Partitions, Receive(p) PROVE Current'.id \in IdsOf(accBatch')
      <4>1. Receivable(p) /\ accPart' = p /\ UNCHANGED <<accNext, accBatch, log>>
        BY <1>4, <3>2 DEF Receive, brokerVars
      <4>2. Current'.id = NextId(p)
        BY <4>1 DEF Current, CopyAt, NextId
      <4> QED  BY <4>1, <4>2 DEF Receivable
    <3>3. (Holding /\ UNCHANGED <<accPart, accNext>>) \/ \E p \in Partitions : Receive(p)
      BY <1>4, <1>6, <2>3, ConsumerFrame DEF Undisturbed, accVars, CommitFence, OpenAccept, Fence, Observe, RecordTry, Commit, Holding
    <3> QED  BY <3>1, <3>2, <3>3
  <2> QED  BY <2>1, <2>2, <2>3 DEF AcceptorHolds
<1>7. ASSUME NEW b \in Batches, NEW start \in Boundaries, NEW m \in Bounds, OpenAccept(b, start, m)
      PROVE  AcceptorHolds'
  <2>1. Acceptable(b, start)
    BY <1>1, <1>7 DEF OpenAccept, accVars
  <2>2. /\ accPc' = "fencing" /\ accBatch' = b /\ accStart' = start /\ ~Accepted(b)
    BY <1>7, <2>1 DEF OpenAccept, Acceptable
  <2>3. InTurn(b)
    BY <2>1, AcknowledgedInTurn, BatchFacts DEF Acceptable
  <2> QED  BY <1>2, <1>3, <2>2, <2>3 DEF AcceptorHolds, Consuming, Holding, Accepted, InTurn
<1>8. \/ accPc # "idle" /\ accBatch' = accBatch /\ accStart' = accStart
      \/ \E b \in Batches, start \in Boundaries, m \in Bounds : OpenAccept(b, start, m)
  BY <1>1, <1>4, ConsumerFrame DEF Undisturbed, accVars, CommitFence, Fence, Receive, Observe, RecordTry, Commit
<1> QED  BY <1>6, <1>7, <1>8

LEMMA ObservedFrame ==
  ASSUME [Next]_vars
  PROVE  observed' = observed \/ (Holding /\ observed' = observed \cup {Current})
<1>1. KillInStoreClaim => observed' = observed \/ (Holding /\ observed' = observed \cup {Current})
  BY DEF KillInStoreClaim, Holding
<1>2. Observe => Holding /\ observed' = observed \cup {Current}
  BY DEF Observe, Holding
<1>3. observed' = observed \/ Observe \/ KillInStoreClaim
  BY DEF Next, Publish, PublisherFails, Accept, vars, storeVars, ClaimFence, CommitFence,
      Authorize, OpenAttempt, StartAttempt, Send, NoteDelivery, RecordAck, CompleteAttempt,
      SendUncertain, KillPublisher, KillInClaim, Land, AppendForeign, Expire, OpenAccept,
      Fence, Receive, RecordTry, Commit, Seal, KillAcceptor
<1> QED  BY <1>1, <1>2, <1>3

LEMMA ObservedBrokerStep ==
  ASSUME IInv, ObservedOnBroker, [Next]_vars
  PROVE  ObservedOnBroker'
<1> USE DEF IInv
<1> SUFFICES ASSUME NEW x \in observed'
             PROVE  x.off < Len(log'[x.part]) /\ log'[x.part][x.off + 1] = x.id
  BY DEF ObservedOnBroker, LogAt
<1>1. x.off < Len(log[x.part]) /\ log[x.part][x.off + 1] = x.id /\ x \in Copies
  <2>1. CASE x \in observed
    BY <2>1 DEF ObservedOnBroker, LogAt, TypeOK
  <2>2. CASE x \notin observed
    <3>1. x = Current /\ Holding
      BY <2>2, ObservedFrame
    <3>2. x \in Copies
      BY <3>1, CurrentType
    <3>3. /\ accPart \in Partitions /\ accNext[accPart] \in Nat /\ accEnd[accPart] \in Nat
          /\ Len(log[accPart]) \in Nat
      BY DEF TypeOK, Offsets
    <3>4. accNext[accPart] < accEnd[accPart] /\ accEnd[accPart] <= Len(log[accPart])
      BY <3>1, <3>3 DEF ConsumerHolds, ConsumerProgress, Holding, Consuming
    <3> QED  BY <3>1, <3>2, <3>3, <3>4 DEF Current, CopyAt, NextId
  <2> QED  BY <2>1, <2>2
<1>2. Len(log[x.part]) \in Nat /\ Len(log'[x.part]) \in Nat
  BY <1>1, TypeStep DEF TypeOK, Copies
<1> QED  BY <1>1, <1>2, StepGrows DEF LogGrows, Copies

-----------------------------------------------------------------------------
(* The evidence of a batch that is accepted is closed: its ids are all     *)
(* acknowledged and receipted, and no later command observes one.          *)

LEMMA AckNew ==
  ASSUME IInv, [Next]_vars
  PROVE  acks \subseteq acks' /\ \A a \in acks', x \in acks : a \notin acks => a.id # x.id
<1>1. \A q \in Publishers : RecordAck(q) => acks' = acks \/ (~AckConflict(q) /\ acks' = acks \cup pubAt[q])
  BY DEF RecordAck
<1>2. \A q \in Publishers : KillInClaim(q) => acks' = acks \/ (~AckConflict(q) /\ acks' = acks \cup pubAt[q])
  BY DEF KillInClaim
<1>3. acks' = acks \/ \E q \in Publishers : RecordAck(q) \/ KillInClaim(q)
  BY DEF Next, Publish, PublisherFails, Accept, vars, journalVars, ClaimFence, CommitFence,
         Authorize, OpenAttempt, StartAttempt, Send, NoteDelivery, CompleteAttempt,
         SendUncertain, KillPublisher, Land, AppendForeign, Expire, OpenAccept, Fence,
         Receive, Observe, RecordTry, Commit, Seal, KillAcceptor, KillInStoreClaim
<1> QED  BY <1>1, <1>2, <1>3 DEF AckConflict

LEMMA EvidenceStays ==
  ASSUME NEW b, NEW start, NEW end, VerifyEvidence(b, start, end),
         receipts \subseteq receipts', observed \subseteq observed', acks \subseteq acks',
         \A x \in observed' : x.id \in IdsOf(b) => x \in observed,
         \A a \in acks' : a.id \in IdsOf(b) => a \in acks
  PROVE  VerifyEvidence(b, start, end)'
<1>1. IdsOf(b)' = IdsOf(b) /\ Between(start, end)' = Between(start, end)
  BY DEF IdsOf, Between
<1>2. ObservedOf(b)' = ObservedOf(b)
  BY <1>1 DEF ObservedOf
<1>3. ReceiptIds(b)' = IdsOf(b) /\ Acknowledged(b)' = IdsOf(b)
  BY <1>1 DEF VerifyEvidence, ReceiptIds, Acknowledged
<1> QED  BY <1>1, <1>2, <1>3 DEF VerifyEvidence

LEMMA EvidenceStep ==
  ASSUME IInv, SentInTurn, AcceptorHolds, EvidenceStaysValid, [Next]_vars
  PROVE  EvidenceStaysValid'
<1> USE DEF IInv
<1> SUFFICES ASSUME NEW s \in sealed'
             PROVE  /\ VerifyEvidence(s.batch, s.start, s.end)'
                    /\ \A p \in Partitions : s.end[p] <= committed'[p]
  BY DEF EvidenceStaysValid
<1>1. /\ s.batch \in Batches /\ s.start \in Offsets /\ s.end \in Offsets
  BY TypeStep DEF TypeOK
<1>2. \A p \in Partitions : /\ committed[p] \in Nat \cup {NoOffset} /\ committed'[p] \in Nat \cup {NoOffset}
                           /\ s.end[p] \in Nat
  BY <1>1, TypeStep DEF TypeOK, Offsets
<1>3. CASE s \in sealed
  <2>1. PICK b, start, end : b = s.batch /\ start = s.start /\ end = s.end
    OBVIOUS
  <2>2. VerifyEvidence(b, start, end) /\ \A p \in Partitions : s.end[p] <= committed[p]
    BY <1>3, <2>1 DEF EvidenceStaysValid
  <2>3. \A a \in acks' : a.id \in IdsOf(b) => a \in acks
    BY <2>2, AckNew DEF VerifyEvidence, Acknowledged
  <2>4. \A x \in observed' : x.id \in IdsOf(b) => x \in observed
    <3>1. SUFFICES ASSUME NEW x \in observed', x.id \in IdsOf(b), x \notin observed PROVE FALSE
      OBVIOUS
    <3>2. x = Current /\ Holding
      BY <3>1, ObservedFrame
    <3>3. x.id \in IdsOf(accBatch) /\ ~Accepted(accBatch) /\ accBatch \in Batches
      BY <3>2 DEF AcceptorHolds, Holding, TypeOK
    <3> QED  BY <1>1, <1>3, <2>1, <3>1, <3>3, BatchFacts DEF Accepted
  <2>5. VerifyEvidence(b, start, end)'
    BY <2>2, <2>3, <2>4, StoreGrows, AckNew, EvidenceStays
  <2>6. \A p \in Partitions : s.end[p] <= committed'[p]
    BY <1>2, <2>2, CommittedGrows DEF NoOffset
  <2> QED  BY <2>1, <2>5, <2>6
<1>4. CASE s \notin sealed
  <2>1. Seal /\ VerifyEvidence(accBatch, accStart, accEnd) /\ s = [batch |-> accBatch, start |-> accStart, end |-> accEnd]
    BY <1>4, SealedFrame
  <2>2. PICK b, start, end : b = accBatch /\ start = accStart /\ end = accEnd
    OBVIOUS
  <2>3. UNCHANGED <<receipts, observed, acks, committed>> /\ accPc = "polling" /\ accNext = accEnd
    BY <2>1 DEF Seal, storeVars, journalVars, brokerVars
  <2>4. VerifyEvidence(b, start, end)'
    BY <2>1, <2>2, <2>3, EvidenceStays
  <2>5. \A p \in Partitions : accEnd[p] <= committed[p]
    BY <2>3 DEF ConsumerProgress, Consuming, TypeOK, Offsets
  <2> QED  BY <2>1, <2>2, <2>3, <2>4, <2>5
<1> QED  BY <1>3, <1>4

-----------------------------------------------------------------------------
(* A range is sealed only from the end of the one before it.  The operator *)
(* may name the boundary of any earlier batch, but then the range would    *)
(* hold coordinates at which ids of another batch were observed.           *)

LEMMA BetweenMember ==
  ASSUME NEW start, NEW end, NEW p, NEW o
  PROVE  <<p, o>> \in Between(start, end) <=> p \in Partitions /\ o \in start[p]..(end[p] - 1)
  BY DEF Between

LEMMA SealFollows ==
  ASSUME IInv, TurnInv, Seal, VerifyEvidence(accBatch, accStart, accEnd)
  PROVE  /\ \A s \in sealed : s.batch < accBatch
         /\ \A p \in Partitions : accStart[p] <= accEnd[p]
         /\ \A s \in sealed, p \in Partitions : s.end[p] <= accStart[p]
         /\ \A f \in fence, p \in Partitions : f[p] <= accStart[p]
         /\ IF accBatch = 1 THEN accStart \in fence
            ELSE \E t \in sealed : t.batch = accBatch - 1 /\ t.end = accStart
<1> USE DEF IInv
<1>1. /\ accPc = "polling" /\ accNext = accEnd /\ accBatch \in Batches /\ accBatch \in Nat /\ 1 <= accBatch
      /\ InTurn(accBatch) /\ ~Accepted(accBatch) /\ accStart \in Boundaries
      /\ \A p \in Partitions : accStart[p] <= accEnd[p]
  BY BatchFacts DEF Seal, TurnInv, AcceptorHolds, Consuming, TypeOK
<1>2. \A p \in Partitions : accStart[p] \in Nat /\ accEnd[p] \in Nat /\ accEnd[p] = committed[p]
  BY <1>1 DEF TypeOK, Offsets, ConsumerProgress, Consuming
<1>3. \A s \in sealed : /\ s.batch \in Batches /\ s.batch \in Nat /\ 1 <= s.batch
                        /\ \A p \in Partitions : s.start[p] \in Nat /\ s.end[p] \in Nat
                        /\ \A p \in Partitions : s.start[p] <= s.end[p] /\ s.end[p] <= accEnd[p]
  BY <1>2, BatchFacts DEF TypeOK, Offsets, TurnInv, RangesOrdered, EvidenceStaysValid
<1>4. \A f \in fence, p \in Partitions : f[p] \in Nat
  BY DEF TypeOK, Offsets
<1>5. ASSUME NEW s \in sealed PROVE s.batch < accBatch
  <2>1. InTurn(s.batch)
    BY DEF TurnInv, SentInTurn
  <2>2. s.batch # accBatch
    BY <1>1 DEF Accepted
  <2>3. CASE accBatch < s.batch
    <3>1. accBatch \in 1..(s.batch - 1)
      BY <1>1, <1>3, <2>3
    <3> QED  BY <1>1, <2>1, <3>1 DEF InTurn
  <2> QED  BY <1>1, <1>3, <2>2, <2>3
<1>6. \A f \in fence, p \in Partitions : f[p] <= accStart[p]
  <2>1. SUFFICES ASSUME NEW f \in fence, NEW p \in Partitions PROVE f[p] <= accStart[p]
    OBVIOUS
  <2>2. CASE accStart \in fence
    BY <1>4, <2>2 DEF FenceUnique
  <2>3. ASSUME NEW t \in sealed, t.end = accStart PROVE f[p] <= accStart[p]
    <3>1. f[p] <= t.start[p]
      BY DEF TurnInv, RangesOrdered
    <3> QED  BY <1>3, <1>4, <2>3, <3>1
  <2> QED  BY <1>1, <2>2, <2>3 DEF Boundaries
<1>7. CASE accBatch = 1
  <2>1. sealed = {}
    BY <1>3, <1>5, <1>7
  <2>2. accStart \in fence
    BY <1>1, <2>1 DEF Boundaries
  <2> QED  BY <1>1, <1>6, <1>7, <2>1, <2>2
<1>8. CASE accBatch # 1
  <2>1. accBatch - 1 \in 1..(accBatch - 1)
    BY <1>1, <1>8
  <2>2. PICK t \in sealed : t.batch = accBatch - 1
    BY <1>1, <2>1 DEF TurnInv, SentInTurn, InTurn, Accepted
  <2>3. ASSUME \A p \in Partitions : accStart[p] <= t.start[p] PROVE FALSE
    <3>1. VerifyEvidence(t.batch, t.start, t.end)
      BY DEF TurnInv, EvidenceStaysValid
    <3>2. PICK x \in ObservedOf(t.batch) : TRUE
      BY <1>3, <3>1, BatchFacts DEF VerifyEvidence
    <3>3. <<x.part, x.off>> \in Between(t.start, t.end)
      BY <3>1 DEF VerifyEvidence
    <3>4. x.part \in Partitions /\ x.off \in t.start[x.part]..(t.end[x.part] - 1)
      BY <3>3, BetweenMember
    <3>5. x.off \in accStart[x.part]..(accEnd[x.part] - 1)
      BY <1>2, <1>3, <2>3, <3>4
    <3>6. <<x.part, x.off>> \in Between(accStart, accEnd)
      BY <3>4, <3>5, BetweenMember
    <3>7. PICK y \in ObservedOf(accBatch) : <<y.part, y.off>> = <<x.part, x.off>>
      BY <3>6 DEF VerifyEvidence
    <3>8. x.id = y.id
      BY <3>7 DEF ObservedOf, TurnInv, ObservedOnBroker
    <3>9. x.id \in IdsOf(t.batch) /\ x.id \in IdsOf(accBatch)
      BY <3>8 DEF ObservedOf
    <3> QED  BY <1>1, <1>3, <2>2, <3>9, BatchFacts
  <2>4. accStart \notin fence
    BY <2>3 DEF TurnInv, RangesOrdered
  <2>5. PICK u \in sealed : u.end = accStart
    BY <1>1, <2>4 DEF Boundaries
  <2>6. u.batch = t.batch
    <3>1. u.batch <= t.batch
      BY <1>1, <1>3, <1>5, <2>2
    <3>2. ~(u.batch < t.batch)
      BY <2>3, <2>5 DEF TurnInv, RangesOrdered
    <3> QED  BY <1>3, <3>1, <3>2
  <2>7. t.end = accStart
    BY <2>5, <2>6 DEF TurnInv, SealedContiguous
  <2>8. ASSUME NEW s \in sealed, NEW p \in Partitions PROVE s.end[p] <= accStart[p]
    <3>1. CASE s.batch = t.batch
      <4>1. s = t
        BY <3>1 DEF TurnInv, SealedContiguous
      <4> QED  BY <1>2, <2>7, <4>1
    <3>2. CASE s.batch # t.batch
      <4>1. s.batch < t.batch
        BY <1>1, <1>3, <1>5, <2>2, <3>2
      <4>2. s.end[p] <= t.start[p]
        BY <4>1 DEF TurnInv, RangesOrdered
      <4> QED  BY <1>3, <2>7, <4>2
    <3> QED  BY <3>1, <3>2
  <2> QED  BY <1>1, <1>5, <1>6, <1>8, <2>2, <2>7, <2>8
<1> QED  BY <1>7, <1>8

LEMMA RangesStep ==
  ASSUME IInv, TurnInv, [Next]_vars
  PROVE  RangesOrdered' /\ SealedContiguous'
<1> USE DEF IInv
<1>1. CASE sealed' = sealed /\ fence' = fence
  BY <1>1 DEF TurnInv, RangesOrdered, SealedContiguous
<1>2. CASE sealed' = sealed /\ fence' # fence
  <2>1. fence = {} /\ Uncommitted
    BY <1>2, FenceFrame
  <2>2. ASSUME NEW s \in sealed PROVE FALSE
    <3>1. NoPart \in Partitions
      BY NoPartType
    <3>2. s.end[NoPart] \in Nat /\ s.end[NoPart] <= committed[NoPart] /\ committed[NoPart] = NoOffset
      BY <2>1, <3>1 DEF Uncommitted, TurnInv, EvidenceStaysValid, TypeOK, Offsets
    <3> QED  BY <3>2 DEF NoOffset
  <2> QED  BY <1>2, <2>2 DEF RangesOrdered, SealedContiguous
<1>3. CASE sealed' # sealed
  <2> DEFINE new == [batch |-> accBatch, start |-> accStart, end |-> accEnd]
  <2>1. /\ Seal /\ VerifyEvidence(accBatch, accStart, accEnd) /\ sealed' = sealed \cup {new}
    BY <1>3, SealedFrame
  <2>2. fence' = fence
    BY <2>1 DEF Seal
  <2>3. new.batch = accBatch /\ new.start = accStart /\ new.end = accEnd
    OBVIOUS
  <2>4. /\ \A s \in sealed : s.batch < new.batch
        /\ \A p \in Partitions : new.start[p] <= new.end[p]
        /\ \A s \in sealed, p \in Partitions : s.end[p] <= new.start[p]
        /\ \A f \in fence, p \in Partitions : f[p] <= new.start[p]
        /\ IF new.batch = 1 THEN new.start \in fence
           ELSE \E t \in sealed : t.batch = new.batch - 1 /\ t.end = new.start
    BY <2>1, <2>3, SealFollows
  <2>5. new.batch \in Nat /\ \A s \in sealed : s.batch \in Nat
    BY <2>3, BatchFacts DEF TypeOK
  <2> HIDE DEF new
  <2>6. \A s, t \in sealed' : s.batch < t.batch => s \in sealed
    BY <2>1, <2>4, <2>5
  <2>7. RangesOrdered'
    BY <2>1, <2>2, <2>4, <2>6 DEF TurnInv, RangesOrdered
  <2>8. \A s, t \in sealed' : s.batch = t.batch => s = t
    BY <2>1, <2>4, <2>5 DEF TurnInv, SealedContiguous
  <2>9. \A s \in sealed' : IF s.batch = 1 THEN s.start \in fence'
                          ELSE \E t \in sealed' : t.batch = s.batch - 1 /\ t.end = s.start
    BY <2>1, <2>2, <2>4 DEF TurnInv, SealedContiguous
  <2> QED  BY <2>7, <2>8, <2>9 DEF SealedContiguous
<1> QED  BY <1>1, <1>2, <1>3

LEMMA InitTurns == Init => TurnInv
<1> SUFFICES ASSUME Init PROVE TurnInv
  OBVIOUS
<1>1. PublishersHold /\ SentInTurn /\ AcceptorHolds /\ ObservedOnBroker
  BY DEF Init, PublishersHold, PublisherHolds, SentInTurn, AcceptorHolds, ObservedOnBroker
<1>2. EvidenceStaysValid /\ RangesOrdered /\ SealedContiguous
  BY DEF Init, EvidenceStaysValid, RangesOrdered, SealedContiguous
<1> QED  BY <1>1, <1>2 DEF TurnInv

LEMMA NextTurns == IInv /\ TurnInv /\ [Next]_vars => TurnInv'
<1> SUFFICES ASSUME IInv, TurnInv, [Next]_vars PROVE TurnInv'
  OBVIOUS
<1> QED
  BY PublishersStep, SentStep, AcceptorStep, ObservedBrokerStep, EvidenceStep, RangesStep DEF TurnInv

LEMMA TurnInvariance == Spec => [](IInv /\ TurnInv)
  BY InitInvariant, NextInvariant, InitTurns, NextTurns, PTL DEF Spec

\* What accept verified of a batch is exactly the records of the batch in the
\* sealed range, and every later check still verifies it, whatever is sent
\* again, lands late or is killed.
THEOREM AcceptedEvidenceHolds == Spec => []AcceptedEvidence
<1>1. IInv /\ TurnInv => AcceptedEvidence
  <2> SUFFICES ASSUME IInv, TurnInv PROVE SealedExactly
    BY DEF AcceptedEvidence, TurnInv
  <2> SUFFICES ASSUME NEW s \in sealed
               PROVE  {LogAt(c[1], c[2]) : c \in Between(s.start, s.end)} = IdsOf(s.batch)
    BY DEF SealedExactly
  <2>1. VerifyEvidence(s.batch, s.start, s.end)
    BY DEF TurnInv, EvidenceStaysValid
  <2>2. \A x \in ObservedOf(s.batch) : LogAt(x.part, x.off) = x.id /\ x.id \in IdsOf(s.batch)
    BY DEF ObservedOf, TurnInv, ObservedOnBroker
  <2>3. ASSUME NEW c \in Between(s.start, s.end) PROVE LogAt(c[1], c[2]) \in IdsOf(s.batch)
    <3>1. PICK x \in ObservedOf(s.batch) : c = <<x.part, x.off>>
      BY <2>1 DEF VerifyEvidence
    <3> QED  BY <2>2, <3>1
  <2>4. ASSUME NEW id \in IdsOf(s.batch)
        PROVE  \E c \in Between(s.start, s.end) : id = LogAt(c[1], c[2])
    <3>1. PICK x \in ObservedOf(s.batch) : id = x.id
      BY <2>1 DEF VerifyEvidence
    <3>2. <<x.part, x.off>> \in Between(s.start, s.end)
      BY <2>1 DEF VerifyEvidence
    <3> QED  BY <2>2, <3>1, <3>2
  <2> QED  BY <2>3, <2>4
<1> QED  BY <1>1, TurnInvariance, PTL

LEMMA UnderWayInTurn ==
  ASSUME IInv, TurnInv, NEW b \in Batches, UnderWay(b)
  PROVE  InTurn(b)
<1>1. CASE \E q \in Publishers : pubPc[q] # "idle" /\ pubBatch[q] = b
  BY <1>1 DEF TurnInv, PublishersHold, PublisherHolds
<1>2. CASE Acknowledged(b) # {}
  BY <1>2, AcknowledgedInTurn DEF TurnInv
<1>3. CASE limbo \cap IdsOf(b) # {}
  <2>1. PICK id \in limbo : id \in IdsOf(b)
    BY <1>3
  <2>2. PICK c \in Batches : id \in IdsOf(c) /\ InTurn(c)
    BY DEF TurnInv, SentInTurn, IdInTurn
  <2> QED  BY <2>1, <2>2, BatchFacts
<1> QED  BY <1>1, <1>2, <1>3 DEF UnderWay

\* Batches take turns: each is sealed once, from where the one before it ended,
\* whichever boundary the operator names, and at most one that is not accepted
\* is being published, whatever journals an early accept has left.
THEOREM BatchesTakeTurnsHolds == Spec => []BatchesTakeTurns
<1>1. IInv /\ TurnInv => BatchesTakeTurns
  <2> SUFFICES ASSUME IInv, TurnInv PROVE OnePublished
    BY DEF BatchesTakeTurns, TurnInv
  <2> SUFFICES ASSUME NEW b \in Batches, NEW c \in Batches, UnderWay(b), UnderWay(c),
                      ~Accepted(b), ~Accepted(c)
               PROVE  b = c
    BY DEF OnePublished
  <2>1. InTurn(b) /\ InTurn(c) /\ b \in Nat /\ c \in Nat /\ 1 <= b /\ 1 <= c
    BY UnderWayInTurn, BatchFacts
  <2> QED  BY <2>1 DEF InTurn
<1> QED  BY <1>1, TurnInvariance, PTL

-----------------------------------------------------------------------------
(* The lineage implements the abstract delivery.                           *)

\* What reaches the topic is a foreign record or an id of a batch in turn.
LEMMA LogFrame ==
  ASSUME IInv, TurnInv, [Next]_vars
  PROVE  \/ log' = log
         \/ /\ sealed' = sealed
            /\ \/ \E id \in Ids : IdInTurn(id) /\ Append1(PartitionOf[id], id)
               \/ \E p \in Partitions : Append1(p, Foreign)
<1>1. ASSUME NEW q \in Publishers, Send(q) \/ SendUncertain(q), log' # log
      PROVE  \E id \in Ids : IdInTurn(id) /\ Append1(PartitionOf[id], id)
  <2>1. PICK id \in NextToSend(q) : Append1(PartitionOf[id], id)
    BY <1>1 DEF Send, SendUncertain
  <2>2. pubPc[q] = "sending" /\ id \in pubQueue[q]
    BY <1>1 DEF Send, SendUncertain, NextToSend
  <2>3. id \in IdsOf(pubBatch[q]) /\ InTurn(pubBatch[q])
    BY <2>2 DEF TurnInv, PublishersHold, PublisherHolds
  <2>4. id \in Ids /\ pubBatch[q] \in Batches
    BY <2>2 DEF IInv, TypeOK
  <2> QED  BY <2>1, <2>3, <2>4 DEF IdInTurn
<1>2. ASSUME NEW id \in Ids, Land(id)
      PROVE  IdInTurn(id) /\ Append1(PartitionOf[id], id)
  BY <1>2 DEF Land, TurnInv, SentInTurn
<1>3. \A p \in Partitions : AppendForeign(p) => Append1(p, Foreign)
  BY DEF AppendForeign
<1>4. \/ log' = log
      \/ \E q \in Publishers : Send(q) \/ SendUncertain(q)
      \/ \E id \in Ids : Land(id)
      \/ \E p \in Partitions : AppendForeign(p)
  BY DEF Next, Publish, PublisherFails, Accept, vars, brokerVars, ClaimFence, CommitFence,
         Authorize, OpenAttempt, StartAttempt, NoteDelivery, RecordAck, CompleteAttempt,
         KillPublisher, KillInClaim, Expire, OpenAccept, Fence, Receive, Observe, RecordTry,
         Commit, Seal, KillAcceptor, KillInStoreClaim
<1>5. sealed' = sealed \/ log' = log
  BY SealedFrame DEF Seal, brokerVars
<1> QED  BY <1>1, <1>2, <1>3, <1>4, <1>5

LEMMA TopicAppended ==
  ASSUME TypeOK, NEW p \in Partitions, NEW r \in Ids \cup {Foreign}, Append1(p, r)
  PROVE  OnTopic' = IF r \in Ids THEN OnTopic \cup {r} ELSE OnTopic
<1>1. log'[p] = Append(log[p], r) /\ \A s \in Partitions : s # p => log'[s] = log[s]
  BY DEF TypeOK, Append1
<1>2. log[p] \in Seq(Ids \cup {Foreign}) /\ Len(log[p]) \in Nat
  BY DEF TypeOK
<1>3. /\ DOMAIN log[p] = 1..Len(log[p]) /\ DOMAIN log'[p] = 1..(Len(log[p]) + 1)
      /\ log'[p][Len(log[p]) + 1] = r
      /\ \A k \in 1..Len(log[p]) : log'[p][k] = log[p][k]
  BY <1>1, <1>2
<1>4. ASSUME NEW id \in Ids
      PROVE  (\E k \in DOMAIN log'[p] : log'[p][k] = id) <=> (id = r \/ \E k \in DOMAIN log[p] : log[p][k] = id)
  <2>1. 1..(Len(log[p]) + 1) = 1..Len(log[p]) \cup {Len(log[p]) + 1}
    BY <1>2
  <2> QED  BY <1>3, <2>1
<1>5. ASSUME NEW id \in Ids
      PROVE  (\E s \in Partitions : \E k \in DOMAIN log'[s] : log'[s][k] = id)
               <=> (id = r \/ \E s \in Partitions : \E k \in DOMAIN log[s] : log[s][k] = id)
  BY <1>1, <1>4
<1> QED  BY <1>5 DEF OnTopic

\* The notifications of an accepted batch, or of an acknowledged one, are visible.
LEMMA AcknowledgedOnTopic ==
  ASSUME IInv, NEW b \in Batches, Acknowledged(b) = IdsOf(b)
  PROVE  IdsOf(b) \subseteq OnTopic
<1>1. SUFFICES ASSUME NEW id \in IdsOf(b) PROVE id \in OnTopic
  OBVIOUS
<1>2. PICK a \in acks : a.id = id
  BY DEF Acknowledged
<1>3. a.off < Len(log[a.part]) /\ log[a.part][a.off + 1] = id /\ a \in Copies
  BY <1>2 DEF IInv, AckedOnBroker, LogAt, TypeOK
<1>4. log[a.part] \in Seq(Ids \cup {Foreign}) /\ a.off \in Nat /\ a.part \in Partitions
  BY <1>3 DEF IInv, TypeOK, Copies
<1>5. a.off + 1 \in DOMAIN log[a.part]
  BY <1>3, <1>4
<1> QED  BY <1>3, <1>4, <1>5, BatchFacts DEF OnTopic

LEMMA DeliveryStep ==
  ASSUME IInv, TurnInv, [Next]_vars
  PROVE  [Delivery!Next]_(Delivery!vars)
<1> DEFINE accepted == {b \in Batches : Accepted(b)}
<1>1. ASSUME NEW b \in Batches, InTurn(b), ~Accepted(b)
      PROVE  b \notin accepted /\ \A c \in 1..(b - 1) : c \in accepted
  BY <1>1, BatchFacts, TransportAssumption DEF InTurn, Batches, TransportAssumption
<1>2. CASE log' = log /\ sealed' = sealed
  BY <1>2 DEF Delivery!vars, OnTopic, Accepted
<1>3. CASE sealed' = sealed /\ \E p \in Partitions : Append1(p, Foreign)
  <2>1. OnTopic' = OnTopic
    BY <1>3, TopicAppended, TransportAssumption DEF IInv, TransportAssumption
  <2> QED  BY <1>3, <2>1 DEF Delivery!vars, Accepted
<1>4. ASSUME sealed' = sealed, NEW id \in Ids, IdInTurn(id), Append1(PartitionOf[id], id)
      PROVE  [Delivery!Next]_(Delivery!vars)
  <2>1. OnTopic' = OnTopic \cup {id} /\ accepted' = accepted
    BY <1>4, TopicAppended, TransportAssumption DEF IInv, TransportAssumption, Accepted
  <2>2. PICK b \in Batches : id \in IdsOf(b) /\ InTurn(b)
    BY <1>4 DEF IdInTurn
  <2>3. CASE Accepted(b)
    <3>1. Acknowledged(b) = IdsOf(b)
      BY <2>3 DEF TurnInv, EvidenceStaysValid, VerifyEvidence, Accepted
    <3>2. id \in OnTopic
      BY <2>2, <3>1, AcknowledgedOnTopic
    <3> QED  BY <2>1, <3>2 DEF Delivery!vars
  <2>4. CASE ~Accepted(b)
    <3>1. b \in Batches /\ b \notin accepted /\ \A c \in 1..(b - 1) : c \in accepted
      BY <1>1, <2>2, <2>4
    <3>2. Delivery!Publish(b)
      BY <2>1, <2>2, <3>1 DEF Delivery!Publish, Delivery!Turn
    <3> QED  BY <3>1, <3>2 DEF Delivery!Next, Batches
  <2> QED  BY <2>3, <2>4
<1>5. CASE log' = log /\ sealed' # sealed
  <2>1. /\ Seal /\ VerifyEvidence(accBatch, accStart, accEnd)
        /\ sealed' = sealed \cup {[batch |-> accBatch, start |-> accStart, end |-> accEnd]}
    BY <1>5, SealedFrame
  <2>2. accBatch \in Batches /\ InTurn(accBatch) /\ ~Accepted(accBatch)
    BY <2>1 DEF Seal, TurnInv, AcceptorHolds, IInv, TypeOK
  <2>3. accBatch \in Batches /\ accBatch \notin accepted /\ \A c \in 1..(accBatch - 1) : c \in accepted
    BY <1>1, <2>2
  <2>4. IdsOf(accBatch) \subseteq OnTopic
    BY <2>1, <2>3, AcknowledgedOnTopic DEF VerifyEvidence
  <2>5. OnTopic' = OnTopic
    BY <1>5 DEF OnTopic
  <2>6. accepted' = accepted \cup {accBatch}
    <3> DEFINE new == [batch |-> accBatch, start |-> accStart, end |-> accEnd]
    <3>1. sealed' = sealed \cup {new} /\ new.batch = accBatch
      BY <2>1
    <3> HIDE DEF new
    <3>2. \A b : (\E s \in sealed' : s.batch = b) <=> (Accepted(b) \/ b = accBatch)
      BY <3>1 DEF Accepted
    <3> QED  BY <2>3, <3>2 DEF Accepted
  <2>7. Delivery!Accept(accBatch)
    BY <2>3, <2>4, <2>5, <2>6 DEF Delivery!Accept, Delivery!Turn
  <2> QED  BY <2>3, <2>7 DEF Delivery!Next, Batches
<1> QED  BY <1>2, <1>3, <1>4, <1>5, LogFrame

\* Publishers, broker, acceptor and crashes together implement the abstract
\* delivery: the notifications of a batch become visible in its turn, and it is
\* accepted after all of them are.
THEOREM DeliveryImplemented == Spec => DeliverySpec
<1>1. Init => Delivery!Init
  BY DEF Init, Delivery!Init, OnTopic, Accepted
<1>2. IInv /\ TurnInv /\ [Next]_vars => [Delivery!Next]_(Delivery!vars)
  BY DeliveryStep
<1> QED  BY <1>1, <1>2, TurnInvariance, PTL DEF Spec, DeliverySpec, Delivery!Spec
=============================================================================
