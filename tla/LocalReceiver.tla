---------------------------- MODULE LocalReceiver ----------------------------
(***************************************************************************)
(* LocalResearchReceiver: bounded delivery of the ready events of one      *)
(* verified outbox into a directory of receipts.  Several handoff commands *)
(* may run at once and be killed anywhere; a file appears by linking a     *)
(* temporary one, which is in the same directory until it is removed.      *)
(***************************************************************************)
EXTENDS LocalProcesses, Naturals, Sequences, FiniteSets, SequencesExt, FiniteSetsExt

CONSTANTS
  ReadyEvents,      \* the ready events of the outbox, in its order
  Version,          \* event -> Delta version it became visible in
  ExaminedVersions, \* the versions examined, those without an event included
  Handoffs,         \* processes that run the handoff command
  Maxima,           \* values given for maximum
  MaxReplays        \* bound: handoffs with replay, or with an injected failure

VARIABLES
  root,     \* what the root directory holds: 0 nothing .. 4 all of its entries
  receipts, \* events with a receipt
  attempts, \* attempts: a set of records, each with an identity of its own
  pending,  \* temporary files: [dir, owner]
  command,  \* process -> the state of its handoff, or None
  replays

store == <<root, receipts, attempts>>
receiverVars == <<root, receipts, attempts, pending, command, replays, kills>>

Ids == ToSet(ReadyEvents)

ASSUME OutboxAssumption == ReadyEvents \in Seq(Ids) /\ Version \in [Ids -> Nat]

ReceiverInit ==
  /\ root = 0 /\ receipts = {} /\ attempts = {} /\ pending = {}
  /\ command = [p \in Handoffs |-> None]
  /\ replays = 0 /\ kills = 0

\* The command is at step `at`, with the event at hand and those before it done.
HandoffAt(p, at) == command[p] # None /\ command[p].at = at
HandoffTo(p, at) == command' = [command EXCEPT ![p].at = at]
EventOf(p) == ReadyEvents[command[p].next]
EndHandoff(p) == command' = [command EXCEPT ![p] = None]

-----------------------------------------------------------------------------
\* A new command; the root's entries are made by whoever found no root.
StartHandoff(p, maximum, replay, fail) ==
  /\ command[p] = None
  /\ replay \/ fail # None => replays < MaxReplays
  /\ replays' = IF replay \/ fail # None THEN replays + 1 ELSE replays
  /\ command' = [command EXCEPT ![p] =
       [at |-> IF root = 0 THEN "create" ELSE "inspect receipts", round |-> 1, next |-> 1, done |-> 0,
        maximum |-> maximum, replay |-> replay, fail |-> fail, seen |-> {}, maker |-> FALSE, outcome |-> None]]
  /\ UNCHANGED <<store, pending, kills>>

\* mkdir without exist_ok: of two that found no root, one raises.
CreateRoot(p) ==
  /\ HandoffAt(p, "create")
  /\ IF root # 0 /\ ~command[p].maker
     THEN EndHandoff(p) /\ UNCHANGED root
     ELSE /\ root' = root + 1
          /\ command' = [command EXCEPT ![p].maker = root' < 4,
                           ![p].at = IF root' < 4 THEN "create" ELSE "inspect receipts"]
  /\ UNCHANGED <<receipts, attempts, pending, replays, kills>>

\* inspect: first the root and the receipts, then the attempts against them.
InspectReceipts(p) ==
  /\ HandoffAt(p, "inspect receipts")
  /\ IF root < 4 \/ \E f \in pending : f.dir = "receipts"
     THEN EndHandoff(p)
     ELSE command' = [command EXCEPT ![p].at = "inspect attempts", ![p].seen = receipts]
  /\ UNCHANGED <<store, pending, replays, kills>>

Acknowledged == {a.event : a \in {b \in attempts : b.outcome # "FAILED"}}

\* Versions up to and including the last fully acknowledged one.
Frontier(seen) ==
  {v \in ExaminedVersions : \A e \in Ids : Version[e] <= v => e \in seen}

\* The constructor inspects, and the handoff before and after its deliveries.
InspectAttempts(p) ==
  /\ HandoffAt(p, "inspect attempts")
  /\ LET c == command[p] IN
     IF (\E f \in pending : f.dir = "attempts") \/ ~(Acknowledged \subseteq c.seen)
     THEN EndHandoff(p)
     ELSE IF c.round = 3
     THEN EndHandoff(p)  \* returns Frontier(c.seen)
     ELSE command' = [command EXCEPT ![p].round = @ + 1, ![p].seen = {},
                        ![p].at = IF c.round = 2 THEN "next" ELSE "inspect receipts"]
  /\ UNCHANGED <<store, pending, replays, kills>>

\* Mutation: an event that has its receipt counts against the maximum.
NextEventCounted(p) ==
  /\ HandoffAt(p, "next")
  /\ LET c == command[p] IN
     IF c.next > Len(ReadyEvents) \/ c.done >= c.maximum
     THEN HandoffTo(p, "inspect receipts")
     ELSE LET skipped == ~c.replay /\ EventOf(p) \in receipts failing == EventOf(p) = c.fail IN
          command' = [command EXCEPT ![p].done = @ + 1,
                        ![p].next = IF skipped THEN @ + 1 ELSE @,
                        ![p].at = IF skipped THEN "next" ELSE IF failing THEN "attempt" ELSE "receipt",
                        ![p].outcome = IF ~skipped /\ failing THEN "FAILED" ELSE None]
  /\ UNCHANGED <<store, pending, replays, kills>>

\* The next event without a receipt, in a replay the next of all.
NextEvent(p) ==
  /\ HandoffAt(p, "next")
  /\ LET c == command[p]
         left == {n \in c.next .. Len(ReadyEvents) : c.replay \/ ReadyEvents[n] \notin receipts}
     IN IF left = {} \/ c.done >= c.maximum
     THEN HandoffTo(p, "inspect receipts")
     ELSE LET n == Min(left) failing == ReadyEvents[n] = c.fail IN
          command' = [command EXCEPT ![p].done = @ + 1, ![p].next = n,
                        ![p].at = IF failing THEN "attempt" ELSE "receipt",
                        ![p].outcome = IF failing THEN "FAILED" ELSE None]
  /\ UNCHANGED <<store, pending, replays, kills>>

Temporary(p, dir) == pending' = pending \cup {[dir |-> dir, owner |-> p]}

WriteReceipt(p) ==
  /\ HandoffAt(p, "receipt")
  /\ Temporary(p, "receipts") /\ HandoffTo(p, "link receipt")
  /\ UNCHANGED <<store, replays, kills>>

\* Mutation: a receipt that is there is linked again as new.
LinkReceiptAgain(p) ==
  /\ HandoffAt(p, "link receipt")
  /\ receipts' = receipts \cup {EventOf(p)}
  /\ command' = [command EXCEPT ![p].at = "unlink receipt", ![p].outcome = "ACCEPTED"]
  /\ UNCHANGED <<root, attempts, pending, replays, kills>>

\* The link is exclusive: the first one to make it is the one that accepted.
LinkReceipt(p) ==
  /\ HandoffAt(p, "link receipt")
  /\ receipts' = receipts \cup {EventOf(p)}
  /\ command' = [command EXCEPT ![p].at = "unlink receipt",
                   ![p].outcome = IF EventOf(p) \in receipts THEN "DUPLICATE" ELSE "ACCEPTED"]
  /\ UNCHANGED <<root, attempts, pending, replays, kills>>

UnlinkReceipt(p) ==
  /\ HandoffAt(p, "unlink receipt")
  /\ pending' = pending \ {[dir |-> "receipts", owner |-> p]}
  /\ HandoffTo(p, "attempt")
  /\ UNCHANGED <<store, replays, kills>>

WriteAttempt(p) ==
  /\ HandoffAt(p, "attempt")
  /\ Temporary(p, "attempts") /\ HandoffTo(p, "link attempt")
  /\ UNCHANGED <<store, replays, kills>>

LinkAttempt(p) ==
  /\ HandoffAt(p, "link attempt")
  /\ LET same == {a \in attempts : a.event = EventOf(p) /\ a.outcome = command[p].outcome}
         number == Cardinality(same) + 1
     IN attempts' = attempts \cup {[event |-> EventOf(p), outcome |-> command[p].outcome, number |-> number]}
  /\ HandoffTo(p, "unlink attempt")
  /\ UNCHANGED <<root, receipts, pending, replays, kills>>

\* An injected failure ends the loop.
UnlinkAttempt(p) ==
  /\ HandoffAt(p, "unlink attempt")
  /\ pending' = pending \ {[dir |-> "attempts", owner |-> p]}
  /\ command' = [command EXCEPT ![p].next = @ + 1, ![p].outcome = None,
                   ![p].at = IF command[p].outcome = "FAILED" THEN "inspect receipts" ELSE "next"]
  /\ UNCHANGED <<store, replays, kills>>

\* A kill leaves the temporary file of the command.
KillHandoff(p) ==
  /\ command[p] # None /\ kills < MaxKills
  /\ EndHandoff(p) /\ kills' = kills + 1
  /\ UNCHANGED <<store, pending, replays>>

HandoffStep(p) ==
  \/ CreateRoot(p) \/ InspectReceipts(p) \/ InspectAttempts(p) \/ NextEvent(p)
  \/ WriteReceipt(p) \/ LinkReceipt(p) \/ UnlinkReceipt(p)
  \/ WriteAttempt(p) \/ LinkAttempt(p) \/ UnlinkAttempt(p)

StartPlain(p) == \E m \in Maxima : StartHandoff(p, m, FALSE, None)

ReceiverNext == \E p \in Handoffs :
  \/ \E m \in Maxima, r \in BOOLEAN, f \in Ids \cup {None} : StartHandoff(p, m, r, f)
  \/ HandoffStep(p)
  \/ KillHandoff(p)

ReceiverSpec == ReceiverInit /\ [][ReceiverNext]_receiverVars

-----------------------------------------------------------------------------
\* inspect treats an acknowledged attempt without a receipt as corruption: no
\* order of links, kills and replays ever makes one.
AcknowledgedHasReceipt == Acknowledged \subseteq receipts

\* An event is ACCEPTED at most once, over all commands, replays and kills.
AcceptedOnce ==
  \A a, b \in attempts : a.outcome = "ACCEPTED" /\ b.outcome = "ACCEPTED" /\ a.event = b.event => a = b

\* last_fully_acknowledged_delta_version: no command, which other commands
\* overtake, has a version with an event, of it or of an earlier one, that has
\* no receipt.
FrontierAcknowledged ==
  \A p \in Handoffs : HandoffAt(p, "inspect attempts") =>
    \A e \in Ids : Version[e] \in Frontier(command[p].seen) => e \in receipts

\* What the receiver's files say of its deliveries is true.
AttemptsTrue == AcknowledgedHasReceipt /\ AcceptedOnce /\ FrontierAcknowledged

\* What a killed command left behind, which every later inspection refuses.
AbandonedPending ==
  {f \in pending : command[f.owner] = None \/ command[f.owner].at \notin
     {"link receipt", "unlink receipt", "link attempt", "unlink attempt"}}
HalfMade == root \in 1 .. 3 /\ \A p \in Handoffs : ~HandoffAt(p, "create")

\* "Bounded, restartable": a receiver that no kill damaged receives every event
\* in the end, although each command delivers only some, and commands that run
\* at once make one another's inspections fail.
Delivered == <>(receipts = Ids \/ AbandonedPending # {} \/ HalfMade)
=============================================================================
