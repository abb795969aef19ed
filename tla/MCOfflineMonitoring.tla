------------------------- MODULE MCOfflineMonitoring -------------------------
(***************************************************************************)
(* A small instance of OfflineMonitoring, ShadowReplay and Recovery for    *)
(* TLC.  A behaviour is of one of them, its scene; while there is no       *)
(* artifact, populations for the distances of drift snapshots, or          *)
(* deliveries of requests, are enumerated instead.                         *)
(***************************************************************************)
EXTENDS ShadowReplay, Distributions, Recovery

\* Two events of each period, by ingestion time, and one after the test period.
MCIngested == [a |-> 0, b |-> 1, c |-> 2, d |-> 3, e |-> 4, f |-> 5, g |-> 6, h |-> 7]
I(s, t) == [from |-> s, to |-> t]
MCIntervals == {I(1, 7), I(2, 4), I(4, 7), I(2, 7)}
MCReplayWindows == {I(4, 7), I(2, 4), I(6, 8)}

L(e, r, o, t) == [event |-> e, revision |-> r, outcome |-> o, observed |-> t]
BaseLabels ==
  {L("a", 1, "FRAUD", 1), L("b", 1, "LEGIT", 2), L("c", 1, "LEGIT", 4), L("d", 1, "FRAUD", 3),
   L("e", 1, "LEGIT", 5), L("f", 1, "FRAUD", 6), L("g", 1, "LEGIT", 6)}
\* f and g are revised, one of them twice and out of the evaluated times.
LaterLabels ==
  BaseLabels \cup {L("d", 2, "LEGIT", 8), L("f", 2, "LEGIT", 9), L("h", 1, "LEGIT", 9)}
MCLabelFile == [base |-> BaseLabels, later |-> LaterLabels]
MCModel ==
  [m |-> [labels |-> LaterLabels, asOf |-> 7,
          split |-> [trainEnd |-> 2, validationEnd |-> 5, testEnd |-> 7]]]

R(p, i, c, n, e, s, u, t) ==
  [provider |-> p, id |-> i, case |-> c, revision |-> n, event |-> e, status |-> s, updated |-> u, received |-> t]
R1 == R("A", 1, "x", 1, "d", "PENDING", 4, 5)
R2 == R("A", 2, "x", 2, "d", "CONFIRMED_FRAUD", 6, 9)
R3 == R("A", 3, "x", 3, "d", "RETRACTED", 7, 8)
R4 == R("B", 1, "x", 1, "d", "CONFIRMED_LEGIT", 7, 7)
\* Another record under the identity of R1, received after 8, and about an event
\* that has no other case.
R5 == R("A", 1, "y", 1, "e", "CONFIRMED_LEGIT", 7, 9)
MCBatch == [b1 |-> {R1}, b2 |-> {R2}, b12 |-> {R1, R2}, b3 |-> {R3}, b4 |-> {R4}, b5 |-> {R5}]

MCMaxOf ==
  [ledger |-> 2, outcomes |-> 2, feedback |-> 2, evaluation |-> 2, drift |-> 1, packet |-> 1,
   plan |-> 2, execution |-> 2, parity |-> 1]
\* Kafka's topics, and the files that are made of them and of each other.
MCNeeds ==
  [schemas |-> {}, raw |-> {"schemas"}, delta |-> {"raw"}, ready |-> {"delta"}, receipts |-> {"ready"}]

NameSymmetry == Permutations(Procs) \cup Permutations(Rehearsals)

Request(id, event, sequence, row) == [id |-> id, event |-> event, sequence |-> sequence, row |-> row]
\* The third conflicts with the first, the fourth is of another row.
MCDeliverable ==
  {Request("r", "d", 0, "d"), Request("s", "e", 1, "e"), Request("r", "e", 1, "e"), Request("t", "f", 2, "g")}

VARIABLE scene
offline == <<replayVars, populations>>
MCInit ==
  /\ scene \in {"monitoring", "replay", "recovery"}
  /\ ReplayInit /\ Empty /\ RecoveryInit
  /\ scene # "recovery" => stored = [p \in Places |-> 0]

MonitoringStep == Empty /\ Next /\ UNCHANGED <<populations, executed, deliveries>>
PopulationStep == claimed = {} /\ (AddReference \/ AddComparison) /\ UNCHANGED replayVars
ReplayStep == deliveries = <<>> /\ ReplayNext /\ UNCHANGED populations
DeliveryStep == (\E d \in Deliverable : AddDelivery(d)) /\ UNCHANGED populations
MCNext ==
  /\ \/ scene = "monitoring" /\ (MonitoringStep \/ PopulationStep) /\ UNCHANGED recoveryVars
     \/ scene = "replay" /\ (ReplayStep \/ DeliveryStep) /\ UNCHANGED recoveryVars
     \/ scene = "recovery" /\ RecoveryNext /\ UNCHANGED offline
  /\ UNCHANGED scene
MCSpec == MCInit /\ [][MCNext]_<<offline, recoveryVars, scene>>
=============================================================================
