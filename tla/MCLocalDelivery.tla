--------------------------- MODULE MCLocalDelivery ---------------------------
(***************************************************************************)
(* Small instances, for TLC, of the three ways ready events are delivered  *)
(* to local files: to the receiver of research receipts (LocalReceiver),   *)
(* to the scorer of a sealed inbox (KafkaShadowWorker), and by the         *)
(* incremental path (IncrementalShadow).                                   *)
(* A behaviour is of one of them, its scene; the others stay as they are.  *)
(***************************************************************************)
EXTENDS LocalReceiver, KafkaShadowWorker

CONSTANTS
  MaxUndiscovered, \* versions the stream may leave undiscovered
  MaxStreamKills

VARIABLES
  scene,
  latest, written, partial, journals, acked, accepted, scored, disc, reader, publisher, worker, early, streamKills

receiver == <<root, receipts, attempts, pending, command, replays>>
scorer == <<inbox, line, results, runs, work, failures>>
stream ==
  <<latest, written, partial, journals, acked, accepted, scored, disc, reader, publisher, worker, early,
    streamKills>>
allVars == <<scene, kills, receiver, scorer, stream>>

\* Two batches after a metadata-only version, the first fills the capacity;
\* the evaluation of the third row may fail.  The last version has more rows
\* than a snapshot may have, and one accept may come before its publication.
Rows == <<0, 2, 1, 1>>
S == INSTANCE IncrementalShadow WITH
  Size <- Rows,
  Outcomes <- [e \in {<<2, 1>>, <<2, 2>>, <<3, 1>>, <<4, 1>>} |-> {"SCORED"} \cup IF e[1] = 3 THEN {"INFERENCE_FAILED"} ELSE {}],
  Discoverers <- {"d"}, Controllers <- {"c"}, Inspectors <- {}, Workers <- {"w"}, Windows <- {"x"},
  MaxUnpublished <- 3, MaxUnprocessed <- 2, MaxTick <- 1, MaxSnapshot <- 3, MaxEarly <- 1, HardKills <- FALSE,
  MaxFailures <- MaxStreamKills, results <- scored, failures <- streamKills

\* Two events of a version, between versions without one.
MCReady == <<"a", "b">>
MCVersion == [a |-> 2, b |-> 2]
MCVersions == 1 .. 3

\* Three events, a delivered twice; the second inbox has a record unread.
Range3(b, e, c) == [beginning |-> b, end |-> e, committed |-> c]
Sealed ==
  [events |-> <<"c", "a", "b">>, receipts |-> [a |-> <<1, 0>>, b |-> <<2, 3>>, c |-> <<1, 2>>],
   ranges |-> <<Range3(0, 3, 3), Range3(3, 4, 4)>>, physical |-> 4, duplicates |-> 1]
Unread == [Sealed EXCEPT !.ranges[2] = Range3(3, 5, 4), !.physical = 5]
MCInboxes == {Sealed, Unread}

\* A partial reference, a maximum that one command does not reach, another
\* registered version, and another window.
Line(version, window, reference, maximum) ==
  [base |-> [version |-> version, window |-> window], maximum |-> maximum,
   reference |-> [window |-> window, events |-> reference, far |-> {}]]
MCCommands ==
  {Line(1, "x", {"a", "b"}, 1), Line(1, "x", {"a"}, 2), Line(2, "x", {"a", "b"}, 2), Line(1, "y", {"b"}, 1)}
MCVisible == [a |-> 1, b |-> 2, c |-> 4]
MCOutside == [x |-> {"c"}, y |-> {"a", "c"}]

DeliveryInit ==
  /\ scene \in {"receiver", "scorer", "stream"}
  /\ ReceiverInit /\ WorkerInit /\ S!Init
  /\ scene # "scorer" => inbox = Sealed /\ line = [w \in Workers |-> Line(1, "x", {"a", "b"}, 1)]

InReceiver == scene = "receiver" /\ UNCHANGED <<scorer, stream, scene>>
InScorer == scene = "scorer" /\ UNCHANGED <<receiver, stream, scene>>
InStream == scene = "stream" /\ UNCHANGED <<receiver, scorer, scene, kills>>

DeliveryNext ==
  \/ InReceiver /\ ReceiverNext
  \/ InScorer /\ WorkerNext
  \/ InStream /\ S!Next

DeliverySpec == DeliveryInit /\ [][DeliveryNext]_allVars

\* The commands are run again and again, each on and on until it ends.
DeliveryFairness ==
  /\ \A p \in Handoffs :
       WF_allVars(InReceiver /\ StartPlain(p)) /\ WF_allVars(InReceiver /\ HandoffStep(p))
  /\ \A w \in Workers :
       WF_allVars(InScorer /\ Start(w)) /\ WF_allVars(InScorer /\ Step(w))
  /\ WF_allVars(InStream /\ S!CommitVersion)
  /\ WF_allVars(InStream /\ S!Discover("d"))
  /\ WF_allVars(InStream /\ S!Read("c")) /\ WF_allVars(InStream /\ S!PublishBatch("c"))
  /\ WF_allVars(InStream /\ \E b \in acked : S!Accept(b))
  /\ WF_allVars(InStream /\ S!Process("w"))

FairDelivery == DeliverySpec /\ DeliveryFairness

-----------------------------------------------------------------------------
\* What is ready, sealed or committed is received, resolved or scored in the
\* end, by commands that are run again and again, each of them bounded.
EverythingDelivered ==
  /\ scene = "receiver" => Delivered
  /\ scene = "scorer" => Resolved
  /\ scene = "stream" => S!EverythingScored
=============================================================================
