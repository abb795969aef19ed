---------------------------- MODULE ReadyDelivery ----------------------------
(***************************************************************************)
(* What the transport of feature-ready notifications promises, without     *)
(* partitions, offsets, files or processes: batches take turns; the        *)
(* notifications of a batch become visible on the topic in its turn, in    *)
(* any order, possibly more than once; when all of them are visible the    *)
(* batch may be accepted, and the turn passes on.                          *)
(***************************************************************************)
EXTENDS Naturals

CONSTANTS
  NBatches,      \* number of batches
  Members        \* Members[b]: the ready-event ids of batch b

VARIABLES
  published,     \* ids of which the topic holds at least one record
  accepted       \* batches that were accepted

vars == <<published, accepted>>

Turn(b) == b \notin accepted /\ \A c \in 1..(b - 1) : c \in accepted

Init == published = {} /\ accepted = {}

Publish(b) ==
  /\ Turn(b)
  /\ \E id \in Members[b] : published' = published \cup {id}
  /\ UNCHANGED accepted

Accept(b) ==
  /\ Turn(b)
  /\ Members[b] \subseteq published
  /\ accepted' = accepted \cup {b}
  /\ UNCHANGED published

Next == \E b \in 1..NBatches : Publish(b) \/ Accept(b)

Spec == Init /\ [][Next]_vars
=============================================================================
