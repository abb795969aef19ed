-------------------------- MODULE MCShadowProcesses --------------------------
(***************************************************************************)
(* A small instance, for TLC, of commands that race over artifacts: those  *)
(* of the incremental path (IncrementalShadow), and those that build from  *)
(* ranges of a table that is made anew (ReadyOutbox).  A behaviour is of   *)
(* one of them, its scene; the other stays as it is.                       *)
(***************************************************************************)
EXTENDS MCIncrementalShadow, ReadyOutbox

VARIABLE scene

\* Two overlapping ranges of versions, of a table of three events.
MCEvents == <<"e", "f", "g">>
MCRanges == [b1 |-> {<<1, 2>>}, b2 |-> {<<2, 2>>}]

ProcessesInit == scene \in {"outbox", "stream"} /\ OutboxInit /\ Init

ProcessesNext ==
  \/ scene = "outbox" /\ OutboxNext /\ UNCHANGED <<scene, vars>>
  \/ scene = "stream" /\ Next /\ UNCHANGED <<scene, outboxVars>>

ProcessesSpec == ProcessesInit /\ [][ProcessesNext]_<<scene, outboxVars, vars>>
=============================================================================
