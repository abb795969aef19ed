---------------------------- MODULE LocalProcesses ----------------------------
(* What the models of local commands share: processes that are killed. *)

CONSTANTS
  None,
  MaxKills \* bound: killed commands

VARIABLE kills
=============================================================================
