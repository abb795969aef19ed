--------------------------- MODULE MCModelLifecycle ---------------------------
(* Small instances of ModelLifecycle for TLC. *)
EXTENDS ModelLifecycle, TLC
=============================================================================
