----------------------------- MODULE MCFeatureChain -----------------------------
(* Small instances of FeatureChain for TLC. *)
EXTENDS FeatureChain

CONSTANT EventTimes   \* one event for each time

\* Each version is one row of the log, a first or a repeated copy of an event.
MCCopies(s) ==
  {{[id |-> t, time |-> t, offset |-> Len(s), partition |-> 0, key |-> "a/USD"]}
     : t \in EventTimes}
=============================================================================
