------------------------- MODULE MCIncrementalShadow -------------------------
(* Small instances of IncrementalShadow for TLC. *)
EXTENDS IncrementalShadow, TLC

\* Two batches after a metadata-only version; the first fills the capacity.
MCSize == <<0, 2, 1>>

\* Two batches without a gap between them.
MCPair == <<2, 1>>

\* Every evaluation succeeds, except that the last row may also fail.
MCOutcomes ==
  [e \in Events(Versions) |->
     IF e[1] = Len(Size) THEN {"SCORED", "INFERENCE_FAILED"} ELSE {"SCORED"}]

\* Workers, discover commands and windows are interchangeable.
ProcessSymmetry ==
  Permutations(Workers) \cup Permutations(Discoverers) \cup Permutations(Windows)
=============================================================================
