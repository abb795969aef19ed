---------------------- MODULE MCFeatureReadyTransport ----------------------
(* Small instances of FeatureReadyTransport for TLC. *)
EXTENDS FeatureReadyTransport, TLC

CONSTANTS e1, e2, e3

\* Batch 1 spans both partitions; batch 2 shares a partition with it.
MCRecords == <<<<e1, e2>>, <<e3>>>>
MCPartitionOf == [i \in {e1, e2, e3} |-> IF i = e2 THEN 1 ELSE 0]

\* Publish processes are interchangeable.
PublisherSymmetry == Permutations(Publishers)
=============================================================================
