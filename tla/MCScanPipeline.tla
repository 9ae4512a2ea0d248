--------------------------- MODULE MCScanPipeline ---------------------------
(* Instances of ScanPipeline for TLC: the scans and the workers of the runs *)
(* that check no liveness are interchangeable.                              *)
EXTENDS ScanPipeline, TLC

Symmetry == Permutations(Scans) \union Permutations(Workers)

=============================================================================
