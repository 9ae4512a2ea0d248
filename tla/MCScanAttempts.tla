---------------------------- MODULE MCScanAttempts ----------------------------
(* Instances of ScanAttempts for TLC: ids and requests are interchangeable. *)
EXTENDS ScanAttempts, TLC

Symmetry == Permutations(Scans) \union Permutations(Requests)

=============================================================================
