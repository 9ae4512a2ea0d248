-------------------------- MODULE MCStorageMigration --------------------------
(* Instances of StorageMigration and StorageAudit for TLC: processes and requests are interchangeable. *)
EXTENDS StorageAudit, TLC

Symmetry == Permutations(Runs) \union Permutations(Requests)

=============================================================================
