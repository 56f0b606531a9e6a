----------------------------- MODULE MCSyncJobs -----------------------------
(* Instances of SyncJobs for TLC. *)
EXTENDS SyncJobs, TLC

Symmetry == Permutations(Job)
=============================================================================
