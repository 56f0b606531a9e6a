---------------------------- MODULE MCBatchJobs -----------------------------
(* Instance of BatchJobs for TLC. *)
EXTENDS BatchJobs

=============================================================================
