----------------------------- MODULE MCHostSync -----------------------------
(* Instance of HostSync for TLC.  No symmetry: the run checks liveness. *)
EXTENDS HostSync, TLC
=============================================================================
