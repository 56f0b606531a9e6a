-------------------------- MODULE MCPermissionCache --------------------------
(* Instances of PermissionCache for TLC.  The symmetry is for runs without  *)
(* CallsEnd.                                                                *)
EXTENDS PermissionCache, TLC

Symmetry == Permutations(Caller)
=============================================================================
