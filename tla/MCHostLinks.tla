---------------------------- MODULE MCHostLinks ----------------------------
(* Instances of HostLinks for TLC. *)
EXTENDS HostLinks, TLC

Symmetry == Permutations(Host) \cup Permutations(Name) \cup Permutations(Vm)
              \cup Permutations(Store) \cup Permutations(StoreName)
=============================================================================
