------------------------------ MODULE MCVmSync ------------------------------
(* Instances of VmSync for TLC. *)
EXTENDS VmSync, TLC

(* Machines and datastores share neither a list nor a table. *)
MCScopes == {MachineKind, {"datastore"}}

Symmetry == Permutations(Vm) \cup Permutations(Store) \cup Permutations(Name) \cup Permutations(Task)
=============================================================================
