---------------------------- MODULE MCPlatformRow ----------------------------
(* Instances of PlatformRow for TLC: model values and their symmetry. *)
EXTENDS PlatformRow, TLC

Symmetry == Permutations(Task) \cup Permutations(Patch) \cup Permutations(Label)
=============================================================================
