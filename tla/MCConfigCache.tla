--------------------------- MODULE MCConfigCache ---------------------------
(* Instance of ConfigCache for TLC. *)
EXTENDS ConfigCache, TLC

CONSTANTS u1, v1

R(value, active, access, inherit) ==
  [value |-> value, active |-> active, access |-> access, inherit |-> inherit]

MCRows ==
  (System :> {R(Template, TRUE, TRUE, TRUE), R(v1, TRUE, FALSE, FALSE), R(v1, FALSE, TRUE, TRUE)})
    @@ (u1 :> {R(v1, TRUE, TRUE, FALSE), R(Template, TRUE, FALSE, FALSE),
               R(v1, FALSE, TRUE, FALSE)})

MCSymmetry == Permutations(Request)

=============================================================================
