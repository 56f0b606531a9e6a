----------------------------- MODULE MCServices -----------------------------
(* Instance of Services for TLC. *)
EXTENDS Services

CONSTANTS gunicorn, beat

MCLists == {<<gunicorn, beat>>}

=============================================================================
