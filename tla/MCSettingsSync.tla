--------------------------- MODULE MCSettingsSync ---------------------------
(* Instance of SettingsSync for TLC. *)
EXTENDS SettingsSync

=============================================================================
