----------------------------- MODULE JobReport ------------------------------
(***************************************************************************)
(* What a user may expect of an import that runs in the background: a      *)
(* message is sent when every part of the import has been answered, and    *)
(* one that says failure is right.  As long as no task was disturbed when  *)
(* it collected the answers there is one message at most, which says       *)
(* success exactly if every part was accepted.                             *)
(***************************************************************************)
EXTENDS Sequences

VARIABLES
  outcome,      \* outcome[b]: pending, accepted, rejected or lost
  messages,     \* what the user has been told
  disturbed     \* a task was disturbed

vars == <<outcome, messages, disturbed>>

Init == outcome = <<>> /\ messages = <<>> /\ disturbed = FALSE

(* The import is divided into parts. *)
Divide ==
  /\ outcome = <<>>
  /\ outcome' = [b \in DOMAIN outcome' |-> "pending"]
  /\ UNCHANGED <<messages, disturbed>>

Finish(parts, o) ==
  /\ \A b \in parts : outcome[b] = "pending"
  /\ outcome' = [b \in DOMAIN outcome |-> IF b \in parts THEN o ELSE outcome[b]]
  /\ UNCHANGED <<messages, disturbed>>

Disturb == disturbed' = TRUE /\ UNCHANGED <<outcome, messages>>

Accepted == \A b \in DOMAIN outcome : outcome[b] = "accepted"

Report(m) ==
  /\ outcome # <<>>
  /\ \A b \in DOMAIN outcome : outcome[b] \in {"accepted", "rejected"}
  /\ m = "failure" => ~Accepted
  /\ ~disturbed => messages = <<>> /\ (m = "success" => Accepted)
  /\ messages' = Append(messages, m)
  /\ UNCHANGED <<outcome, disturbed>>

Next ==
  \/ Divide \/ Disturb
  \/ \E m \in {"success", "failure"} : Report(m)
  \/ \E parts \in SUBSET DOMAIN outcome, o \in {"accepted", "rejected", "lost"} :
       Finish(parts, o)

Spec == Init /\ [][Next]_vars
=============================================================================
