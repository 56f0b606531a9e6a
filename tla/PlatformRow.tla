----------------------------- MODULE PlatformRow -----------------------------
(***************************************************************************)
(* One row of virt_platform and its three kinds of writers: the Celery     *)
(* task virt_center.sync_platform_info, the request test_connection, and   *)
(* the PATCH of the platform page.  The first two save the columns they    *)
(* own, the third reads the whole row, edits it and saves all of it.       *)
(*                                                                         *)
(* status stands for every column the synchronisation owns (version,       *)
(* totals, last_sync_time), active and label for those the user edits.     *)
(***************************************************************************)
EXTENDS Naturals

CONSTANTS
  Task,         \* sync_platform_info tasks that can exist at a time
  Probe,        \* test_connection requests that can be in flight
  Patch,        \* PATCH requests that can be in flight
  Label,        \* values of the columns the user edits
  Gone,         \* "no such row"
  MaxRetries,   \* max_retries of the task
  MaxMoves,     \* bound: changes of the vCenter and of the credential, deletions
  MaxFaults     \* bound: broken sessions, failed saves, crashes

ASSUME BoundAssumption == MaxRetries \in Nat /\ MaxMoves \in Nat /\ MaxFaults \in Nat

VARIABLES
  row,          \* the row of the platform, or Gone
  secret,       \* the password column of the platform's credential
  up,           \* the vCenter answers and accepts the credential
  task, probe, patch,
  moves, faults

vars == <<row, secret, up, task, probe, patch, moves, faults>>

-----------------------------------------------------------------------------
(* Types *)

Status == {"disconnected", "connected", "error", "maintenance"}

Row == [active : BOOLEAN, label : Label, status : Status]

(* What a password text is under the current SECRET_KEY: the empty text,   *)
(* readable, encrypted once or twice, or encrypted with a key that is gone. *)
Text == {"empty", "plain", "sealed", "sealed twice", "foreign"}

Secret == Text \cup {"none"}

ASSUME GoneAssumption == Gone \notin Row

Attempt == {"client", "connect", "save", "error", "signal"}

Ended == {"idle", "success", "refused", "failed", "lost"}

(* copy: the model instance the task loaded. *)
TaskState ==
  [pc : Attempt \cup Ended \cup {"queued", "backoff"},
   copy : Row \cup {Gone}, retries : 0..MaxRetries]

TypeOK ==
  /\ row \in Row \cup {Gone}
  /\ secret \in Secret
  /\ up \in BOOLEAN
  /\ task \in [Task -> TaskState]
  /\ probe \in [Probe -> {"idle", "connect", "connected", "error"}]
  /\ patch \in [Patch -> Row \cup {Gone}]
  /\ moves \in 0..MaxMoves
  /\ faults \in 0..MaxFaults

-----------------------------------------------------------------------------
(* The password column, EncryptedCharField *)

(* get_prep_value: what decrypts is stored as it is, the rest is encrypted *)
(* (the empty text cannot be, and stays).                                  *)
Stored(x) == IF x = "plain" THEN "sealed" ELSE x

(* from_db_value: decrypted if that is possible. *)
Loaded(x) ==
  CASE x = "sealed twice" -> "sealed"
    [] x = "sealed"       -> "plain"
    [] OTHER              -> x

(* get_vsphere_client decrypts what was loaded once more, unless empty. *)
Opens(x) == x # "none" /\ Loaded(x) \in {"empty", "sealed", "sealed twice"}

-----------------------------------------------------------------------------
(* Helpers *)

Fault == faults < MaxFaults /\ faults' = faults + 1

Goto(t, pc) == task' = [task EXCEPT ![t].pc = pc]

(* The function returns or raises, and its instance is forgotten. *)
Leave(t, pc) == task' = [task EXCEPT ![t].pc = pc, ![t].copy = Gone]

(* Mutant: one retry too many. *)
AbortOnceMore(t) == Leave(t, IF task[t].retries <= MaxRetries THEN "backoff" ELSE "failed")

(* self.retry(exc): again after the delay, or give up. *)
Abort(t) == Leave(t, IF task[t].retries < MaxRetries THEN "backoff" ELSE "failed")

(* Mutant: the save names no columns. *)
SaveWholeInstance(t, status) ==
  row' = [task[t].copy EXCEPT !.status = status]

(* platform.save(update_fields=[...]) *)
SaveStatus(t, status) ==
  /\ row # Gone
  /\ row' = [row EXCEPT !.status = status]

-----------------------------------------------------------------------------
(* The task sync_platform_info *)

Trigger(t) ==
  /\ task[t].pc \in Ended
  /\ row # Gone
  /\ task' = [task EXCEPT ![t] = [pc |-> "queued", copy |-> Gone, retries |-> 0]]
  /\ UNCHANGED <<row, secret, up, probe, patch, moves, faults>>

(* Platform.objects.get(id=..., is_active=True) *)
Begin(t) ==
  /\ task[t].pc = "queued"
  /\ IF row # Gone /\ row.active
     THEN task' = [task EXCEPT ![t].pc = "client", ![t].copy = row]
     ELSE Leave(t, "refused")
  /\ UNCHANGED <<row, secret, up, probe, patch, moves, faults>>

(* get_vsphere_client runs before the inner try: when there is no usable   *)
(* credential, the attempt ends without touching the status.               *)
MakeClient(t) ==
  /\ task[t].pc = "client"
  /\ IF Opens(secret) THEN Goto(t, "connect") ELSE Abort(t)
  /\ UNCHANGED <<row, secret, up, probe, patch, moves, faults>>

(* Mutant: a failed connection is retried without marking the platform. *)
CollectUnmarked(t) ==
  /\ task[t].pc = "connect"
  /\ \/ up /\ Goto(t, "save") /\ faults' = faults
     \/ ~up /\ Abort(t) /\ faults' = faults
     \/ Fault /\ Abort(t)
  /\ UNCHANGED <<row, secret, up, probe, patch, moves>>

(* Connect, and read the inventory. *)
Collect(t) ==
  /\ task[t].pc = "connect"
  /\ \/ up /\ Goto(t, "save") /\ faults' = faults
     \/ ~up /\ Goto(t, "error") /\ faults' = faults
     \/ Fault /\ Goto(t, "error")
  /\ UNCHANGED <<row, secret, up, probe, patch, moves>>

(* sync_platform_to_db *)
SaveInfo(t) ==
  /\ task[t].pc = "save"
  /\ SaveStatus(t, "connected")
  /\ Leave(t, "success")
  /\ UNCHANGED <<secret, up, probe, patch, moves, faults>>

(* The save fails; the instance in memory already says "connected". *)
SaveInfoFails(t) ==
  /\ task[t].pc = "save"
  /\ \/ row = Gone /\ faults' = faults
     \/ Fault
  /\ task' = [task EXCEPT ![t].pc = "error", ![t].copy.status = "connected"]
  /\ UNCHANGED <<row, secret, up, probe, patch, moves>>

(* platform.status = ERROR; save *)
MarkError(t) ==
  /\ task[t].pc = "error"
  /\ SaveStatus(t, "error")
  /\ Goto(t, "signal")
  /\ UNCHANGED <<secret, up, probe, patch, moves, faults>>

MarkErrorFails(t) ==
  /\ task[t].pc = "error"
  /\ \/ row = Gone /\ faults' = faults
     \/ Fault
  /\ Abort(t)
  /\ UNCHANGED <<row, secret, up, probe, patch, moves>>

(* platform_status_changed.send, which changes nothing here; then raise,   *)
(* which leads to the retry.                                               *)
Announce(t) ==
  /\ task[t].pc = "signal"
  /\ Abort(t)
  /\ UNCHANGED <<row, secret, up, probe, patch, moves, faults>>

(* Mutant: the retries are not counted. *)
RetryUncounted(t) ==
  /\ task[t].pc = "backoff"
  /\ task' = [task EXCEPT ![t].pc = "queued"]
  /\ UNCHANGED <<row, secret, up, probe, patch, moves, faults>>

Retry(t) ==
  /\ task[t].pc = "backoff"
  /\ task' = [task EXCEPT ![t].pc = "queued", ![t].retries = @ + 1]
  /\ UNCHANGED <<row, secret, up, probe, patch, moves, faults>>

(* The worker dies; the message was acknowledged on receipt. *)
Crash(t) ==
  /\ task[t].pc \in Attempt
  /\ Fault
  /\ Leave(t, "lost")
  /\ UNCHANGED <<row, secret, up, probe, patch, moves>>

-----------------------------------------------------------------------------
(* The request test_connection *)

StartProbe(q) ==
  /\ probe[q] = "idle"
  /\ row # Gone
  /\ probe' = [probe EXCEPT ![q] = "connect"]
  /\ UNCHANGED <<row, secret, up, task, patch, moves, faults>>

ProbeConnects(q) ==
  /\ probe[q] = "connect"
  /\ probe' = [probe EXCEPT ![q] = IF Opens(secret) /\ up THEN "connected" ELSE "error"]
  /\ UNCHANGED <<row, secret, up, task, patch, moves, faults>>

(* The row is saved; when it is gone the request answers with an error. *)
EndProbe(q) ==
  /\ probe[q] \in {"connected", "error"}
  /\ row' = IF row = Gone THEN Gone ELSE [row EXCEPT !.status = probe[q]]
  /\ probe' = [probe EXCEPT ![q] = "idle"]
  /\ UNCHANGED <<secret, up, task, patch, moves, faults>>

-----------------------------------------------------------------------------
(* The request PATCH *)

(* get_object, then the user's change applied to the instance. *)
StartPatch(r) ==
  /\ patch[r] = Gone
  /\ row # Gone
  /\ \E a \in BOOLEAN, l \in Label :
       /\ <<a, l>> # <<row.active, row.label>>
       /\ patch' = [patch EXCEPT ![r] = [row EXCEPT !.active = a, !.label = l]]
  /\ UNCHANGED <<row, secret, up, task, probe, moves, faults>>

(* instance.save(): UPDATE of every column, or INSERT when no row matched. *)
EndPatch(r) ==
  /\ patch[r] # Gone
  /\ row' = patch[r]
  /\ patch' = [patch EXCEPT ![r] = Gone]
  /\ UNCHANGED <<secret, up, task, probe, moves, faults>>

-----------------------------------------------------------------------------
(* The environment *)

VCenterFlips ==
  /\ moves < MaxMoves
  /\ moves' = moves + 1
  /\ up' = ~up
  /\ UNCHANGED <<row, secret, task, probe, patch, faults>>

(* The credential is created or its password set, in a shell. *)
SetPassword(x) ==
  /\ moves < MaxMoves
  /\ moves' = moves + 1
  /\ row # Gone
  /\ secret' = Stored(x)
  /\ UNCHANGED <<row, up, task, probe, patch, faults>>

(* SECRET_KEY is replaced. *)
KeyChanges ==
  /\ moves < MaxMoves
  /\ moves' = moves + 1
  /\ secret \notin {"none", "empty"}
  /\ secret' = "foreign"
  /\ UNCHANGED <<row, up, task, probe, patch, faults>>

(* DELETE cascades to the credential. *)
Delete ==
  /\ moves < MaxMoves
  /\ moves' = moves + 1
  /\ row # Gone
  /\ row' = Gone
  /\ secret' = "none"
  /\ UNCHANGED <<up, task, probe, patch, faults>>

-----------------------------------------------------------------------------
Init ==
  /\ row \in [active : BOOLEAN, label : Label, status : {"disconnected"}]
  /\ secret \in {"none"} \cup {Stored(x) : x \in Text}
  /\ up \in BOOLEAN
  /\ task = [t \in Task |-> [pc |-> "idle", copy |-> Gone, retries |-> 0]]
  /\ probe = [q \in Probe |-> "idle"]
  /\ patch = [r \in Patch |-> Gone]
  /\ moves = 0
  /\ faults = 0

Step(t) ==
  \/ Begin(t) \/ MakeClient(t) \/ Collect(t) \/ SaveInfo(t) \/ SaveInfoFails(t)
  \/ MarkError(t) \/ MarkErrorFails(t) \/ Announce(t) \/ Retry(t)

Next ==
  \/ \E t \in Task : Trigger(t) \/ Step(t) \/ Crash(t)
  \/ \E q \in Probe : StartProbe(q) \/ ProbeConnects(q) \/ EndProbe(q)
  \/ \E r \in Patch : StartPatch(r) \/ EndPatch(r)
  \/ VCenterFlips \/ KeyChanges \/ Delete
  \/ \E x \in Text \ {"foreign"} : SetPassword(x)

Spec == Init /\ [][Next]_vars

(* A worker thread keeps running the task it holds and Celery delivers a   *)
(* queued or retried message; requests and the environment are not fair.   *)
FairSpec == Spec /\ \A t \in Task : WF_vars(Step(t))

-----------------------------------------------------------------------------
(* Properties *)

(* A synchronisation or a connection test never undoes what a user did     *)
(* meanwhile: only a PATCH changes active and label, and a platform that   *)
(* was deleted is not brought back by a task that is still in flight.      *)
UserEditsSurviveSync ==
  [][\/ row' = Gone
     \/ row # Gone /\ <<row'.active, row'.label>> = <<row.active, row.label>>
     \/ \E r \in Patch : patch[r] # Gone /\ patch'[r] = Gone]_vars

(* While the vCenter stays unreachable for an enabled platform with a      *)
(* usable credential, and no other fault happens, a sync that is queued    *)
(* leads to status "error".                                                *)
UnreachableIsReported ==
  \A t \in Task, n \in 0..MaxFaults :
    (task[t].pc = "queued"
       /\ [](row # Gone /\ row.active /\ Opens(secret) /\ ~up /\ faults = n))
      ~> (row # Gone /\ row.status = "error")

(* The retries are bounded: every queued sync comes to an end. *)
EverySyncEnds == \A t \in Task : task[t].pc \notin Ended ~> task[t].pc \in Ended
=============================================================================
