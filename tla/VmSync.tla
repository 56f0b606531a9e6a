------------------------------- MODULE VmSync -------------------------------
(***************************************************************************)
(* The Celery tasks virt_center.sync_vms, sync_templates, sync_datastores  *)
(* of one platform.  The first two list all virtual machines of the        *)
(* vCenter; one keeps those that are not templates, the other those that   *)
(* are, each in its own table.  An administrator may convert a machine     *)
(* while they run.  The third lists the datastores, which its table knows  *)
(* by name only.  The links to hosts are in HostLinks.                     *)
(***************************************************************************)
EXTENDS Naturals, FiniteSets

CONSTANTS
  Vm,           \* virtual machines, each named by its uuid
  Store,        \* datastores
  Name,         \* their names: not unique, as folders and datacenters have
                \* their own name spaces
  Task,         \* tasks that can exist at a time
  Scopes,       \* bound: sets of kinds; a behaviour has those of one of them
  MaxRetries,   \* max_retries of the tasks
  MaxMoves,     \* bound: changes of the inventory and of the platform
  MaxFaults     \* bound: lost connections, unparsable machines, failed writes, crashes

MachineKind == {"vm", "template"}

Kind == MachineKind \cup {"datastore"}

ASSUME KindsAssumption == Vm \cap Store = {}
ASSUME BoundAssumption ==
  /\ Scopes \subseteq SUBSET Kind
  /\ MaxRetries \in Nat /\ MaxMoves \in Nat /\ MaxFaults \in Nat

VARIABLES
  scope,        \* the member of Scopes
  platform,     \* "enabled", "disabled" or "deleted"
  inv,          \* the machines and datastores of the vCenter
  rows,         \* rows[k]: the table of kind k
  task,         \* program counter and local variables of the tasks
  moves, faults

vars == <<scope, platform, inv, rows, task, moves, faults>>

-----------------------------------------------------------------------------
(* Types *)

Entry == [id : Vm, name : Name, kind : MachineKind]
           \cup [id : Store, name : Name, kind : {"datastore"}]

(* What a table knows an object by: a machine by its uuid, a datastore by  *)
(* its name.                                                               *)
Key(x) == IF x.kind = "datastore" THEN x.name ELSE x.id

Row == [key : Vm \cup Name, name : Name, active : BOOLEAN]

Running == {"connect", "loop", "write"}

Ended == {"idle", "success", "refused", "failed", "lost"}

(* As in HostSync: todo are the objects not looked at yet, item the one    *)
(* parsed and not written, keys and failed what the code collects (uuids,  *)
(* or names of datastores), fresh a history variable that is TRUE while    *)
(* nothing has made the listing or what was read of it out of date.        *)
TaskState ==
  [pc : Running \cup Ended \cup {"queued", "backoff"}, kind : Kind,
   todo : SUBSET (Vm \cup Store), item : SUBSET Entry,
   keys : SUBSET (Vm \cup Name), failed : SUBSET (Vm \cup Store),
   retries : 0..MaxRetries, fresh : BOOLEAN]

TypeOK ==
  /\ scope \in Scopes
  /\ platform \in {"enabled", "disabled", "deleted"}
  /\ inv \subseteq Entry
  /\ rows \in [Kind -> SUBSET Row]
  /\ task \in [Task -> TaskState]
  /\ moves \in 0..MaxMoves
  /\ faults \in 0..MaxFaults

-----------------------------------------------------------------------------
(* Helpers *)

WellFormed(es) == \A x, y \in es : x.id = y.id => x = y

Ids(es) == {x.id : x \in es}

(* get_vms and get_datastores *)
Listed(k) == {x \in inv : k \in MachineKind <=> x.kind \in MachineKind}

(* The keys a table should have, and those it has. *)
Present(k) == {Key(x) : x \in {y \in inv : y.kind = k}}

Active(k) == {r.key : r \in {q \in rows[k] : q.active}}

Fault == faults < MaxFaults /\ faults' = faults + 1

(* Mutant: the names of inactive rows count as free. *)
ConflictActiveOnly(x) ==
  \/ platform = "deleted"
  \/ \E r \in rows[x.kind] : r.key # Key(x) /\ r.name = x.name /\ r.active

(* IntegrityError of the upsert: the name belongs to another row, active   *)
(* or not, or the platform is gone.                                        *)
Conflict(x) ==
  \/ platform = "deleted"
  \/ \E r \in rows[x.kind] : r.key # Key(x) /\ r.name = x.name

(* update_or_create(platform, uuid, defaults={name, is_active: True, ...}), *)
(* or update_or_create(platform, name, defaults={is_active: True, ...})    *)
Upserted(x) ==
  [rows EXCEPT ![x.kind] =
     {r \in @ : r.key # Key(x)} \cup {[key |-> Key(x), name |-> x.name, active |-> TRUE]}]

(* filter(is_active=True).exclude(uuid__in=ks).update(is_active=False), or *)
(* exclude(name__in=ks)                                                    *)
Marked(k, ks) ==
  [rows EXCEPT ![k] = {[r EXCEPT !.active = r.active /\ r.key \in ks] : r \in @}]

(* raise self.retry(exc): run again after the delay, or give up. *)
Aborted(ts) ==
  [ts EXCEPT !.pc = IF ts.retries < MaxRetries THEN "backoff" ELSE "failed",
             !.item = {}, !.fresh = FALSE]

(* failed_count += 1; continue *)
Skipped(ts, v) == [ts EXCEPT !.pc = "loop", !.item = {}, !.failed = @ \cup {v}]

(* The tasks of the kinds ks are no longer fresh. *)
Stale(f, ks) ==
  [s \in Task |-> IF f[s].kind \in ks THEN [f[s] EXCEPT !.fresh = FALSE] ELSE f[s]]

(* A write of task t outdates the others of its kind if t is out of date. *)
AfterWrite(t, ts) ==
  LET f == [task EXCEPT ![t] = ts]
  IN  IF task[t].fresh THEN f ELSE Stale(f, {ts.kind})

-----------------------------------------------------------------------------
(* The tasks *)

Trigger(t, k) ==
  /\ task[t].pc \in Ended
  /\ platform # "deleted"
  /\ task' = [task EXCEPT ![t] =
                [pc |-> "queued", kind |-> k, todo |-> {}, item |-> {}, keys |-> {},
                 failed |-> {}, retries |-> 0, fresh |-> FALSE]]
  /\ UNCHANGED <<platform, inv, rows, moves, faults>>

Begin(t) ==
  /\ task[t].pc = "queued"
  /\ task' = [task EXCEPT ![t].pc = IF platform = "enabled" THEN "connect" ELSE "refused"]
  /\ UNCHANGED <<platform, inv, rows, moves, faults>>

(* client.get_vms() or client.get_datastores() *)
List(t) ==
  /\ task[t].pc = "connect"
  /\ task' = [task EXCEPT ![t].pc = "loop", ![t].todo = Ids(Listed(task[t].kind)),
                          ![t].keys = {}, ![t].failed = {}, ![t].fresh = TRUE]
  /\ UNCHANGED <<platform, inv, rows, moves, faults>>

(* Mutant: a machine of the other kind is kept among the uuids. *)
SkipKeepsKey(t) ==
  /\ task[t].pc = "loop"
  /\ \E x \in inv :
       /\ x.id \in task[t].todo
       /\ x.kind # task[t].kind
       /\ task' = [task EXCEPT ![t].todo = @ \ {x.id}, ![t].keys = @ \cup {Key(x)}]
  /\ UNCHANGED <<platform, inv, rows, moves, faults>>

(* A machine of the other kind is passed over; what counts is its kind now *)
(* and not when it was listed.                                             *)
SkipOtherKind(t) ==
  /\ task[t].pc = "loop"
  /\ \E x \in inv :
       /\ x.id \in task[t].todo
       /\ x.kind # task[t].kind
       /\ task' = [task EXCEPT ![t].todo = @ \ {x.id}]
  /\ UNCHANGED <<platform, inv, rows, moves, faults>>

(* parse_vm_info, parse_template_info or parse_datastore_info, and append. *)
Parse(t) ==
  /\ task[t].pc = "loop"
  /\ \E x \in inv :
       /\ x.id \in task[t].todo
       /\ x.kind = task[t].kind
       /\ task' = [task EXCEPT ![t].pc = "write",
                               ![t].todo = @ \ {x.id},
                               ![t].item = {x},
                               ![t].keys = @ \cup {Key(x)}]
  /\ UNCHANGED <<platform, inv, rows, moves, faults>>

(* The machine has no config (parse_vm_info returns None, which raises at  *)
(* the next line, while sync_templates passes over it), or parsing raises. *)
ParseFails(t) ==
  /\ task[t].pc = "loop"
  /\ Fault
  /\ \E v \in task[t].todo \cap Ids(inv) :
       LET ts == [task[t] EXCEPT !.todo = @ \ {v}, !.fresh = FALSE]
       IN  \/ task' = [task EXCEPT ![t] = Skipped(ts, v)]
           \/ task[t].kind = "template" /\ task' = [task EXCEPT ![t] = ts]
  /\ UNCHANGED <<platform, inv, rows, moves>>

(* The object is gone: parsing raises, and so does its name in the handler. *)
Vanished(t) ==
  /\ task[t].pc = "loop"
  /\ task[t].todo \ Ids(inv) # {}
  /\ task' = [task EXCEPT ![t] = Aborted(@)]
  /\ UNCHANGED <<platform, inv, rows, moves, faults>>

(* sync_vm_to_db, sync_template_to_db or sync_datastore_to_db commits. *)
Write(t) ==
  /\ task[t].pc = "write"
  /\ \E x \in task[t].item :
       /\ ~Conflict(x)
       /\ rows' = Upserted(x)
  /\ task' = AfterWrite(t, [task[t] EXCEPT !.pc = "loop", !.item = {}])
  /\ UNCHANGED <<platform, inv, moves, faults>>

WriteFails(t) ==
  /\ task[t].pc = "write"
  /\ \E x \in task[t].item :
       /\ \/ Conflict(x) /\ faults' = faults
          \/ Fault
       /\ task' = [task EXCEPT ![t] =
                     IF x.id \in Ids(inv) THEN Skipped(@, x.id) ELSE Aborted(@)]
  /\ UNCHANGED <<platform, inv, rows, moves>>

(* Mutant: machines that failed are deactivated with those that are missing. *)
MarkUnwritten(t) ==
  /\ task[t].pc = "loop"
  /\ task[t].todo = {}
  /\ rows' = Marked(task[t].kind, task[t].keys \ task[t].failed)
  /\ task' = AfterWrite(t, [task[t] EXCEPT !.pc = "success"])
  /\ UNCHANGED <<platform, inv, moves, faults>>

MarkMissing(t) ==
  /\ task[t].pc = "loop"
  /\ task[t].todo = {}
  /\ rows' = Marked(task[t].kind, task[t].keys)
  /\ task' = AfterWrite(t, [task[t] EXCEPT !.pc = "success"])
  /\ UNCHANGED <<platform, inv, moves, faults>>

ConnectionLost(t) ==
  /\ task[t].pc \in {"connect", "loop"}
  /\ Fault
  /\ task' = [task EXCEPT ![t] = Aborted(@)]
  /\ UNCHANGED <<platform, inv, rows, moves>>

Retry(t) ==
  /\ task[t].pc = "backoff"
  /\ task' = [task EXCEPT ![t].pc = "queued", ![t].retries = @ + 1]
  /\ UNCHANGED <<platform, inv, rows, moves, faults>>

Crash(t) ==
  /\ task[t].pc \in Running
  /\ Fault
  /\ task' = [task EXCEPT ![t].pc = "lost", ![t].item = {}, ![t].fresh = FALSE]
  /\ UNCHANGED <<platform, inv, rows, moves>>

-----------------------------------------------------------------------------
(* The environment *)

(* A machine or datastore is created, deleted or renamed, or a machine is  *)
(* converted.                                                              *)
InventoryChanges ==
  /\ moves < MaxMoves
  /\ moves' = moves + 1
  /\ \E x \in {e \in Entry : e.kind \in scope} :
       /\ \/ inv' = inv \ {x}
          \/ inv' = {y \in inv : y.id # x.id} \cup {x}
       /\ task' = Stale(task, IF x.kind \in MachineKind THEN MachineKind ELSE {x.kind})
  /\ inv' # inv
  /\ UNCHANGED <<platform, rows, faults>>

TogglePlatform ==
  /\ moves < MaxMoves
  /\ moves' = moves + 1
  /\ platform # "deleted"
  /\ platform' = IF platform = "enabled" THEN "disabled" ELSE "enabled"
  /\ UNCHANGED <<inv, rows, task, faults>>

DeletePlatform ==
  /\ moves < MaxMoves
  /\ moves' = moves + 1
  /\ platform # "deleted"
  /\ platform' = "deleted"
  /\ rows' = [k \in Kind |-> {}]
  /\ task' = Stale(task, Kind)
  /\ UNCHANGED <<inv, faults>>

-----------------------------------------------------------------------------
Init ==
  /\ scope \in Scopes
  /\ platform = "enabled"
  /\ inv \in {es \in SUBSET {x \in Entry : x.kind \in scope} : WellFormed(es)}
  /\ rows = [k \in Kind |-> {}]
  /\ task = [t \in Task |->
               [pc |-> "idle", kind |-> "vm", todo |-> {}, item |-> {}, keys |-> {},
                failed |-> {}, retries |-> 0, fresh |-> FALSE]]
  /\ moves = 0
  /\ faults = 0

Step(t) ==
  \/ Begin(t) \/ List(t) \/ SkipOtherKind(t) \/ Parse(t) \/ Vanished(t)
  \/ Write(t) \/ WriteFails(t) \/ MarkMissing(t) \/ Retry(t)

Next ==
  /\ UNCHANGED scope
  /\ \/ \E t \in Task : Step(t) \/ ParseFails(t) \/ ConnectionLost(t) \/ Crash(t)
     \/ \E t \in Task, k \in scope : Trigger(t, k)
     \/ InventoryChanges \/ TogglePlatform \/ DeletePlatform

Spec == Init /\ [][Next]_vars

-----------------------------------------------------------------------------
(* Properties *)

(* However objects are renamed, converted and written by overlapping       *)
(* tasks, a table never has two rows for a key or for a name.              *)
RowsAreUnambiguous ==
  \A k \in Kind : \A r, s \in rows[k] : (r.key = s.key \/ r.name = s.name) => r = s

(* No task in flight brings back rows of a platform that was deleted. *)
NoOrphanRows == platform = "deleted" => \A k \in Kind : rows[k] = {}

Clean(t) == task[t].pc = "success" /\ task[t].fresh /\ task[t].failed = {}

(* When a sync_vms and a sync_templates have both read the inventory as it *)
(* is and counted no failure, every machine is active in the table of its  *)
(* kind and in no other, whatever ran in between: a conversion leaves no   *)
(* machine in both tables or in none.  A clean sync_datastores leaves the  *)
(* names there are, also when datastores took over each other's names.     *)
CleanSyncsPartition ==
  \A ks \in {MachineKind, {"datastore"}} :
    (\A k \in ks : \E t \in Task : Clean(t) /\ task[t].kind = k)
      => \A k \in ks : Active(k) = Present(k)

(* What is there and was read is not deactivated by the sync that read it, *)
(* even if its own write failed.                                           *)
ReadMachinesStayActive ==
  [][\A t \in Task, k \in Kind :
       task[t].fresh /\ task[t].kind = k /\ task[t].pc = "loop" /\ task'[t].pc = "success"
         => (Active(k) \cap Present(k)) \subseteq Active(k)']_vars

(***************************************************************************)
(* The inductive invariant behind CleanSyncsPartition.  A fresh task knows *)
(* of every object of its kind, or has it still to look at; one it looked  *)
(* at and did not count as failed is active in the table, or about to be   *)
(* written; and once it has succeeded nothing else is active.              *)
(***************************************************************************)
RetriesLeft == \A t \in Task : task[t].pc = "backoff" => task[t].retries < MaxRetries

ItemsAreTheirs ==
  \A t \in Task :
    /\ task[t].pc # "write" => task[t].item = {}
    /\ \A x, y \in task[t].item : x = y
    /\ \A x \in task[t].item : x.kind = task[t].kind

Own(k) == {x \in inv : x.kind = k}

FreshTask(t) ==
  LET k == task[t].kind
  IN  /\ task[t].pc \in {"loop", "write", "success"}
      /\ task[t].item \subseteq Own(k)
      /\ task[t].keys \subseteq Present(k)
      /\ \A x \in Own(k) : x.id \in task[t].todo \/ Key(x) \in task[t].keys
      /\ \A x \in Own(k) :
            \/ x.id \in task[t].todo \cup task[t].failed
            \/ x \in task[t].item
            \/ Key(x) \in Active(k)
      /\ task[t].pc = "success" => task[t].todo = {} /\ Active(k) \subseteq Present(k)

FreshTasks == \A t \in Task : task[t].fresh => FreshTask(t)

(* With it: the types, the retries that are left, an inventory that has an *)
(* object once, what the items are, and the two facts about the tables.    *)
VmSyncInv ==
  /\ TypeOK
  /\ RetriesLeft
  /\ WellFormed(inv)
  /\ ItemsAreTheirs
  /\ RowsAreUnambiguous
  /\ NoOrphanRows
  /\ FreshTasks
=============================================================================
