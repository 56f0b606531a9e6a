------------------------------ MODULE HostSync ------------------------------
(***************************************************************************)
(* The Celery task virt_center.sync_hosts: it lists the hosts of one       *)
(* vCenter, parses and upserts them one by one, then deactivates the rows  *)
(* it did not see.  Every item is a transaction of its own and nothing     *)
(* locks a platform, so tasks for the same platform overlap freely while   *)
(* the inventory changes under them.                                       *)
(*                                                                         *)
(* inv[p] is what vCenter p manages; hostRows is the table virt_host.  The *)
(* columns kept are the two that are unique (uuid, and name within a       *)
(* platform), the owner and is_active.                                     *)
(***************************************************************************)
EXTENDS Naturals, FiniteSets

CONSTANTS
  Platform,     \* rows of virt_platform
  Host,         \* ESXi hosts, each named by its hardware uuid
  Name,         \* names under which a vCenter shows a host
  Task,         \* sync_hosts tasks that can exist at a time
  Blank,        \* the empty uuid of a host whose hardware summary is missing
  MaxRetries,   \* max_retries of the task
  MaxMoves,     \* bound: changes of the inventory and of platforms
  MaxFaults     \* bound: lost connections, unparsable hosts, failed writes, crashes

ASSUME BlankAssumption == Blank \notin Host
ASSUME BoundAssumption == MaxRetries \in Nat /\ MaxMoves \in Nat /\ MaxFaults \in Nat

VARIABLES
  platform,     \* platform[p]: "enabled", "disabled" (is_active) or "deleted"
  inv,          \* inv[p]: the hosts of vCenter p, with their current names
  hostRows,     \* the table virt_host
  task,         \* task[t]: program counter and local variables of a task
  moves, faults \* how much of the two bounds is used up

vars == <<platform, inv, hostRows, task, moves, faults>>

-----------------------------------------------------------------------------
(* Types *)

Uuid == Host \cup {Blank}

Entry == [uuid : Host, name : Name]

Row == [uuid : Uuid, platform : Platform, name : Name, active : BOOLEAN]

(* What parse_host_info returned; host is the managed object it was read from. *)
Item == [host : Host, uuid : Uuid, name : Name]

Running == {"connect", "loop", "write"}

Ended == {"idle", "success", "refused", "failed", "lost"}

PC == Running \cup Ended \cup {"queued", "backoff"}

(***************************************************************************)
(* todo: managed objects not looked at yet; item: the parsed host between  *)
(* parsing and writing; uuids: host_uuids; failed: the hosts counted in    *)
(* failed_count; fresh: a history variable, TRUE while the inventory has   *)
(* not changed since the task listed it, the task has parsed every host it *)
(* met, and no stale task has written to the same platform since.          *)
(***************************************************************************)
TaskState ==
  [pc : PC, platform : Platform, todo : SUBSET Host, item : SUBSET Item,
   uuids : SUBSET Uuid, failed : SUBSET Host, retries : 0..MaxRetries,
   fresh : BOOLEAN]

TypeOK ==
  /\ platform \in [Platform -> {"enabled", "disabled", "deleted"}]
  /\ inv \in [Platform -> SUBSET Entry]
  /\ hostRows \subseteq Row
  /\ task \in [Task -> TaskState]
  /\ moves \in 0..MaxMoves
  /\ faults \in 0..MaxFaults

-----------------------------------------------------------------------------
(* Helpers *)

(* A vCenter shows a host once and gives two hosts different names. *)
WellFormed(es) == \A x, y \in es : x.uuid = y.uuid \/ x.name = y.name => x = y

HostsAt(p) == {x.uuid : x \in inv[p]}

(* Reading a property of a managed object is a call to the vCenter: it     *)
(* raises once the object is gone.                                         *)
Readable(p, h) == \E x \in inv[p] : x.uuid = h

RowsOf(p) == {r \in hostRows : r.platform = p}

ActiveEntries(p) ==
  {[uuid |-> r.uuid, name |-> r.name] : r \in {q \in RowsOf(p) : q.active}}

(* IntegrityError of the upsert of (p, u) with name n: the uuid belongs to *)
(* a row of another platform, the name to another row of this platform     *)
(* (active or not), or the platform row is gone.                           *)
Conflict(p, u, n) ==
  \/ platform[p] = "deleted"
  \/ \E r \in hostRows : r.uuid = u /\ r.platform # p
  \/ \E r \in hostRows : r.uuid # u /\ r.platform = p /\ r.name = n

(* Mutant: is_active is set on creation only. *)
UpsertedKeepsInactive(p, u, n) ==
  LET old == {r \in hostRows : r.platform = p /\ r.uuid = u}
  IN  (hostRows \ old) \cup
        {[uuid |-> u, platform |-> p, name |-> n, active |-> \A r \in old : r.active]}

(* update_or_create(platform=p, uuid=u, defaults={name, is_active: True}) *)
Upserted(p, u, n) ==
  {r \in hostRows : ~(r.platform = p /\ r.uuid = u)}
    \cup {[uuid |-> u, platform |-> p, name |-> n, active |-> TRUE]}

(* filter(platform=p, is_active=True).exclude(uuid__in=us).update(False) *)
Marked(p, us) ==
  LET gone == {r \in hostRows : r.platform = p /\ r.active /\ r.uuid \notin us}
  IN  (hostRows \ gone) \cup {[r EXCEPT !.active = FALSE] : r \in gone}

(* raise self.retry(exc): run again after the delay, or give up. *)
Aborted(ts) ==
  [ts EXCEPT !.pc = IF ts.retries < MaxRetries THEN "backoff" ELSE "failed",
             !.item = {},
             !.fresh = FALSE]

(* Mutant: a host that failed is tried again in the same loop. *)
SkippedForNow(ts, h) ==
  [ts EXCEPT !.pc = "loop", !.item = {}, !.failed = @ \cup {h}, !.todo = @ \cup {h}]

(* failed_count += 1; continue *)
Skipped(ts, h) == [ts EXCEPT !.pc = "loop", !.item = {}, !.failed = @ \cup {h}]

(* History: the tasks of platform p are no longer fresh. *)
Stale(f, p) ==
  [s \in Task |-> IF f[s].platform = p THEN [f[s] EXCEPT !.fresh = FALSE] ELSE f[s]]

(* A write of task t: it leaves the others fresh only if it is fresh itself. *)
AfterWrite(t, ts) ==
  LET f == [task EXCEPT ![t] = ts]
  IN  IF task[t].fresh THEN f ELSE Stale(f, ts.platform)

-----------------------------------------------------------------------------
(* The task *)

(* task.delay(platform_id), from the platform page or the sync page. *)
Trigger(t, p) ==
  /\ task[t].pc \in Ended
  /\ platform[p] # "deleted"
  /\ task' = [task EXCEPT ![t] =
                [pc |-> "queued", platform |-> p, todo |-> {}, item |-> {},
                 uuids |-> {}, failed |-> {}, retries |-> 0, fresh |-> FALSE]]
  /\ UNCHANGED <<platform, inv, hostRows, moves, faults>>

(* Platform.objects.get(id=..., is_active=True); a miss is an ordinary return. *)
Begin(t) ==
  /\ task[t].pc = "queued"
  /\ task' = [task EXCEPT ![t].pc =
                IF platform[task[t].platform] = "enabled" THEN "connect" ELSE "refused"]
  /\ UNCHANGED <<platform, inv, hostRows, moves, faults>>

(* client.get_hosts() *)
List(t) ==
  /\ task[t].pc = "connect"
  /\ task' = [task EXCEPT ![t].pc = "loop",
                          ![t].todo = HostsAt(task[t].platform),
                          ![t].item = {},
                          ![t].uuids = {},
                          ![t].failed = {},
                          ![t].fresh = TRUE]
  /\ UNCHANGED <<platform, inv, hostRows, moves, faults>>

(* parse_host_info, then host_uuids.append, before the row is written. *)
ParseHost(t) ==
  /\ task[t].pc = "loop"
  /\ \E h \in task[t].todo, u \in Uuid :
       /\ u = h \/ (u = Blank /\ faults < MaxFaults)
       /\ \E x \in inv[task[t].platform] :
            /\ x.uuid = h
            /\ task' = [task EXCEPT ![t].pc = "write",
                                    ![t].todo = @ \ {h},
                                    ![t].item = {[host |-> h, uuid |-> u, name |-> x.name]},
                                    ![t].uuids = @ \cup {u},
                                    ![t].fresh = @ /\ u = h]
       /\ faults' = IF u = h THEN faults ELSE faults + 1
  /\ UNCHANGED <<platform, inv, hostRows, moves>>

(* parse_host_info raises on a host that is there: counted, and the uuid   *)
(* is not remembered.                                                      *)
ParseFails(t) ==
  /\ task[t].pc = "loop"
  /\ faults < MaxFaults
  /\ \E h \in task[t].todo :
       /\ Readable(task[t].platform, h)
       /\ task' = [task EXCEPT ![t] =
                     Skipped([task[t] EXCEPT !.todo = @ \ {h}, !.fresh = FALSE], h)]
  /\ faults' = faults + 1
  /\ UNCHANGED <<platform, inv, hostRows, moves>>

(* The host went away after the listing: parsing raises, and so does the   *)
(* handler when it reads host.name for its log line, which ends the loop.  *)
HostVanished(t) ==
  /\ task[t].pc = "loop"
  /\ \E h \in task[t].todo : ~Readable(task[t].platform, h)
  /\ task' = [task EXCEPT ![t] = Aborted(@)]
  /\ UNCHANGED <<platform, inv, hostRows, moves, faults>>

(* Mutant: the row is looked up by uuid alone, whoever owns it. *)
WriteHostByUuid(t) ==
  /\ task[t].pc = "write"
  /\ \E i \in task[t].item :
       /\ platform[task[t].platform] # "deleted"
       /\ hostRows' = {r \in hostRows : r.uuid # i.uuid} \cup
                       {[uuid |-> i.uuid, platform |-> task[t].platform,
                         name |-> i.name, active |-> TRUE]}
       /\ task' = AfterWrite(t, [task[t] EXCEPT !.pc = "loop", !.item = {}])
  /\ UNCHANGED <<platform, inv, moves, faults>>

(* sync_host_to_db commits. *)
WriteHost(t) ==
  /\ task[t].pc = "write"
  /\ \E i \in task[t].item :
       /\ ~Conflict(task[t].platform, i.uuid, i.name)
       /\ hostRows' = Upserted(task[t].platform, i.uuid, i.name)
       /\ task' = AfterWrite(t, [task[t] EXCEPT !.pc = "loop", !.item = {}])
  /\ UNCHANGED <<platform, inv, moves, faults>>

(* sync_host_to_db raises, on a conflict or because the database does: the *)
(* host is counted as failed, unless the handler's host.name raises again. *)
WriteFails(t) ==
  /\ task[t].pc = "write"
  /\ \E i \in task[t].item :
       /\ \/ Conflict(task[t].platform, i.uuid, i.name) /\ faults' = faults
          \/ faults < MaxFaults /\ faults' = faults + 1
       /\ task' = [task EXCEPT ![t] =
                     IF Readable(task[t].platform, i.host)
                     THEN Skipped(@, i.host) ELSE Aborted(@)]
  /\ UNCHANGED <<platform, inv, hostRows, moves>>

(* Mutant: the pass runs before the loop is over. *)
MarkMissingEarly(t) ==
  /\ task[t].pc = "loop"
  /\ hostRows' = Marked(task[t].platform, task[t].uuids)
  /\ task' = AfterWrite(t, [task[t] EXCEPT !.pc = "success"])
  /\ UNCHANGED <<platform, inv, moves, faults>>

(* The deactivation pass, and the successful return. *)
MarkMissing(t) ==
  /\ task[t].pc = "loop"
  /\ task[t].todo = {}
  /\ hostRows' = Marked(task[t].platform, task[t].uuids)
  /\ task' = AfterWrite(t, [task[t] EXCEPT !.pc = "success"])
  /\ UNCHANGED <<platform, inv, moves, faults>>

(* The vCenter cannot be reached, or the session breaks in the loop, where *)
(* the handler's host.name then raises too.                                *)
ConnectionLost(t) ==
  /\ task[t].pc \in {"connect", "loop"}
  /\ faults < MaxFaults
  /\ faults' = faults + 1
  /\ task' = [task EXCEPT ![t] = Aborted(@)]
  /\ UNCHANGED <<platform, inv, hostRows, moves>>

(* The retry message is delivered after default_retry_delay. *)
Retry(t) ==
  /\ task[t].pc = "backoff"
  /\ task' = [task EXCEPT ![t].pc = "queued", ![t].retries = @ + 1]
  /\ UNCHANGED <<platform, inv, hostRows, moves, faults>>

(* The worker dies; the message was acknowledged on receipt. *)
Crash(t) ==
  /\ task[t].pc \in Running
  /\ faults < MaxFaults
  /\ faults' = faults + 1
  /\ task' = [task EXCEPT ![t].pc = "lost", ![t].item = {}, ![t].fresh = FALSE]
  /\ UNCHANGED <<platform, inv, hostRows, moves>>

-----------------------------------------------------------------------------
(* The environment *)

(* A vCenter administrator adds, removes, renames or replaces one host. *)
InventoryChanges(p) ==
  /\ moves < MaxMoves
  /\ moves' = moves + 1
  /\ \E x \in Entry :
       \/ inv' = [inv EXCEPT ![p] = @ \ {x}]
       \/ inv' = [inv EXCEPT ![p] = {y \in @ : y.uuid # x.uuid} \cup {x}]
  /\ inv' # inv
  /\ WellFormed(inv'[p])
  /\ task' = Stale(task, p)
  /\ UNCHANGED <<platform, hostRows, faults>>

(* PATCH is_active on the platform. *)
TogglePlatform(p) ==
  /\ moves < MaxMoves
  /\ moves' = moves + 1
  /\ platform[p] # "deleted"
  /\ platform' = [platform EXCEPT ![p] = IF @ = "enabled" THEN "disabled" ELSE "enabled"]
  /\ UNCHANGED <<inv, hostRows, task, faults>>

(* DELETE on the platform cascades to its hosts. *)
DeletePlatform(p) ==
  /\ moves < MaxMoves
  /\ moves' = moves + 1
  /\ platform[p] # "deleted"
  /\ platform' = [platform EXCEPT ![p] = "deleted"]
  /\ hostRows' = hostRows \ RowsOf(p)
  /\ task' = Stale(task, p)
  /\ UNCHANGED <<inv, faults>>

-----------------------------------------------------------------------------
Init ==
  /\ platform = [p \in Platform |-> "enabled"]
  /\ inv \in [Platform -> {es \in SUBSET Entry : WellFormed(es)}]
  /\ hostRows = {}
  /\ task \in [Task -> {[pc |-> "idle", platform |-> p, todo |-> {}, item |-> {},
                         uuids |-> {}, failed |-> {}, retries |-> 0,
                         fresh |-> FALSE] : p \in Platform}]
  /\ moves = 0
  /\ faults = 0

(* What the worker does for task t when nothing breaks. *)
Step(t) ==
  \/ Begin(t) \/ List(t) \/ ParseHost(t) \/ HostVanished(t)
  \/ WriteHost(t) \/ WriteFails(t) \/ MarkMissing(t) \/ Retry(t)

Next ==
  \/ \E t \in Task : Step(t)
  \/ \E t \in Task : ParseFails(t) \/ ConnectionLost(t) \/ Crash(t)
  \/ \E t \in Task, p \in Platform : Trigger(t, p)
  \/ \E p \in Platform : InventoryChanges(p) \/ TogglePlatform(p) \/ DeletePlatform(p)

Spec == Init /\ [][Next]_vars

(* A worker thread keeps running the task it holds, and Celery delivers a  *)
(* queued or retried message; nobody has to trigger a task or break one.   *)
FairSpec == Spec /\ \A t \in Task : WF_vars(Step(t))

-----------------------------------------------------------------------------
(* Properties *)

(* Host.objects.get(platform=..., name=...) in sync_vm_to_db never finds   *)
(* two rows, and get_or_create by (platform, uuid) neither, whatever       *)
(* renames, replacements and overlapping tasks did to the table.           *)
HostLookupIsUnambiguous ==
  \A r, s \in hostRows :
    (r.uuid = s.uuid \/ (r.platform = s.platform /\ r.name = s.name)) => r = s

(* A task that was in flight when its platform was deleted brings no row   *)
(* of that platform back.                                                  *)
NoOrphanRows == \A r \in hostRows : platform[r.platform] # "deleted"

(* A sync_hosts that read an unchanged inventory and counted no failure    *)
(* leaves exactly that inventory active in the table, however many other   *)
(* tasks that also read it wrote to the platform meanwhile.                *)
CleanSyncMirrors ==
  \A t \in Task :
    task[t].pc = "success" /\ task[t].fresh /\ task[t].failed = {}
      => ActiveEntries(task[t].platform) = inv[task[t].platform]

(* A host's row is never handed to another platform: it keeps its platform *)
(* and its uuid until the platform is deleted.                             *)
RowsStayWithTheirPlatform ==
  [][\A r \in hostRows :
       \/ \E s \in hostRows' : s.uuid = r.uuid /\ s.platform = r.platform
       \/ platform'[r.platform] = "deleted"]_vars

(* The retries are bounded: every sync that was queued comes to an end. *)
EverySyncEnds == \A t \in Task : task[t].pc \notin Ended ~> task[t].pc \in Ended

(***************************************************************************)
(* The inductive invariant behind CleanSyncMirrors.  Recorded(t) are the   *)
(* hosts whose row a fresh task has written: they stay in the table with   *)
(* their current name until the task is stale.  Once it has succeeded, no  *)
(* other host of the platform is active.                                   *)
(***************************************************************************)
RetriesLeft == \A t \in Task : task[t].pc = "backoff" => task[t].retries < MaxRetries

InventoryWellFormed == \A p \in Platform : WellFormed(inv[p])

Recorded(t) == (task[t].uuids \ task[t].failed) \ {i.uuid : i \in task[t].item}

FreshTask(t) ==
  LET p == task[t].platform
  IN  /\ task[t].pc \in {"loop", "write", "success"}
      /\ task[t].uuids \cup task[t].todo = HostsAt(p)
      /\ task[t].pc # "write" => task[t].item = {}
      /\ \A i, j \in task[t].item : i = j /\ i.uuid = i.host
      /\ \A i \in task[t].item : [uuid |-> i.uuid, name |-> i.name] \in inv[p]
      /\ \A x \in inv[p] : x.uuid \in Recorded(t) => x \in ActiveEntries(p)
      /\ task[t].pc = "success" =>
            /\ task[t].todo = {}
            /\ \A e \in ActiveEntries(p) : e.uuid \in HostsAt(p)

FreshTasks == \A t \in Task : task[t].fresh => FreshTask(t)

HostSyncInv ==
  /\ TypeOK
  /\ RetriesLeft
  /\ InventoryWellFormed
  /\ HostLookupIsUnambiguous
  /\ NoOrphanRows
  /\ FreshTasks
=============================================================================
