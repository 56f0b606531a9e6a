--------------------------- MODULE HostSync_proofs ---------------------------
(* Machine-checked proofs about HostSync, for every value of its constants. *)
EXTENDS HostSync, TLAPS

-----------------------------------------------------------------------------
(* Type correctness *)

(* Each helper that builds a new value of a variable builds a well-typed one. *)
LEMMA AbortedType ==
  ASSUME NEW ts \in TaskState
  PROVE  Aborted(ts) \in TaskState
BY DEF Aborted, TaskState, PC, Ended, Running

LEMMA SkippedType ==
  ASSUME NEW ts \in TaskState, NEW h \in Host
  PROVE  Skipped(ts, h) \in TaskState
BY DEF Skipped, TaskState, PC, Running

LEMMA StaleType ==
  ASSUME NEW f \in [Task -> TaskState], NEW p
  PROVE  Stale(f, p) \in [Task -> TaskState]
BY DEF Stale, TaskState

LEMMA UpsertedType ==
  ASSUME hostRows \subseteq Row,
         NEW p \in Platform, NEW u \in Uuid, NEW n \in Name
  PROVE  Upserted(p, u, n) \subseteq Row
<1>1. [uuid |-> u, platform |-> p, name |-> n, active |-> TRUE] \in Row
  BY DEF Row
<1> QED
  BY <1>1 DEF Upserted

LEMMA MarkedType ==
  ASSUME hostRows \subseteq Row, NEW p, NEW us
  PROVE  Marked(p, us) \subseteq Row
BY DEF Marked, Row

LEMMA AfterWriteType ==
  ASSUME task \in [Task -> TaskState], NEW t \in Task, NEW ts \in TaskState
  PROVE  AfterWrite(t, ts) \in [Task -> TaskState]
<1> DEFINE f == [task EXCEPT ![t] = ts]
<1>1. f \in [Task -> TaskState]
  OBVIOUS
<1> QED
  BY <1>1, StaleType DEF AfterWrite

LEMMA StepType ==
  ASSUME TypeOK, RetriesLeft, NEW t \in Task, Step(t)
  PROVE  TypeOK'
<1> USE DEF TypeOK
<1>0. /\ task[t] \in TaskState
      /\ task[t].platform \in Platform
      /\ HostsAt(task[t].platform) \subseteq Host
  BY DEF TaskState, HostsAt, Entry
<1>1. CASE Begin(t)
  BY <1>0, <1>1 DEF Begin, TaskState, PC, Running, Ended
<1>2. CASE List(t)
  BY <1>0, <1>2 DEF List, TaskState, PC, Running
<1>3. CASE ParseHost(t)
  <2>1. PICK h \in task[t].todo, u \in Uuid, x \in inv[task[t].platform] :
          /\ task' = [task EXCEPT ![t].pc = "write",
                                  ![t].todo = @ \ {h},
                                  ![t].item = {[host |-> h, uuid |-> u, name |-> x.name]},
                                  ![t].uuids = @ \cup {u},
                                  ![t].fresh = @ /\ u = h]
          /\ \/ u = h
             \/ u = Blank /\ faults < MaxFaults
          /\ faults' = IF u = h THEN faults ELSE faults + 1
    BY <1>3 DEF ParseHost
  <2>2. [host |-> h, uuid |-> u, name |-> x.name] \in Item
    BY <1>0 DEF Item, TaskState, Entry
  <2>3. task' \in [Task -> TaskState]
    BY <1>0, <2>1, <2>2 DEF TaskState, PC, Running
  <2>4. faults' \in 0..MaxFaults
    BY <2>1, BoundAssumption
  <2> QED
    BY <1>3, <2>3, <2>4 DEF ParseHost
<1>4. CASE HostVanished(t)
  BY <1>0, <1>4, AbortedType DEF HostVanished
<1>5. CASE WriteHost(t)
  <2>1. PICK i \in task[t].item :
          /\ hostRows' = Upserted(task[t].platform, i.uuid, i.name)
          /\ task' = AfterWrite(t, [task[t] EXCEPT !.pc = "loop", !.item = {}])
    BY <1>5 DEF WriteHost
  <2>2. i.uuid \in Uuid /\ i.name \in Name
    BY <1>0 DEF TaskState, Item
  <2>3. [task[t] EXCEPT !.pc = "loop", !.item = {}] \in TaskState
    BY <1>0 DEF TaskState, PC, Running
  <2>4. hostRows' \subseteq Row
    BY <1>0, <2>1, <2>2, UpsertedType
  <2>5. task' \in [Task -> TaskState]
    BY <2>1, <2>3, AfterWriteType
  <2> QED
    BY <1>5, <2>4, <2>5 DEF WriteHost
<1>6. CASE WriteFails(t)
  <2>1. PICK i \in task[t].item :
          /\ faults' = faults \/ (faults < MaxFaults /\ faults' = faults + 1)
          /\ task' = [task EXCEPT ![t] = IF Readable(task[t].platform, i.host)
                                         THEN Skipped(@, i.host) ELSE Aborted(@)]
    BY <1>6 DEF WriteFails
  <2>2. i.host \in Host
    BY <1>0 DEF TaskState, Item
  <2>3. Skipped(task[t], i.host) \in TaskState
    BY <1>0, <2>2, SkippedType
  <2>4. Aborted(task[t]) \in TaskState
    BY <1>0, AbortedType
  <2>5. task' \in [Task -> TaskState]
    BY <2>1, <2>3, <2>4
  <2>6. faults' \in 0..MaxFaults
    BY <2>1, BoundAssumption
  <2> QED
    BY <1>6, <2>5, <2>6 DEF WriteFails
<1>7. CASE MarkMissing(t)
  <2>1. [task[t] EXCEPT !.pc = "success"] \in TaskState
    BY <1>0 DEF TaskState, PC, Ended
  <2>2. task' \in [Task -> TaskState]
    BY <1>7, <2>1, AfterWriteType DEF MarkMissing
  <2>3. hostRows' \subseteq Row
    BY <1>7, MarkedType DEF MarkMissing
  <2> QED
    BY <1>7, <2>2, <2>3 DEF MarkMissing
<1>8. CASE Retry(t)
  <2>1. task[t].retries + 1 \in 0..MaxRetries
    BY <1>0, <1>8, BoundAssumption DEF Retry, RetriesLeft, TaskState
  <2>2. [task[t] EXCEPT !.pc = "queued", !.retries = task[t].retries + 1] \in TaskState
    BY <1>0, <2>1 DEF TaskState, PC
  <2>3. task' = [task EXCEPT ![t] =
                   [task[t] EXCEPT !.pc = "queued", !.retries = task[t].retries + 1]]
    BY <1>8 DEF Retry
  <2> QED
    BY <1>8, <2>2, <2>3 DEF Retry
<1> QED
  BY <1>1, <1>2, <1>3, <1>4, <1>5, <1>6, <1>7, <1>8 DEF Step

LEMMA FaultType ==
  ASSUME TypeOK, NEW t \in Task, ParseFails(t) \/ ConnectionLost(t) \/ Crash(t)
  PROVE  TypeOK'
<1> USE DEF TypeOK
<1>0. task[t] \in TaskState
  OBVIOUS
<1>f. faults < MaxFaults => faults + 1 \in 0..MaxFaults
  BY BoundAssumption
<1>1. CASE ParseFails(t)
  <2>1. PICK h \in task[t].todo :
          task' = [task EXCEPT ![t] =
                     Skipped([task[t] EXCEPT !.todo = @ \ {h}, !.fresh = FALSE], h)]
    BY <1>1 DEF ParseFails
  <2>2. h \in Host /\ [task[t] EXCEPT !.todo = @ \ {h}, !.fresh = FALSE] \in TaskState
    BY <1>0 DEF TaskState
  <2>3. Skipped([task[t] EXCEPT !.todo = @ \ {h}, !.fresh = FALSE], h) \in TaskState
    BY <2>2, SkippedType
  <2>4. task' \in [Task -> TaskState]
    BY <2>1, <2>3
  <2> QED
    BY <1>1, <1>f, <2>4 DEF ParseFails
<1>2. CASE ConnectionLost(t)
  BY <1>0, <1>2, <1>f, AbortedType DEF ConnectionLost
<1>3. CASE Crash(t)
  BY <1>0, <1>3, <1>f DEF Crash, TaskState, PC, Ended
<1> QED
  BY <1>1, <1>2, <1>3

LEMMA TriggerType ==
  ASSUME TypeOK, NEW t \in Task, NEW p \in Platform, Trigger(t, p)
  PROVE  TypeOK'
<1>1. [pc |-> "queued", platform |-> p, todo |-> {}, item |-> {}, uuids |-> {},
       failed |-> {}, retries |-> 0, fresh |-> FALSE] \in TaskState
  BY BoundAssumption DEF TaskState, PC
<1> QED
  BY <1>1 DEF Trigger, TypeOK

LEMMA EnvironmentType ==
  ASSUME TypeOK, NEW p \in Platform,
         InventoryChanges(p) \/ TogglePlatform(p) \/ DeletePlatform(p)
  PROVE  TypeOK'
<1> USE DEF TypeOK
<1>0. moves' \in 0..MaxMoves
  BY BoundAssumption DEF InventoryChanges, TogglePlatform, DeletePlatform
<1>1. CASE InventoryChanges(p)
  BY <1>0, <1>1, StaleType DEF InventoryChanges
<1>2. CASE TogglePlatform(p)
  BY <1>0, <1>2 DEF TogglePlatform
<1>3. CASE DeletePlatform(p)
  BY <1>0, <1>3, StaleType DEF DeletePlatform
<1> QED
  BY <1>1, <1>2, <1>3

LEMMA InitType == Init => TypeOK
<1> SUFFICES ASSUME Init PROVE TypeOK
  OBVIOUS
<1>1. \A p \in Platform :
        [pc |-> "idle", platform |-> p, todo |-> {}, item |-> {}, uuids |-> {},
         failed |-> {}, retries |-> 0, fresh |-> FALSE] \in TaskState
  BY BoundAssumption DEF TaskState, PC, Ended
<1>2. task \in [Task -> TaskState]
  BY <1>1 DEF Init
<1> QED
  BY <1>2, BoundAssumption DEF Init, TypeOK

-----------------------------------------------------------------------------
(* The table: what an upsert and a deactivation pass do to it *)

LEMMA UpsertedRows ==
  ASSUME HostLookupIsUnambiguous, NoOrphanRows,
         NEW p \in Platform, NEW u, NEW n, ~Conflict(p, u, n),
         hostRows' = Upserted(p, u, n), platform' = platform
  PROVE  HostLookupIsUnambiguous' /\ NoOrphanRows'
<1> DEFINE new == [uuid |-> u, platform |-> p, name |-> n, active |-> TRUE]
<1>1. \A r \in hostRows' : r = new \/ (r \in hostRows /\ ~(r.platform = p /\ r.uuid = u))
  BY DEF Upserted
<1>2. \A r \in hostRows : ~(r.platform = p /\ r.uuid = u) =>
        r.uuid # u /\ ~(r.platform = p /\ r.name = n)
  BY DEF Conflict
<1>3. new.uuid = u /\ new.platform = p /\ new.name = n
  OBVIOUS
<1> HIDE DEF new
<1>4. HostLookupIsUnambiguous'
  BY <1>1, <1>2, <1>3 DEF HostLookupIsUnambiguous
<1>5. NoOrphanRows'
  BY <1>1, <1>3 DEF NoOrphanRows, Conflict
<1> QED
  BY <1>4, <1>5

LEMMA MarkedRows ==
  ASSUME hostRows \subseteq Row, HostLookupIsUnambiguous, NoOrphanRows,
         NEW p, NEW us, hostRows' = Marked(p, us), platform' = platform
  PROVE  HostLookupIsUnambiguous' /\ NoOrphanRows'
<1> DEFINE gone == {r \in hostRows : r.platform = p /\ r.active /\ r.uuid \notin us}
<1>a. \A q \in Row : LET r == [q EXCEPT !.active = FALSE]
                    IN  r.uuid = q.uuid /\ r.platform = q.platform /\ r.name = q.name
  BY DEF Row
<1>b. \A r \in hostRows' :
        \/ r \in hostRows /\ r \notin gone
        \/ \E q \in gone : r = [q EXCEPT !.active = FALSE]
  BY DEF Marked
<1>1. \A r \in hostRows' : \E q \in hostRows :
        /\ r.uuid = q.uuid /\ r.platform = q.platform /\ r.name = q.name
        /\ r = IF q \in gone THEN [q EXCEPT !.active = FALSE] ELSE q
  BY <1>a, <1>b
<1> HIDE DEF gone
<1>2. HostLookupIsUnambiguous'
  <2> SUFFICES ASSUME NEW r \in hostRows', NEW s \in hostRows',
                      r.uuid = s.uuid \/ (r.platform = s.platform /\ r.name = s.name)
               PROVE  r = s
    BY DEF HostLookupIsUnambiguous
  <2>1. PICK q \in hostRows :
          /\ r.uuid = q.uuid /\ r.platform = q.platform /\ r.name = q.name
          /\ r = IF q \in gone THEN [q EXCEPT !.active = FALSE] ELSE q
    BY <1>1
  <2>2. PICK o \in hostRows :
          /\ s.uuid = o.uuid /\ s.platform = o.platform /\ s.name = o.name
          /\ s = IF o \in gone THEN [o EXCEPT !.active = FALSE] ELSE o
    BY <1>1
  <2>3. q = o
    BY <2>1, <2>2 DEF HostLookupIsUnambiguous
  <2> QED
    BY <2>1, <2>2, <2>3
<1>3. NoOrphanRows'
  BY <1>1 DEF NoOrphanRows
<1> QED
  BY <1>2, <1>3

(* Writing an entry of the inventory keeps every other entry of it. *)
LEMMA UpsertedEntries ==
  ASSUME hostRows \subseteq Row, NEW p, NEW u, NEW n, hostRows' = Upserted(p, u, n)
  PROVE  /\ [uuid |-> u, name |-> n] \in ActiveEntries(p)'
         /\ \A e \in ActiveEntries(p) : e.uuid # u => e \in ActiveEntries(p)'
         /\ \A e \in ActiveEntries(p)' : e.uuid = u \/ e \in ActiveEntries(p)
         /\ \A q : q # p => ActiveEntries(q)' = ActiveEntries(q)
<1> DEFINE new == [uuid |-> u, platform |-> p, name |-> n, active |-> TRUE]
<1>1. \A r : r \in hostRows' <=> r = new \/ (r \in hostRows /\ ~(r.platform = p /\ r.uuid = u))
  BY DEF Upserted
<1>2. new.uuid = u /\ new.platform = p /\ new.name = n /\ new.active
  OBVIOUS
<1> HIDE DEF new
<1>3. \A q, e : e \in ActiveEntries(q) <=>
        \E r \in hostRows : r.platform = q /\ r.active /\ e = [uuid |-> r.uuid, name |-> r.name]
  BY DEF ActiveEntries, RowsOf
<1>4. \A q, e : e \in ActiveEntries(q)' <=>
        \E r \in hostRows' : r.platform = q /\ r.active /\ e = [uuid |-> r.uuid, name |-> r.name]
  BY DEF ActiveEntries, RowsOf
<1>5. [uuid |-> u, name |-> n] \in ActiveEntries(p)'
  BY <1>1, <1>2, <1>4
<1>6. \A e \in ActiveEntries(p) : e.uuid # u => e \in ActiveEntries(p)'
  BY <1>1, <1>3, <1>4
<1>7. \A e \in ActiveEntries(p)' : e.uuid = u \/ e \in ActiveEntries(p)
  BY <1>1, <1>2, <1>3, <1>4
<1>8. ASSUME NEW q, q # p PROVE ActiveEntries(q)' = ActiveEntries(q)
  <2>1. \A e : e \in ActiveEntries(q)' <=> e \in ActiveEntries(q)
    BY <1>1, <1>2, <1>3, <1>4, <1>8
  <2>2. ActiveEntries(q)' \subseteq ActiveEntries(q) /\ ActiveEntries(q) \subseteq ActiveEntries(q)'
    BY <2>1
  <2> QED
    BY <2>2
<1> QED
  BY <1>5, <1>6, <1>7, <1>8

LEMMA MarkedEntries ==
  ASSUME hostRows \subseteq Row, NEW p, NEW us, hostRows' = Marked(p, us)
  PROVE  /\ \A e \in ActiveEntries(p) : e.uuid \in us => e \in ActiveEntries(p)'
         /\ \A e \in ActiveEntries(p)' : e.uuid \in us /\ e \in ActiveEntries(p)
         /\ \A q : q # p => ActiveEntries(q)' = ActiveEntries(q)
<1> USE DEF Marked, ActiveEntries, RowsOf, Row
<1>1. \A e \in ActiveEntries(p) : e.uuid \in us => e \in ActiveEntries(p)'
  OBVIOUS
<1>2. \A e \in ActiveEntries(p)' : e.uuid \in us /\ e \in ActiveEntries(p)
  OBVIOUS
<1>3. \A q : q # p => ActiveEntries(q)' = ActiveEntries(q)
  OBVIOUS
<1> QED
  BY <1>1, <1>2, <1>3

-----------------------------------------------------------------------------
(* Fresh tasks *)

(* A fresh task stays one while neither it, nor its inventory, nor the     *)
(* rows it answers for change.                                             *)
LEMMA FreshFrame ==
  ASSUME NEW s \in Task, FreshTask(s), task'[s] = task[s],
         NEW q, q = task[s].platform, inv'[q] = inv[q],
         ActiveEntries(q)' = ActiveEntries(q)
  PROVE  FreshTask(s)'
BY DEF FreshTask, Recorded, HostsAt

(* The same when a fresh task of the same platform writes a current entry. *)
LEMMA FreshUpsert ==
  ASSUME TypeOK, InventoryWellFormed,
         NEW s \in Task, FreshTask(s), task'[s] = task[s], inv' = inv,
         NEW u, NEW n, [uuid |-> u, name |-> n] \in inv[task[s].platform],
         hostRows' = Upserted(task[s].platform, u, n)
  PROVE  FreshTask(s)'
<1> DEFINE p == task[s].platform
<1>1. /\ [uuid |-> u, name |-> n] \in ActiveEntries(p)'
      /\ \A e \in ActiveEntries(p) : e.uuid # u => e \in ActiveEntries(p)'
      /\ \A e \in ActiveEntries(p)' : e.uuid = u \/ e \in ActiveEntries(p)
  BY UpsertedEntries DEF TypeOK
<1>2. p \in Platform
  BY DEF TypeOK, TaskState
<1>3. \A x \in inv[p] : x.uuid = u => x = [uuid |-> u, name |-> n]
  BY <1>2 DEF InventoryWellFormed, WellFormed
<1>4. u \in HostsAt(p)
  BY DEF HostsAt
<1> HIDE DEF p
<1>5. \A x \in inv[p] : x \in ActiveEntries(p) => x \in ActiveEntries(p)'
  BY <1>1, <1>3
<1>6. \A e \in ActiveEntries(p)' : e \in ActiveEntries(p) \/ e.uuid \in HostsAt(p)
  BY <1>1, <1>4
<1> QED
  BY <1>5, <1>6 DEF p, FreshTask, Recorded, HostsAt

(* And when a fresh task of the same platform runs its deactivation pass. *)
LEMMA FreshMark ==
  ASSUME TypeOK, NEW s \in Task, FreshTask(s), task'[s] = task[s], inv' = inv,
         hostRows' = Marked(task[s].platform, HostsAt(task[s].platform))
  PROVE  FreshTask(s)'
<1> DEFINE p == task[s].platform
<1>1. /\ \A e \in ActiveEntries(p) : e.uuid \in HostsAt(p) => e \in ActiveEntries(p)'
      /\ \A e \in ActiveEntries(p)' : e.uuid \in HostsAt(p) /\ e \in ActiveEntries(p)
  BY MarkedEntries DEF TypeOK
<1>2. \A x \in inv[p] : x.uuid \in HostsAt(p)
  BY DEF HostsAt
<1> HIDE DEF p
<1> QED
  BY <1>1, <1>2 DEF p, FreshTask, Recorded, HostsAt

(* A step that changes task t alone, and neither the table nor an          *)
(* inventory, keeps the other tasks fresh.                                 *)
LEMMA OthersStayFresh ==
  ASSUME FreshTasks, NEW t \in Task, \A s \in Task \ {t} : task'[s] = task[s],
         UNCHANGED <<inv, hostRows>>,
         task'[t].fresh => FreshTask(t)'
  PROVE  FreshTasks'
<1>1. ASSUME NEW s \in Task \ {t}, task[s].fresh
      PROVE  FreshTask(s)'
  <2>1. FreshTask(s)
    BY <1>1 DEF FreshTasks
  <2>2. \A q : ActiveEntries(q)' = ActiveEntries(q)
    BY DEF ActiveEntries, RowsOf
  <2> QED
    BY <2>1, <2>2, FreshFrame
<1> QED
  BY <1>1 DEF FreshTasks

LEMMA ListFresh ==
  ASSUME HostSyncInv, NEW t \in Task, List(t)
  PROVE  FreshTasks'
<1> USE DEF HostSyncInv
<1>1. task[t] \in TaskState /\ task \in [Task -> TaskState]
  BY DEF TypeOK
<1>2. /\ task'[t].pc = "loop"  /\ task'[t].uuids = {}
      /\ task'[t].platform = task[t].platform
      /\ task'[t].item = {}    /\ task'[t].todo = HostsAt(task[t].platform)
  BY <1>1 DEF List, TaskState
<1>3. inv' = inv
  BY DEF List
<1>4. FreshTask(t)'
  BY <1>2, <1>3 DEF FreshTask, Recorded, HostsAt
<1> QED
  BY <1>1, <1>4, OthersStayFresh DEF List

LEMMA ParseFresh ==
  ASSUME HostSyncInv, NEW t \in Task, ParseHost(t)
  PROVE  FreshTasks'
<1> USE DEF HostSyncInv
<1>1. task[t] \in TaskState /\ task \in [Task -> TaskState]
  BY DEF TypeOK
<1>2. PICK h \in task[t].todo, u \in Uuid, x \in inv[task[t].platform] :
        /\ x.uuid = h
        /\ task' = [task EXCEPT ![t].pc = "write",
                                ![t].todo = @ \ {h},
                                ![t].item = {[host |-> h, uuid |-> u, name |-> x.name]},
                                ![t].uuids = @ \cup {u},
                                ![t].fresh = @ /\ u = h]
  BY DEF ParseHost
<1> DEFINE i == [host |-> h, uuid |-> u, name |-> x.name]
<1>3. /\ task'[t].pc = "write"   /\ task'[t].platform = task[t].platform
      /\ task'[t].item = {i}     /\ task'[t].failed = task[t].failed
      /\ task'[t].todo = task[t].todo \ {h}
      /\ task'[t].uuids = task[t].uuids \cup {u}
      /\ task'[t].fresh = (task[t].fresh /\ u = h)
  BY <1>1, <1>2 DEF TaskState
<1>4. i.uuid = u /\ i.name = x.name /\ i.host = h
  OBVIOUS
<1>5. UNCHANGED <<inv, hostRows>>
  BY DEF ParseHost
<1>6. task[t].pc = "loop"
  BY DEF ParseHost
<1>7. ASSUME task'[t].fresh PROVE FreshTask(t)'
  <2>1. u = h /\ task[t].fresh /\ FreshTask(t)
    BY <1>3, <1>7 DEF FreshTasks
  <2>2. x = [uuid |-> u, name |-> x.name]
    BY <1>1, <1>2, <2>1 DEF TypeOK, Entry, TaskState
  <2>3. Recorded(t)' \subseteq Recorded(t)
    BY <1>3, <1>4, <1>6, <2>1 DEF Recorded, FreshTask
  <2>4. /\ \A y \in task'[t].item : [uuid |-> y.uuid, name |-> y.name] \in inv[task[t].platform]
        /\ \A y, z \in task'[t].item : y = z /\ y.uuid = y.host
    BY <1>3, <1>4, <2>1, <2>2
  <2>5. task'[t].uuids \cup task'[t].todo = HostsAt(task[t].platform)
    BY <1>3, <2>1 DEF FreshTask
  <2> HIDE DEF i
  <2>6. \A y \in inv[task[t].platform] : y.uuid \in Recorded(t)' => y \in ActiveEntries(task[t].platform)
    BY <2>1, <2>3 DEF FreshTask
  <2> QED
    BY <1>3, <1>5, <2>4, <2>5, <2>6 DEF FreshTask, HostsAt, ActiveEntries, RowsOf
<1> QED
  BY <1>1, <1>2, <1>5, <1>7, OthersStayFresh

LEMMA WriteFailsFresh ==
  ASSUME HostSyncInv, NEW t \in Task, WriteFails(t)
  PROVE  FreshTasks'
<1> USE DEF HostSyncInv
<1>1. task[t] \in TaskState /\ task \in [Task -> TaskState]
  BY DEF TypeOK
<1>2. PICK i \in task[t].item :
        task' = [task EXCEPT ![t] = IF Readable(task[t].platform, i.host)
                                    THEN Skipped(@, i.host) ELSE Aborted(@)]
  BY DEF WriteFails
<1>3. UNCHANGED <<inv, hostRows>> /\ task[t].pc = "write"
  BY DEF WriteFails
<1>4. CASE task'[t] = Aborted(task[t])
  BY <1>1, <1>2, <1>3, <1>4, OthersStayFresh DEF Aborted, TaskState
<1>5. CASE task'[t] = Skipped(task[t], i.host)
  <2>1. /\ task'[t].pc = "loop"    /\ task'[t].platform = task[t].platform
        /\ task'[t].item = {}      /\ task'[t].failed = task[t].failed \cup {i.host}
        /\ task'[t].todo = task[t].todo /\ task'[t].uuids = task[t].uuids
        /\ task'[t].fresh = task[t].fresh
    BY <1>1, <1>5 DEF Skipped, TaskState
  <2>2. ASSUME task'[t].fresh PROVE FreshTask(t)'
    <3>1. FreshTask(t)
      BY <2>1, <2>2 DEF FreshTasks
    <3>2. Recorded(t)' \subseteq Recorded(t)
      BY <2>1, <3>1 DEF Recorded, FreshTask
    <3> QED
      BY <1>3, <2>1, <3>1, <3>2 DEF FreshTask, HostsAt, ActiveEntries, RowsOf
  <2> QED
    BY <1>1, <1>2, <1>3, <2>2, OthersStayFresh
<1> QED
  BY <1>1, <1>2, <1>4, <1>5

(* The rows a task writes, or deactivates, as seen by itself and by the    *)
(* others: a stale writer makes its platform stale, a fresh one agrees     *)
(* with the other fresh tasks of the platform.                             *)
LEMMA WriterLeavesOthers ==
  ASSUME TypeOK, NEW t \in Task, NEW ts \in TaskState,
         ts.platform = task[t].platform,
         ts.fresh = task[t].fresh,
         task' = AfterWrite(t, ts)
  PROVE  /\ task[t].fresh => task'[t] = ts
         /\ ~task[t].fresh => \A s \in Task : task'[s].fresh =>
                                 task[s].platform # task[t].platform
         /\ \A s \in Task \ {t} : task'[s].fresh => task'[s] = task[s]
         /\ ~task[t].fresh => ~task'[t].fresh
<1> DEFINE f == [task EXCEPT ![t] = ts]
<1>1. f \in [Task -> TaskState] /\ f[t] = ts /\ \A s \in Task \ {t} : f[s] = task[s]
  BY DEF TypeOK
<1>2. task' = IF task[t].fresh THEN f ELSE Stale(f, task[t].platform)
  BY DEF AfterWrite
<1> HIDE DEF f
<1>3. \A s \in Task : Stale(f, task[t].platform)[s] =
        IF f[s].platform = task[t].platform THEN [f[s] EXCEPT !.fresh = FALSE] ELSE f[s]
  BY DEF Stale
<1>4. \A s \in Task : [f[s] EXCEPT !.fresh = FALSE].fresh = FALSE
  BY <1>1 DEF TaskState
<1> QED
  BY <1>1, <1>2, <1>3, <1>4

LEMMA WriteFresh ==
  ASSUME HostSyncInv, NEW t \in Task, WriteHost(t)
  PROVE  FreshTasks'
<1> USE DEF HostSyncInv
<1>0. PICK p \in Platform : p = task[t].platform
  BY DEF TypeOK, TaskState
<1> DEFINE ts == [task[t] EXCEPT !.pc = "loop", !.item = {}]
<1>1. task[t] \in TaskState
  BY DEF TypeOK, TaskState
<1>2. PICK i \in task[t].item :
        hostRows' = Upserted(p, i.uuid, i.name) /\ task' = AfterWrite(t, ts)
  BY <1>0 DEF WriteHost
<1>3. inv' = inv /\ task[t].pc = "write"
  BY <1>0 DEF WriteHost
<1>4. /\ ts \in TaskState              /\ ts.platform = p
      /\ ts.pc = "loop"                /\ ts.item = {}
      /\ ts.uuids = task[t].uuids      /\ ts.failed = task[t].failed
      /\ ts.todo = task[t].todo        /\ ts.fresh = task[t].fresh
  BY <1>0, <1>1 DEF TaskState, PC, Running
<1> HIDE DEF ts
<1>5. /\ task[t].fresh => task'[t] = ts
      /\ ~task[t].fresh => \A s \in Task : task'[s].fresh => task[s].platform # p
      /\ \A s \in Task \ {t} : task'[s].fresh => task'[s] = task[s]
      /\ ~task[t].fresh => ~task'[t].fresh
  BY <1>0, <1>2, <1>4, WriterLeavesOthers
<1>6. task[t].fresh => FreshTask(t)
  BY DEF FreshTasks
<1>7. task[t].fresh => [uuid |-> i.uuid, name |-> i.name] \in inv[p]
  BY <1>0, <1>2, <1>6 DEF FreshTask
<1>8. ASSUME NEW s \in Task \ {t}, task'[s].fresh PROVE FreshTask(s)'
  <2>1. task'[s] = task[s] /\ FreshTask(s)
    BY <1>5, <1>8 DEF FreshTasks
  <2>2. CASE task[s].platform = p
    BY <1>2, <1>3, <1>5, <1>7, <1>8, <2>1, <2>2, FreshUpsert
  <2>3. CASE task[s].platform # p
    <3>1. PICK q \in Platform : q = task[s].platform
      BY DEF TypeOK, TaskState
    <3>2. ActiveEntries(q)' = ActiveEntries(q)
      BY <1>2, <2>3, <3>1, UpsertedEntries DEF TypeOK
    <3> QED
      BY <1>3, <2>1, <3>1, <3>2, FreshFrame
  <2> QED
    BY <2>2, <2>3
<1>9. ASSUME task'[t].fresh PROVE FreshTask(t)'
  <2>1. task'[t] = ts /\ FreshTask(t)
    BY <1>5, <1>6, <1>9
  <2>2. /\ [uuid |-> i.uuid, name |-> i.name] \in ActiveEntries(p)'
        /\ \A e \in ActiveEntries(p) : e.uuid # i.uuid => e \in ActiveEntries(p)'
    BY <1>2, UpsertedEntries DEF TypeOK
  <2>3. [uuid |-> i.uuid, name |-> i.name] \in inv[p]
    BY <1>5, <1>7, <1>9
  <2>4. \A x \in inv[p] : x.uuid = i.uuid => x = [uuid |-> i.uuid, name |-> i.name]
    BY <1>1, <2>3 DEF InventoryWellFormed, WellFormed
  <2>5. \A u : u \in Recorded(t)' => u = i.uuid \/ u \in Recorded(t)
    BY <1>2, <1>4, <2>1 DEF Recorded, FreshTask
  <2>6. \A x \in inv[p] : x.uuid \in Recorded(t)' => x \in ActiveEntries(p)'
    BY <1>0, <2>1, <2>2, <2>4, <2>5 DEF FreshTask
  <2> QED
    BY <1>0, <1>3, <1>4, <2>1, <2>6 DEF FreshTask, HostsAt
<1> QED
  BY <1>8, <1>9 DEF FreshTasks

LEMMA MarkFresh ==
  ASSUME HostSyncInv, NEW t \in Task, MarkMissing(t)
  PROVE  FreshTasks'
<1> USE DEF HostSyncInv
<1>0. PICK p \in Platform : p = task[t].platform
  BY DEF TypeOK, TaskState
<1> DEFINE ts == [task[t] EXCEPT !.pc = "success"]
<1>1. task[t] \in TaskState
  BY DEF TypeOK, TaskState
<1>2. /\ hostRows' = Marked(p, task[t].uuids) /\ task' = AfterWrite(t, ts)
      /\ inv' = inv /\ task[t].pc = "loop" /\ task[t].todo = {}
  BY <1>0 DEF MarkMissing
<1>4. /\ ts \in TaskState              /\ ts.platform = p
      /\ ts.pc = "success"             /\ ts.item = task[t].item
      /\ ts.uuids = task[t].uuids      /\ ts.failed = task[t].failed
      /\ ts.todo = task[t].todo        /\ ts.fresh = task[t].fresh
  BY <1>0, <1>1 DEF TaskState, PC, Ended
<1> HIDE DEF ts
<1>5. /\ task[t].fresh => task'[t] = ts
      /\ ~task[t].fresh => \A s \in Task : task'[s].fresh => task[s].platform # p
      /\ \A s \in Task \ {t} : task'[s].fresh => task'[s] = task[s]
      /\ ~task[t].fresh => ~task'[t].fresh
  BY <1>0, <1>2, <1>4, WriterLeavesOthers
<1>6. task[t].fresh => FreshTask(t)
  BY DEF FreshTasks
<1>7. task[t].fresh => task[t].uuids = HostsAt(p)
  BY <1>0, <1>2, <1>6 DEF FreshTask
<1>8. ASSUME NEW s \in Task \ {t}, task'[s].fresh PROVE FreshTask(s)'
  <2>1. task'[s] = task[s] /\ FreshTask(s)
    BY <1>5, <1>8 DEF FreshTasks
  <2>2. CASE task[s].platform = p
    BY <1>2, <1>5, <1>7, <1>8, <2>1, <2>2, FreshMark
  <2>3. CASE task[s].platform # p
    <3>1. PICK q \in Platform : q = task[s].platform
      BY DEF TypeOK, TaskState
    <3>2. ActiveEntries(q)' = ActiveEntries(q)
      BY <1>2, <2>3, <3>1, MarkedEntries DEF TypeOK
    <3> QED
      BY <1>2, <2>1, <3>1, <3>2, FreshFrame
  <2> QED
    BY <2>2, <2>3
<1>9. ASSUME task'[t].fresh PROVE FreshTask(t)'
  <2>1. task'[t] = ts /\ FreshTask(t) /\ task[t].uuids = HostsAt(p)
    BY <1>5, <1>6, <1>7, <1>9
  <2>2. /\ \A e \in ActiveEntries(p) : e.uuid \in HostsAt(p) => e \in ActiveEntries(p)'
        /\ \A e \in ActiveEntries(p)' : e.uuid \in HostsAt(p) /\ e \in ActiveEntries(p)
    BY <1>2, <2>1, MarkedEntries DEF TypeOK
  <2>3. Recorded(t)' = Recorded(t) /\ \A x \in inv[p] : x.uuid \in HostsAt(p)
    BY <1>4, <2>1 DEF Recorded, HostsAt
  <2>4. \A x \in inv[p] : x.uuid \in Recorded(t)' => x \in ActiveEntries(p)'
    BY <1>0, <2>1, <2>2, <2>3 DEF FreshTask
  <2> QED
    BY <1>0, <1>2, <1>4, <2>1, <2>2, <2>4 DEF FreshTask, HostsAt
<1> QED
  BY <1>8, <1>9 DEF FreshTasks
(* The remaining steps of a task end its freshness, or leave it alone. *)
LEMMA LocalFresh ==
  ASSUME HostSyncInv, NEW t \in Task,
         \/ Begin(t) \/ HostVanished(t) \/ Retry(t)
         \/ ParseFails(t) \/ ConnectionLost(t) \/ Crash(t)
         \/ \E p \in Platform : Trigger(t, p)
  PROVE  FreshTasks'
<1> USE DEF HostSyncInv
<1>1. task[t] \in TaskState /\ task \in [Task -> TaskState]
  BY DEF TypeOK
<1>2. UNCHANGED <<inv, hostRows>>
  BY DEF Begin, HostVanished, Retry, ParseFails, ConnectionLost, Crash, Trigger
<1>3. \A s \in Task \ {t} : task'[s] = task[s]
  BY <1>1 DEF Begin, HostVanished, Retry, ParseFails, ConnectionLost, Crash, Trigger
<1>4. ~task'[t].fresh
  <2>1. CASE Begin(t) \/ Retry(t)
    <3>1. task'[t].fresh = task[t].fresh /\ task[t].pc \in {"queued", "backoff"}
      BY <1>1, <2>1 DEF Begin, Retry, TaskState
    <3> QED
      BY <3>1 DEF FreshTasks, FreshTask
  <2>2. CASE HostVanished(t) \/ ConnectionLost(t)
    <3>1. task'[t] = Aborted(task[t])
      BY <1>1, <2>2 DEF HostVanished, ConnectionLost
    <3> QED
      BY <1>1, <3>1 DEF Aborted, TaskState
  <2>3. CASE ParseFails(t)
    <3> DEFINE ts(h) == [task[t] EXCEPT !.todo = @ \ {h}, !.fresh = FALSE]
    <3>1. PICK h \in task[t].todo : task'[t] = Skipped(ts(h), h)
      BY <1>1, <2>3 DEF ParseFails
    <3>2. ts(h) \in TaskState /\ ~ts(h).fresh
      BY <1>1 DEF TaskState
    <3> HIDE DEF ts
    <3> QED
      BY <3>1, <3>2 DEF Skipped, TaskState
  <2>4. CASE Crash(t)
    BY <1>1, <2>4 DEF Crash, TaskState
  <2>5. CASE \E p \in Platform : Trigger(t, p)
    BY <1>1, <2>5 DEF Trigger
  <2> QED
    BY <2>1, <2>2, <2>3, <2>4, <2>5
<1> QED
  BY <1>2, <1>3, <1>4, OthersStayFresh

LEMMA EnvironmentFresh ==
  ASSUME HostSyncInv, NEW p \in Platform,
         InventoryChanges(p) \/ TogglePlatform(p) \/ DeletePlatform(p)
  PROVE  FreshTasks'
<1> USE DEF HostSyncInv
<1> SUFFICES ASSUME NEW s \in Task, task'[s].fresh PROVE FreshTask(s)'
  BY DEF FreshTasks
<1>1. PICK q \in Platform : q = task[s].platform
  BY DEF TypeOK, TaskState
<1>2. CASE TogglePlatform(p)
  <2>1. ActiveEntries(q)' = ActiveEntries(q) /\ UNCHANGED <<inv, task>>
    BY <1>2 DEF TogglePlatform, ActiveEntries, RowsOf
  <2> QED
    BY <1>1, <2>1, FreshFrame DEF FreshTasks
<1>3. CASE InventoryChanges(p) \/ DeletePlatform(p)
  <2>1. task'[s] = IF task[s].platform = p THEN [task[s] EXCEPT !.fresh = FALSE] ELSE task[s]
    BY <1>3 DEF InventoryChanges, DeletePlatform, Stale
  <2>2. q # p /\ task'[s] = task[s]
    BY <1>1, <2>1 DEF TypeOK, TaskState
  <2>3. inv'[q] = inv[q]
    BY <1>3, <2>2 DEF InventoryChanges, DeletePlatform, TypeOK
  <2>4. ActiveEntries(q)' = ActiveEntries(q)
    BY <1>3, <2>2 DEF InventoryChanges, DeletePlatform, ActiveEntries, RowsOf
  <2> QED
    BY <1>1, <2>2, <2>3, <2>4, FreshFrame DEF FreshTasks
<1> QED
  BY <1>2, <1>3

-----------------------------------------------------------------------------
(* The inductive invariant *)

(* Which steps change the inventory, the platforms and the table. *)
LEMMA RetriesLeftPreserved ==
  ASSUME TypeOK, RetriesLeft, [Next]_vars
  PROVE  RetriesLeft'
<1> SUFFICES ASSUME NEW s \in Task, task'[s].pc = "backoff"
             PROVE  task'[s].retries < MaxRetries
  BY DEF RetriesLeft
<1>1. task[s] \in TaskState /\ task \in [Task -> TaskState]
  BY DEF TypeOK
<1>2. ASSUME NEW f \in [Task -> TaskState], NEW p
      PROVE  Stale(f, p)[s].pc = f[s].pc /\ Stale(f, p)[s].retries = f[s].retries
  BY DEF Stale, TaskState
<1>3. ASSUME task'[s].pc = task[s].pc, task'[s].retries = task[s].retries
      PROVE  task'[s].retries < MaxRetries
  BY <1>3 DEF RetriesLeft
<1>4. ASSUME NEW t \in Task,
             HostVanished(t) \/ WriteFails(t) \/ ConnectionLost(t)
      PROVE  task'[s].retries < MaxRetries
  <2>1. \/ task'[s] = task[s] \/ task'[s] = Aborted(task[s])
        \/ \E h : task'[s] = Skipped(task[s], h)
    BY <1>1, <1>4 DEF HostVanished, WriteFails, ConnectionLost
  <2> QED
    BY <1>1, <1>3, <2>1 DEF Aborted, Skipped, TaskState, RetriesLeft
<1>5. ASSUME NEW t \in Task, WriteHost(t) \/ MarkMissing(t)
      PROVE  task'[s].retries < MaxRetries
  <2>1. PICK ts \in TaskState :
          /\ ts.pc \in {"loop", "success"}
          /\ task' = AfterWrite(t, ts)
    <3>1. /\ [task[t] EXCEPT !.pc = "loop", !.item = {}] \in TaskState
          /\ [task[t] EXCEPT !.pc = "success"] \in TaskState
      BY DEF TypeOK, TaskState, PC, Running, Ended
    <3> QED
      BY <1>5, <3>1 DEF WriteHost, MarkMissing, TaskState
  <2> DEFINE f == [task EXCEPT ![t] = ts]
  <2>2. f \in [Task -> TaskState] /\ (s = t => f[s] = ts) /\ (s # t => f[s] = task[s])
    BY <1>1
  <2>3. task' = f \/ task' = Stale(f, ts.platform)
    BY <2>1 DEF AfterWrite
  <2> HIDE DEF f
  <2>4. task'[s].pc = f[s].pc /\ task'[s].retries = f[s].retries
    BY <1>2, <2>2, <2>3
  <2> QED
    BY <1>3, <2>1, <2>2, <2>4
<1>6. ASSUME NEW t \in Task,
             Begin(t) \/ List(t) \/ ParseHost(t) \/ Retry(t) \/ ParseFails(t) \/ Crash(t)
      PROVE  task'[s].retries < MaxRetries
  <2>1. task'[t].pc # "backoff"
    <3>1. CASE Begin(t)
      BY <1>1, <3>1 DEF Begin, TypeOK, TaskState
    <3>2. CASE List(t)
      BY <1>1, <3>2 DEF List, TypeOK, TaskState
    <3>3. CASE ParseHost(t)
      BY <1>1, <3>3 DEF ParseHost, TypeOK, TaskState
    <3>4. CASE Retry(t)
      BY <1>1, <3>4 DEF Retry, TypeOK, TaskState
    <3>5. CASE ParseFails(t)
      BY <1>1, <3>5 DEF ParseFails, Skipped, TypeOK, TaskState
    <3>6. CASE Crash(t)
      BY <1>1, <3>6 DEF Crash, TypeOK, TaskState
    <3> QED
      BY <1>6, <3>1, <3>2, <3>3, <3>4, <3>5, <3>6
  <2>2. s # t
    BY <2>1
  <2>3. task'[s] = task[s]
    <3>1. CASE Begin(t) \/ Retry(t) \/ Crash(t)
      BY <1>1, <2>2, <3>1 DEF Begin, Retry, Crash
    <3>2. CASE List(t) \/ ParseHost(t) \/ ParseFails(t)
      BY <1>1, <2>2, <3>2 DEF List, ParseHost, ParseFails
    <3> QED
      BY <1>6, <3>1, <3>2
  <2> QED
    BY <1>3, <2>3
<1>7. ASSUME NEW t \in Task, NEW p \in Platform, Trigger(t, p)
      PROVE  task'[s].retries < MaxRetries
  <2>1. s # t
    BY <1>1, <1>7 DEF Trigger
  <2> QED
    BY <1>3, <1>7, <2>1 DEF Trigger
<1>8. ASSUME NEW p \in Platform,
             InventoryChanges(p) \/ TogglePlatform(p) \/ DeletePlatform(p)
      PROVE  task'[s].retries < MaxRetries
  BY <1>1, <1>2, <1>3, <1>8 DEF InventoryChanges, TogglePlatform, DeletePlatform
<1>9. CASE UNCHANGED vars
  BY <1>3, <1>9 DEF vars
<1> QED
  BY <1>4, <1>5, <1>6, <1>7, <1>8, <1>9 DEF Next, Step

LEMMA TablePreserved ==
  ASSUME TypeOK, InventoryWellFormed, HostLookupIsUnambiguous, NoOrphanRows, [Next]_vars
  PROVE  InventoryWellFormed' /\ HostLookupIsUnambiguous' /\ NoOrphanRows'
<1>1. ASSUME NEW t \in Task,
             \/ Begin(t) \/ List(t) \/ ParseHost(t) \/ HostVanished(t) \/ WriteFails(t)
             \/ Retry(t) \/ ParseFails(t) \/ ConnectionLost(t) \/ Crash(t)
             \/ \E p \in Platform : Trigger(t, p)
      PROVE  UNCHANGED <<platform, inv, hostRows>>
  BY <1>1 DEF Begin, List, ParseHost, HostVanished, WriteFails, Retry, ParseFails,
              ConnectionLost, Crash, Trigger
<1>2. CASE UNCHANGED <<platform, inv, hostRows>>
  BY <1>2 DEF InventoryWellFormed, HostLookupIsUnambiguous, NoOrphanRows
<1>3. ASSUME NEW t \in Task, WriteHost(t)
      PROVE  InventoryWellFormed' /\ HostLookupIsUnambiguous' /\ NoOrphanRows'
  <2>1. PICK p \in Platform : p = task[t].platform
    BY DEF TypeOK, TaskState
  <2>2. PICK i \in task[t].item :
          ~Conflict(p, i.uuid, i.name) /\ hostRows' = Upserted(p, i.uuid, i.name)
    BY <1>3, <2>1 DEF WriteHost
  <2>3. UNCHANGED <<platform, inv>>
    BY <1>3 DEF WriteHost
  <2> QED
    BY <2>2, <2>3, UpsertedRows DEF InventoryWellFormed
<1>4. ASSUME NEW t \in Task, MarkMissing(t)
      PROVE  InventoryWellFormed' /\ HostLookupIsUnambiguous' /\ NoOrphanRows'
  <2>1. UNCHANGED <<platform, inv>> /\ hostRows' = Marked(task[t].platform, task[t].uuids)
    BY <1>4 DEF MarkMissing
  <2> QED
    BY <2>1, MarkedRows DEF TypeOK, InventoryWellFormed
<1>5. ASSUME NEW p \in Platform, InventoryChanges(p)
      PROVE  InventoryWellFormed' /\ HostLookupIsUnambiguous' /\ NoOrphanRows'
  <2>1. UNCHANGED <<platform, hostRows>> /\ WellFormed(inv'[p])
    BY <1>5 DEF InventoryChanges
  <2>2. \A q \in Platform \ {p} : inv'[q] = inv[q]
    BY <1>5 DEF InventoryChanges, TypeOK
  <2> QED
    BY <2>1, <2>2 DEF InventoryWellFormed, WellFormed, HostLookupIsUnambiguous, NoOrphanRows
<1>6. ASSUME NEW p \in Platform, TogglePlatform(p)
      PROVE  InventoryWellFormed' /\ HostLookupIsUnambiguous' /\ NoOrphanRows'
  <2>1. /\ UNCHANGED <<inv, hostRows>> /\ platform'[p] # "deleted"
        /\ \A q \in Platform \ {p} : platform'[q] = platform[q]
    BY <1>6 DEF TogglePlatform, TypeOK
  <2> QED
    BY <2>1 DEF InventoryWellFormed, HostLookupIsUnambiguous, NoOrphanRows, TypeOK, Row
<1>7. ASSUME NEW p \in Platform, DeletePlatform(p)
      PROVE  InventoryWellFormed' /\ HostLookupIsUnambiguous' /\ NoOrphanRows'
  <2>1. /\ inv' = inv /\ hostRows' \subseteq hostRows
        /\ \A r \in hostRows' : r.platform # p
        /\ \A q \in Platform \ {p} : platform'[q] = platform[q]
    BY <1>7 DEF DeletePlatform, RowsOf, TypeOK
  <2> QED
    BY <2>1 DEF InventoryWellFormed, HostLookupIsUnambiguous, NoOrphanRows, TypeOK, Row
<1>8. CASE UNCHANGED vars
  BY <1>2, <1>8 DEF vars
<1> QED
  BY <1>1, <1>2, <1>3, <1>4, <1>5, <1>6, <1>7, <1>8 DEF Next, Step

LEMMA InvInit == Init => HostSyncInv
<1> SUFFICES ASSUME Init PROVE HostSyncInv
  OBVIOUS
<1>1. TypeOK
  BY InitType
<1>2. \A t \in Task : task[t].pc = "idle" /\ ~task[t].fresh
  BY DEF Init
<1>3. RetriesLeft /\ FreshTasks
  BY <1>2 DEF RetriesLeft, FreshTasks
<1>4. InventoryWellFormed
  BY DEF Init, InventoryWellFormed
<1>5. HostLookupIsUnambiguous /\ NoOrphanRows
  BY DEF Init, HostLookupIsUnambiguous, NoOrphanRows
<1> QED
  BY <1>1, <1>3, <1>4, <1>5 DEF HostSyncInv

LEMMA InvNext == HostSyncInv /\ [Next]_vars => HostSyncInv'
<1> SUFFICES ASSUME HostSyncInv, [Next]_vars PROVE HostSyncInv'
  OBVIOUS
<1>1. TypeOK'
  BY StepType, FaultType, TriggerType, EnvironmentType DEF HostSyncInv, Next, TypeOK, vars
<1>2. RetriesLeft'
  BY RetriesLeftPreserved DEF HostSyncInv
<1>3. InventoryWellFormed' /\ HostLookupIsUnambiguous' /\ NoOrphanRows'
  BY TablePreserved DEF HostSyncInv
<1>4. FreshTasks'
  <2>1. CASE UNCHANGED vars
    BY <2>1 DEF vars, HostSyncInv, FreshTasks, FreshTask, Recorded, HostsAt, ActiveEntries, RowsOf
  <2> QED
    BY <2>1, ListFresh, ParseFresh, WriteFailsFresh, WriteFresh, MarkFresh, LocalFresh,
       EnvironmentFresh DEF Next, Step
<1> QED
  BY <1>1, <1>2, <1>3, <1>4 DEF HostSyncInv

(* The invariant of the host synchronisation holds in every reachable state. *)
THEOREM Invariance == Spec => []HostSyncInv
BY InvInit, InvNext, PTL DEF Spec

(* sync_hosts keeps every variable in its type: the records a task carries, *)
(* the rows of virt_host and the bounded counters.                          *)
THEOREM TypeCorrectness == Spec => []TypeOK
<1>1. HostSyncInv => TypeOK
  BY DEF HostSyncInv
<1> QED
  BY <1>1, Invariance, PTL

(* However syncs, renames and replacements interleave, the lookups of      *)
(* virt_host by uuid and by (platform, name) find at most one row.         *)
THEOREM LookupUnambiguous == Spec => []HostLookupIsUnambiguous
<1>1. HostSyncInv => HostLookupIsUnambiguous
  BY DEF HostSyncInv
<1> QED
  BY <1>1, Invariance, PTL

(* A sync in flight never leaves a row of a deleted platform behind. *)
THEOREM NoOrphans == Spec => []NoOrphanRows
<1>1. HostSyncInv => NoOrphanRows
  BY DEF HostSyncInv
<1> QED
  BY <1>1, Invariance, PTL

(* A sync that read an unchanged inventory and counted no failure leaves   *)
(* exactly that inventory active, for any number of hosts, platforms and   *)
(* overlapping tasks.                                                      *)
THEOREM CleanSync == Spec => []CleanSyncMirrors
<1>1. HostSyncInv => CleanSyncMirrors
  <2> SUFFICES ASSUME HostSyncInv, NEW t \in Task, task[t].pc = "success",
                      task[t].fresh, task[t].failed = {}
               PROVE  ActiveEntries(task[t].platform) = inv[task[t].platform]
    BY DEF CleanSyncMirrors
  <2>1. PICK p \in Platform : p = task[t].platform
    BY DEF HostSyncInv, TypeOK, TaskState
  <2>2. FreshTask(t)
    BY DEF HostSyncInv, FreshTasks
  <2>3. inv[p] \subseteq ActiveEntries(p)
    BY <2>1, <2>2 DEF FreshTask, Recorded, HostsAt
  <2>4. ASSUME NEW e \in ActiveEntries(p) PROVE e \in inv[p]
    <3>1. PICK x \in inv[p] : x.uuid = e.uuid
      BY <2>1, <2>2, <2>4 DEF FreshTask, HostsAt
    <3>2. PICK r \in hostRows : r.platform = p /\ e = [uuid |-> r.uuid, name |-> r.name]
      BY <2>4 DEF ActiveEntries, RowsOf
    <3>3. PICK q \in hostRows : q.platform = p /\ x = [uuid |-> q.uuid, name |-> q.name]
      BY <2>3, <3>1 DEF ActiveEntries, RowsOf
    <3>4. r = q
      BY <3>1, <3>2, <3>3 DEF HostSyncInv, HostLookupIsUnambiguous
    <3> QED
      BY <3>1, <3>2, <3>3, <3>4
  <2> QED
    BY <2>1, <2>3, <2>4
<1> QED
  BY <1>1, Invariance, PTL

-----------------------------------------------------------------------------
(* Rows and their platforms *)

LEMMA RowsKept ==
  ASSUME HostSyncInv, Next, NEW r \in hostRows
  PROVE  \/ \E s \in hostRows' : s.uuid = r.uuid /\ s.platform = r.platform
         \/ platform'[r.platform] = "deleted"
<1> DEFINE Kept == \E s \in hostRows' : s.uuid = r.uuid /\ s.platform = r.platform
<1>0. r \in Row
  BY DEF HostSyncInv, TypeOK
<1>1. ASSUME UNCHANGED hostRows PROVE Kept
  BY <1>1
<1>2. ASSUME NEW t \in Task, WriteHost(t) PROVE Kept
  <2>1. PICK i \in task[t].item :
          hostRows' = Upserted(task[t].platform, i.uuid, i.name)
    BY <1>2 DEF WriteHost
  <2> DEFINE new == [uuid |-> i.uuid, platform |-> task[t].platform,
                     name |-> i.name, active |-> TRUE]
  <2>2. CASE r.platform = task[t].platform /\ r.uuid = i.uuid
    <3>1. new \in hostRows' /\ new.uuid = r.uuid /\ new.platform = r.platform
      BY <2>1, <2>2 DEF Upserted
    <3> QED
      BY <3>1
  <2>3. CASE ~(r.platform = task[t].platform /\ r.uuid = i.uuid)
    BY <2>1, <2>3 DEF Upserted
  <2> QED
    BY <2>2, <2>3
<1>3. ASSUME NEW t \in Task, MarkMissing(t) PROVE Kept
  <2>1. hostRows' = Marked(task[t].platform, task[t].uuids)
    BY <1>3 DEF MarkMissing
  <2>2. [r EXCEPT !.active = FALSE].uuid = r.uuid /\ [r EXCEPT !.active = FALSE].platform = r.platform
    BY <1>0 DEF Row
  <2>3. r \in hostRows' \/ [r EXCEPT !.active = FALSE] \in hostRows'
    BY <2>1 DEF Marked
  <2> QED
    BY <2>2, <2>3
<1>4. ASSUME NEW p \in Platform, DeletePlatform(p)
      PROVE  Kept \/ platform'[r.platform] = "deleted"
  <2>1. CASE r.platform = p
    BY <1>4, <2>1 DEF DeletePlatform, HostSyncInv, TypeOK
  <2>2. CASE r.platform # p
    BY <1>4, <2>2 DEF DeletePlatform, RowsOf
  <2> QED
    BY <2>1, <2>2
<1> QED
  BY <1>1, <1>2, <1>3, <1>4
  DEF Next, Step, Begin, List, ParseHost, HostVanished, WriteFails, Retry, ParseFails,
      ConnectionLost, Crash, Trigger, InventoryChanges, TogglePlatform

(* However platforms share hosts and their tasks overlap, a row of         *)
(* virt_host is never handed to another platform and never loses its uuid: *)
(* it goes only with its platform.                                         *)
THEOREM RowsStay == Spec => RowsStayWithTheirPlatform
<1>1. HostSyncInv /\ [Next]_vars
        => [\A r \in hostRows :
              \/ \E s \in hostRows' : s.uuid = r.uuid /\ s.platform = r.platform
              \/ platform'[r.platform] = "deleted"]_vars
  BY RowsKept
<1> QED
  BY <1>1, Invariance, PTL DEF Spec, RowsStayWithTheirPlatform
=============================================================================
