---------------------------- MODULE VmSync_proofs ----------------------------
(***************************************************************************)
(* Machine-checked proofs about VmSync, for every value of its constants.  *)
(* Most steps change one task and nothing that the others rely on; those   *)
(* that write a table are reduced to Upserted and Marked, those that make  *)
(* a fresh task stale to Stale and AfterWrite.                             *)
(***************************************************************************)
EXTENDS VmSync, TLAPS

-----------------------------------------------------------------------------
(* The helpers *)

LEMMA KindsDiffer ==
  /\ "vm" \in Kind /\ "template" \in Kind /\ "datastore" \in Kind
  /\ "datastore" \notin MachineKind
BY DEF Kind, MachineKind

LEMMA EntryType ==
  ASSUME NEW x \in Entry
  PROVE  x.id \in Vm \cup Store /\ x.name \in Name /\ x.kind \in Kind /\ Key(x) \in Vm \cup Name
BY KindsDiffer DEF Entry, Kind, MachineKind, Key

LEMMA AbortedType ==
  ASSUME NEW ts \in TaskState
  PROVE  /\ Aborted(ts) \in TaskState
         /\ ~Aborted(ts).fresh /\ Aborted(ts).item = {} /\ Aborted(ts).kind = ts.kind
         /\ Aborted(ts).pc \in {"backoff", "failed"}
         /\ Aborted(ts).pc = "backoff" => Aborted(ts).retries < MaxRetries
BY DEF Aborted, TaskState, Ended, Running

LEMMA SkippedType ==
  ASSUME NEW ts \in TaskState, NEW v \in Vm \cup Store
  PROVE  /\ Skipped(ts, v) \in TaskState
         /\ Skipped(ts, v) = [ts EXCEPT !.pc = "loop", !.item = {}, !.failed = @ \cup {v}]
         /\ Skipped(ts, v).pc = "loop" /\ Skipped(ts, v).item = {}
         /\ Skipped(ts, v).fresh = ts.fresh /\ Skipped(ts, v).kind = ts.kind
BY DEF Skipped, TaskState, Running

(* Stale changes fresh and nothing else. *)
LEMMA StaleTasks ==
  ASSUME NEW f \in [Task -> TaskState], NEW ks
  PROVE  /\ Stale(f, ks) \in [Task -> TaskState]
         /\ \A s \in Task :
              /\ Stale(f, ks)[s].pc = f[s].pc
              /\ Stale(f, ks)[s].kind = f[s].kind
              /\ Stale(f, ks)[s].item = f[s].item
              /\ Stale(f, ks)[s].retries = f[s].retries
              /\ Stale(f, ks)[s].fresh => f[s].kind \notin ks /\ Stale(f, ks)[s] = f[s]
BY DEF Stale, TaskState

(* What is left fresh after a write of t: what it was before, with t's new *)
(* state; and if t was stale, no task of its kind.                         *)
LEMMA AfterWriteTasks ==
  ASSUME task \in [Task -> TaskState], NEW t \in Task, NEW ts \in TaskState,
         task' = AfterWrite(t, ts)
  PROVE  /\ task' \in [Task -> TaskState]
         /\ \A s \in Task :
              LET g == task'[s]
                  o == IF s = t THEN ts ELSE task[s]
              IN  /\ g.pc = o.pc /\ g.kind = o.kind /\ g.item = o.item /\ g.retries = o.retries
                  /\ g.fresh => g = o /\ (task[t].fresh \/ o.kind # ts.kind)
<1> DEFINE f == [task EXCEPT ![t] = ts]
<1>1. f \in [Task -> TaskState] /\ \A s \in Task : f[s] = IF s = t THEN ts ELSE task[s]
  OBVIOUS
<1>2. task' = IF task[t].fresh THEN f ELSE Stale(f, {ts.kind})
  BY DEF AfterWrite
<1> HIDE DEF f
<1>3. CASE task[t].fresh
  BY <1>1, <1>2, <1>3
<1>4. CASE ~task[t].fresh
  <2>1. task' = Stale(f, {ts.kind})
    BY <1>2, <1>4
  <2> QED
    BY <1>1, <2>1, StaleTasks
<1> QED
  BY <1>3, <1>4

-----------------------------------------------------------------------------
(* The tables *)

(* An upsert that meets no conflict touches one table, keeps it            *)
(* unambiguous, and of its active keys adds one and removes none.          *)
LEMMA UpsertedTable ==
  ASSUME rows \in [Kind -> SUBSET Row], RowsAreUnambiguous,
         NEW x \in Entry, ~Conflict(x), rows' = Upserted(x)
  PROVE  /\ rows' \in [Kind -> SUBSET Row]
         /\ RowsAreUnambiguous'
         /\ \A k \in Kind \ {x.kind} : Active(k)' = Active(k)
         /\ Active(x.kind)' = Active(x.kind) \cup {Key(x)}
<1> DEFINE new == [key |-> Key(x), name |-> x.name, active |-> TRUE]
<1>1. new \in Row /\ new.key = Key(x) /\ new.name = x.name /\ new.active /\ x.kind \in Kind
  BY EntryType DEF Row
<1>2. /\ rows'[x.kind] = {r \in rows[x.kind] : r.key # Key(x)} \cup {new}
      /\ \A k \in Kind \ {x.kind} : rows'[k] = rows[k]
      /\ rows' \in [Kind -> SUBSET Row]
  BY <1>1 DEF Upserted
<1> HIDE DEF new
<1>3. \A r \in rows'[x.kind] :
        r = new \/ (r \in rows[x.kind] /\ r.key # Key(x) /\ r.name # x.name)
  BY <1>2 DEF Conflict
<1>4. RowsAreUnambiguous'
  <2>1. ASSUME NEW k \in Kind, NEW r \in rows'[k], NEW s \in rows'[k],
               r.key = s.key \/ r.name = s.name
        PROVE  r = s
    <3>1. CASE k = x.kind
      BY <1>1, <1>3, <2>1, <3>1 DEF RowsAreUnambiguous
    <3>2. CASE k # x.kind
      BY <1>2, <2>1, <3>2 DEF RowsAreUnambiguous
    <3> QED
      BY <3>1, <3>2
  <2> QED
    BY <2>1 DEF RowsAreUnambiguous
<1>5. \A k \in Kind \ {x.kind} : Active(k)' = Active(k)
  BY <1>2 DEF Active
<1>6. Active(x.kind)' = Active(x.kind) \cup {Key(x)}
  <2>1. ASSUME NEW c PROVE c \in Active(x.kind)' <=> c \in Active(x.kind) \cup {Key(x)}
    BY <1>1, <1>2 DEF Active
  <2> QED
    BY <2>1
<1> QED
  BY <1>2, <1>4, <1>5, <1>6

(* A deactivation pass touches one table, keeps it unambiguous, and leaves *)
(* active what was active and was kept.                                    *)
LEMMA MarkedTable ==
  ASSUME rows \in [Kind -> SUBSET Row], RowsAreUnambiguous,
         NEW k \in Kind, NEW ks, rows' = Marked(k, ks)
  PROVE  /\ rows' \in [Kind -> SUBSET Row]
         /\ RowsAreUnambiguous'
         /\ \A j \in Kind \ {k} : Active(j)' = Active(j)
         /\ Active(k)' = Active(k) \cap ks
<1> DEFINE mark(r) == [r EXCEPT !.active = r.active /\ r.key \in ks]
<1>1. /\ rows'[k] = {mark(r) : r \in rows[k]}
      /\ \A j \in Kind \ {k} : rows'[j] = rows[j]
  BY DEF Marked
<1>2. \A r \in Row : /\ mark(r) \in Row /\ mark(r).key = r.key /\ mark(r).name = r.name
                     /\ mark(r).active <=> r.active /\ r.key \in ks
  BY DEF Row
<1>3. rows' \in [Kind -> SUBSET Row]
  <2>1. rows'[k] \subseteq Row
    BY <1>1, <1>2
  <2> QED
    BY <1>1, <2>1 DEF Marked
<1> HIDE DEF mark
<1>4. RowsAreUnambiguous'
  <2>1. ASSUME NEW j \in Kind, NEW r \in rows'[j], NEW s \in rows'[j],
               r.key = s.key \/ r.name = s.name
        PROVE  r = s
    <3>1. CASE j = k
      <4>1. PICK q \in rows[k], o \in rows[k] : r = mark(q) /\ s = mark(o)
        BY <1>1, <3>1
      <4>2. q = o
        BY <1>2, <2>1, <4>1 DEF RowsAreUnambiguous
      <4> QED
        BY <4>1, <4>2
    <3>2. CASE j # k
      BY <1>1, <2>1, <3>2 DEF RowsAreUnambiguous
    <3> QED
      BY <3>1, <3>2
  <2> QED
    BY <2>1 DEF RowsAreUnambiguous
<1>5. \A j \in Kind \ {k} : Active(j)' = Active(j)
  BY <1>1 DEF Active
<1>6. Active(k)' = Active(k) \cap ks
  <2>1. ASSUME NEW c PROVE c \in Active(k)' <=> c \in Active(k) \cap ks
    <3>1. c \in Active(k)' <=> \E r \in rows[k] : mark(r).active /\ c = mark(r).key
      BY <1>1 DEF Active
    <3>2. c \in Active(k) <=> \E r \in rows[k] : r.active /\ c = r.key
      BY DEF Active
    <3> QED
      BY <1>2, <3>1, <3>2
  <2> QED
    BY <2>1
<1> QED
  BY <1>3, <1>4, <1>5, <1>6

-----------------------------------------------------------------------------
(* Fresh tasks *)

(* A fresh task stays one while it and the objects of its kind stay as     *)
(* they are, none of those is deactivated and nothing else is activated.   *)
LEMMA FreshFrame ==
  ASSUME NEW s \in Task, FreshTask(s), task'[s] = task[s],
         NEW k, k = task[s].kind,
         Own(k)' = Own(k),
         Active(k) \cap Present(k) \subseteq Active(k)',
         Active(k)' \subseteq Active(k) \cup Present(k)
  PROVE  FreshTask(s)'
<1>1. Present(k)' = Present(k) /\ Present(k) = {Key(x) : x \in Own(k)}
  BY DEF Present, Own
<1> QED
  BY <1>1 DEF FreshTask

(* A step of task t alone, which neither the tables nor the inventory see. *)
LEMMA LocalStep ==
  ASSUME VmSyncInv, NEW t \in Task, NEW ts \in TaskState,
         task' = [task EXCEPT ![t] = ts],
         UNCHANGED <<scope, platform, inv, rows, moves>>, faults' \in 0..MaxFaults,
         ts.pc = "backoff" => ts.retries < MaxRetries,
         ts.pc # "write" => ts.item = {},
         \A x, y \in ts.item : x = y /\ x.kind = ts.kind,
         ts.fresh => FreshTask(t)'
  PROVE  VmSyncInv'
<1> USE DEF VmSyncInv
<1>1. \A s \in Task : task'[s] = IF s = t THEN ts ELSE task[s]
  BY DEF TypeOK
<1>2. TypeOK'
  BY DEF TypeOK
<1>3. RetriesLeft' /\ ItemsAreTheirs'
  BY <1>1 DEF RetriesLeft, ItemsAreTheirs
<1>4. RowsAreUnambiguous' /\ NoOrphanRows' /\ WellFormed(inv)'
  BY DEF RowsAreUnambiguous, NoOrphanRows, WellFormed
<1>5. FreshTasks'
  <2> SUFFICES ASSUME NEW s \in Task, task'[s].fresh PROVE FreshTask(s)'
    BY DEF FreshTasks
  <2>1. CASE s = t
    BY <1>1, <2>1
  <2>2. CASE s # t
    <3>1. FreshTask(s) /\ task'[s] = task[s]
      BY <1>1, <2>2 DEF FreshTasks
    <3>2. \A k : Own(k)' = Own(k) /\ Active(k)' = Active(k)
      BY DEF Own, Active
    <3> QED
      BY <3>1, <3>2, FreshFrame
  <2> QED
    BY <2>1, <2>2
<1> QED
  BY <1>2, <1>3, <1>4, <1>5

(* A step of task t that writes to the table of its kind: what is present  *)
(* stays active, and if t is fresh nothing else becomes active.            *)
LEMMA TableStep ==
  ASSUME VmSyncInv, NEW t \in Task, NEW ts \in TaskState,
         task' = AfterWrite(t, ts), ts.kind = task[t].kind,
         UNCHANGED <<scope, platform, inv, moves, faults>>,
         rows' \in [Kind -> SUBSET Row], RowsAreUnambiguous', NoOrphanRows',
         ts.pc # "backoff", ts.item = {},
         \A k \in Kind \ {ts.kind} : Active(k)' = Active(k),
         task[t].fresh =>
           /\ Active(ts.kind) \cap Present(ts.kind) \subseteq Active(ts.kind)'
           /\ Active(ts.kind)' \subseteq Active(ts.kind) \cup Present(ts.kind),
         ts.fresh /\ task[t].fresh /\ task'[t] = ts => FreshTask(t)'
  PROVE  VmSyncInv'
<1> USE DEF VmSyncInv
<1>1. /\ task' \in [Task -> TaskState]
      /\ \A s \in Task :
           LET g == task'[s]
               o == IF s = t THEN ts ELSE task[s]
           IN  /\ g.pc = o.pc /\ g.kind = o.kind /\ g.item = o.item /\ g.retries = o.retries
               /\ g.fresh => g = o /\ (task[t].fresh \/ o.kind # ts.kind)
  BY AfterWriteTasks DEF TypeOK
<1>2. TypeOK'
  BY <1>1 DEF TypeOK
<1>3. RetriesLeft' /\ ItemsAreTheirs'
  BY <1>1 DEF RetriesLeft, ItemsAreTheirs
<1>4. WellFormed(inv)'
  BY DEF WellFormed
<1>5. FreshTasks'
  <2> SUFFICES ASSUME NEW s \in Task, task'[s].fresh PROVE FreshTask(s)'
    BY DEF FreshTasks
  <2>1. CASE s = t
    BY <1>1, <2>1
  <2>2. CASE s # t
    <3>1. /\ task'[s] = task[s] /\ FreshTask(s)
          /\ task[t].fresh \/ task[s].kind # ts.kind
      BY <1>1, <2>2 DEF FreshTasks
    <3>2. task[s].kind \in Kind /\ \A k : Own(k)' = Own(k)
      BY DEF TypeOK, TaskState, Own
    <3>3. CASE task[s].kind = ts.kind
      BY <3>1, <3>2, <3>3, FreshFrame
    <3>4. CASE task[s].kind # ts.kind
      BY <3>1, <3>2, <3>4, FreshFrame
    <3> QED
      BY <3>3, <3>4
  <2> QED
    BY <2>1, <2>2
<1> QED
  BY <1>2, <1>3, <1>4, <1>5

(* The values that the hypotheses of the two lemmas speak of. *)
LEMMA TaskFacts ==
  ASSUME VmSyncInv, NEW t \in Task
  PROVE  /\ task \in [Task -> TaskState] /\ task[t] \in TaskState
         /\ task[t].kind \in Kind /\ task[t].todo \subseteq Vm \cup Store
         /\ faults \in 0..MaxFaults
         /\ Fault => faults' \in 0..MaxFaults
         /\ \A x \in inv : x \in Entry /\ x.id \in Vm \cup Store /\ Key(x) \in Vm \cup Name
         /\ \A x \in task[t].item : x \in Entry /\ x.id \in Vm \cup Store /\ x.kind = task[t].kind
<1>1. TypeOK /\ task[t] \in TaskState
  BY DEF VmSyncInv, TypeOK
<1>2. task[t].kind \in Kind /\ task[t].todo \subseteq Vm \cup Store /\ task[t].item \subseteq Entry
  BY <1>1 DEF TaskState
<1>3. Fault => faults' \in 0..MaxFaults
  BY <1>1, BoundAssumption DEF TypeOK, Fault
<1> QED
  BY <1>1, <1>2, <1>3, EntryType DEF VmSyncInv, TypeOK, ItemsAreTheirs

-----------------------------------------------------------------------------
(* The steps of a task *)

LEMMA BeginRetryInv ==
  ASSUME VmSyncInv, NEW t \in Task, Begin(t) \/ Retry(t), UNCHANGED scope
  PROVE  VmSyncInv'
<1>0. /\ task \in [Task -> TaskState] /\ task[t] \in TaskState /\ faults \in 0..MaxFaults
      /\ task[t].pc \in {"queued", "backoff"}
  BY TaskFacts DEF Begin, Retry
<1>1. task[t].item = {} /\ ~task[t].fresh
  BY <1>0 DEF VmSyncInv, ItemsAreTheirs, FreshTasks, FreshTask
<1>2. CASE Begin(t)
  <2> DEFINE ts == [task[t] EXCEPT !.pc = IF platform = "enabled" THEN "connect" ELSE "refused"]
  <2>1. /\ ts \in TaskState /\ ts.pc \in {"connect", "refused"}
        /\ ts.item = task[t].item /\ ts.fresh = task[t].fresh
    BY <1>0 DEF TaskState, Running, Ended
  <2>2. task' = [task EXCEPT ![t] = ts] /\ UNCHANGED <<platform, inv, rows, moves, faults>>
    BY <1>0, <1>2 DEF Begin
  <2> HIDE DEF ts
  <2> QED
    BY <1>0, <1>1, <2>1, <2>2, LocalStep
<1>3. CASE Retry(t)
  <2> DEFINE ts == [task[t] EXCEPT !.pc = "queued", !.retries = @ + 1]
  <2>1. task[t].retries + 1 \in 0..MaxRetries
    BY <1>0, <1>3, BoundAssumption DEF Retry, VmSyncInv, RetriesLeft, TaskState
  <2>2. /\ ts \in TaskState /\ ts.pc = "queued"
        /\ ts.item = task[t].item /\ ts.fresh = task[t].fresh
    BY <1>0, <2>1 DEF TaskState
  <2>3. task' = [task EXCEPT ![t] = ts] /\ UNCHANGED <<platform, inv, rows, moves, faults>>
    BY <1>0, <1>3 DEF Retry
  <2> HIDE DEF ts
  <2> QED
    BY <1>0, <1>1, <2>2, <2>3, LocalStep
<1> QED
  BY <1>2, <1>3

LEMMA ListInv ==
  ASSUME VmSyncInv, NEW t \in Task, List(t), UNCHANGED scope
  PROVE  VmSyncInv'
<1>0. /\ task \in [Task -> TaskState] /\ task[t] \in TaskState /\ faults \in 0..MaxFaults
      /\ \A x \in inv : x.id \in Vm \cup Store
  BY TaskFacts
<1>1. task[t].item = {}
  BY DEF List, VmSyncInv, ItemsAreTheirs
<1> DEFINE ts == [task[t] EXCEPT !.pc = "loop", !.todo = Ids(Listed(task[t].kind)),
                                 !.keys = {}, !.failed = {}, !.fresh = TRUE]
<1>2. Ids(Listed(task[t].kind)) \in SUBSET (Vm \cup Store)
  BY <1>0 DEF Ids, Listed
<1>3. /\ ts \in TaskState /\ ts.pc = "loop" /\ ts.item = {} /\ ts.kind = task[t].kind
      /\ ts.todo = Ids(Listed(task[t].kind)) /\ ts.keys = {} /\ ts.failed = {}
  BY <1>0, <1>1, <1>2 DEF TaskState, Running
<1>4. task' = [task EXCEPT ![t] = ts] /\ UNCHANGED <<platform, inv, rows, moves, faults>>
  BY <1>0 DEF List
<1> HIDE DEF ts
<1>5. task'[t] = ts
  BY <1>0, <1>4
<1>6. \A x \in Own(ts.kind) : x.id \in ts.todo
  BY <1>3 DEF Own, Ids, Listed
<1>7. FreshTask(t)'
  BY <1>3, <1>4, <1>5, <1>6 DEF FreshTask, Own
<1> QED
  BY <1>0, <1>3, <1>4, <1>7, LocalStep

LEMMA SkipOtherKindInv ==
  ASSUME VmSyncInv, NEW t \in Task, SkipOtherKind(t), UNCHANGED scope
  PROVE  VmSyncInv'
<1>0. /\ task \in [Task -> TaskState] /\ task[t] \in TaskState /\ faults \in 0..MaxFaults
  BY TaskFacts
<1>1. PICK x \in inv : /\ x.kind # task[t].kind
                       /\ task' = [task EXCEPT ![t].todo = @ \ {x.id}]
  BY DEF SkipOtherKind
<1> DEFINE ts == [task[t] EXCEPT !.todo = @ \ {x.id}]
<1>2. /\ ts \in TaskState /\ ts.todo = task[t].todo \ {x.id}
      /\ ts.pc = task[t].pc /\ ts.item = task[t].item /\ ts.kind = task[t].kind
      /\ ts.keys = task[t].keys /\ ts.failed = task[t].failed /\ ts.fresh = task[t].fresh
  BY <1>0 DEF TaskState
<1>3. /\ task' = [task EXCEPT ![t] = ts] /\ UNCHANGED <<platform, inv, rows, moves, faults>>
      /\ task[t].pc = "loop"
  BY <1>0, <1>1 DEF SkipOtherKind
<1> HIDE DEF ts
<1>4. task'[t] = ts /\ task[t].item = {}
  BY <1>0, <1>3 DEF VmSyncInv, ItemsAreTheirs
<1>5. \A y \in Own(ts.kind) : y.id # x.id
  BY <1>1, <1>2 DEF Own, VmSyncInv, WellFormed
<1>6. ASSUME ts.fresh PROVE FreshTask(t)'
  <2>1. FreshTask(t)
    BY <1>2, <1>6 DEF VmSyncInv, FreshTasks
  <2>2. \A k : Own(k)' = Own(k) /\ Present(k)' = Present(k) /\ Active(k)' = Active(k)
    BY <1>3 DEF Own, Present, Active
  <2> QED
    BY <1>2, <1>3, <1>4, <1>5, <2>1, <2>2 DEF FreshTask
<1> QED
  BY <1>0, <1>2, <1>3, <1>4, <1>6, LocalStep

LEMMA ParseInv ==
  ASSUME VmSyncInv, NEW t \in Task, Parse(t), UNCHANGED scope
  PROVE  VmSyncInv'
<1>0. /\ task \in [Task -> TaskState] /\ task[t] \in TaskState /\ faults \in 0..MaxFaults
      /\ \A x \in inv : x \in Entry /\ Key(x) \in Vm \cup Name
  BY TaskFacts
<1>1. PICK x \in inv : /\ x.kind = task[t].kind
                       /\ task' = [task EXCEPT ![t].pc = "write", ![t].todo = @ \ {x.id},
                                               ![t].item = {x}, ![t].keys = @ \cup {Key(x)}]
  BY DEF Parse
<1> DEFINE ts == [task[t] EXCEPT !.pc = "write", !.todo = @ \ {x.id},
                                 !.item = {x}, !.keys = @ \cup {Key(x)}]
<1>2. /\ ts \in TaskState /\ ts.todo = task[t].todo \ {x.id}
      /\ ts.pc = "write" /\ ts.item = {x} /\ ts.kind = task[t].kind
      /\ ts.keys = task[t].keys \cup {Key(x)} /\ ts.failed = task[t].failed
      /\ ts.fresh = task[t].fresh
  BY <1>0 DEF TaskState, Running
<1>3. /\ task' = [task EXCEPT ![t] = ts] /\ UNCHANGED <<platform, inv, rows, moves, faults>>
      /\ task[t].pc = "loop"
  BY <1>0, <1>1 DEF Parse
<1> HIDE DEF ts
<1>4. task'[t] = ts /\ task[t].item = {}
  BY <1>0, <1>3 DEF VmSyncInv, ItemsAreTheirs
<1>5. x \in Own(ts.kind) /\ Key(x) \in Present(ts.kind)
  BY <1>1, <1>2 DEF Own, Present
<1>6. \A y \in Own(ts.kind) : y.id = x.id => y = x
  BY DEF Own, VmSyncInv, WellFormed
<1>7. ASSUME ts.fresh PROVE FreshTask(t)'
  <2>1. FreshTask(t)
    BY <1>2, <1>7 DEF VmSyncInv, FreshTasks
  <2>2. \A k : Own(k)' = Own(k) /\ Present(k)' = Present(k) /\ Active(k)' = Active(k)
    BY <1>3 DEF Own, Present, Active
  <2> QED
    BY <1>2, <1>3, <1>4, <1>5, <1>6, <2>1, <2>2 DEF FreshTask
<1>8. \A y, z \in ts.item : y = z /\ y.kind = ts.kind
  BY <1>1, <1>2
<1> QED
  BY <1>0, <1>2, <1>3, <1>7, <1>8, LocalStep

(* A step that gives up, is lost, or passes over what it could not parse: *)
(* the task is not fresh afterwards.                                       *)
LEMMA BrokenInv ==
  ASSUME VmSyncInv, NEW t \in Task, UNCHANGED scope,
         ParseFails(t) \/ Vanished(t) \/ ConnectionLost(t) \/ Crash(t)
  PROVE  VmSyncInv'
<1>0. /\ task \in [Task -> TaskState] /\ task[t] \in TaskState /\ faults \in 0..MaxFaults
      /\ task[t].todo \subseteq Vm \cup Store
      /\ Fault => faults' \in 0..MaxFaults
  BY TaskFacts
<1>1. UNCHANGED <<platform, inv, rows, moves>> /\ faults' \in 0..MaxFaults
  BY <1>0 DEF ParseFails, Vanished, ConnectionLost, Crash
<1>2. CASE Vanished(t) \/ ConnectionLost(t)
  <2>1. task' = [task EXCEPT ![t] = Aborted(task[t])]
    BY <1>0, <1>2 DEF Vanished, ConnectionLost
  <2>2. /\ Aborted(task[t]) \in TaskState
        /\ ~Aborted(task[t]).fresh /\ Aborted(task[t]).item = {}
        /\ Aborted(task[t]).pc = "backoff" => Aborted(task[t]).retries < MaxRetries
    BY <1>0, AbortedType
  <2> QED
    BY <1>1, <2>1, <2>2, LocalStep
<1>3. CASE Crash(t)
  <2> DEFINE ts == [task[t] EXCEPT !.pc = "lost", !.item = {}, !.fresh = FALSE]
  <2>1. task' = [task EXCEPT ![t] = ts]
    BY <1>0, <1>3 DEF Crash
  <2>2. ts \in TaskState /\ ts.pc = "lost" /\ ts.item = {} /\ ~ts.fresh
    BY <1>0 DEF TaskState, Ended
  <2> HIDE DEF ts
  <2> QED
    BY <1>1, <2>1, <2>2, LocalStep
<1>4. CASE ParseFails(t)
  <2>1. PICK v \in task[t].todo :
          LET u == [task[t] EXCEPT !.todo = @ \ {v}, !.fresh = FALSE]
          IN  task' = [task EXCEPT ![t] = Skipped(u, v)] \/ task' = [task EXCEPT ![t] = u]
    BY <1>4 DEF ParseFails
  <2> DEFINE u == [task[t] EXCEPT !.todo = @ \ {v}, !.fresh = FALSE]
  <2>2. task[t].pc = "loop" /\ task[t].item = {}
    BY <1>4 DEF ParseFails, VmSyncInv, ItemsAreTheirs
  <2>3. /\ u \in TaskState /\ u.pc = "loop" /\ u.item = {} /\ ~u.fresh
    BY <1>0, <2>2 DEF TaskState
  <2>4. v \in Vm \cup Store
    BY <1>0
  <2>8. task' = [task EXCEPT ![t] = Skipped(u, v)] \/ task' = [task EXCEPT ![t] = u]
    BY <2>1
  <2> HIDE DEF u
  <2>5. /\ Skipped(u, v) \in TaskState /\ Skipped(u, v).pc = "loop"
        /\ Skipped(u, v).item = {} /\ ~Skipped(u, v).fresh
    <3>1. u \in TaskState
      BY <2>3
    <3>2. /\ Skipped(u, v) \in TaskState
          /\ Skipped(u, v).pc = "loop" /\ Skipped(u, v).item = {}
          /\ Skipped(u, v).fresh = u.fresh
      BY ONLY <3>1, <2>4, SkippedType
    <3> QED
      BY <3>2, <2>3
  <2>6. CASE task' = [task EXCEPT ![t] = u]
    BY <1>1, <2>3, <2>6, LocalStep
  <2>7. CASE task' = [task EXCEPT ![t] = Skipped(u, v)]
    BY <1>1, <2>5, <2>7, LocalStep
  <2> QED
    BY <2>8, <2>6, <2>7
<1> QED
  BY <1>2, <1>3, <1>4

LEMMA WriteFailsInv ==
  ASSUME VmSyncInv, NEW t \in Task, WriteFails(t), UNCHANGED scope
  PROVE  VmSyncInv'
<1>0. /\ task \in [Task -> TaskState] /\ task[t] \in TaskState /\ faults \in 0..MaxFaults
      /\ Fault => faults' \in 0..MaxFaults
      /\ \A x \in task[t].item : x \in Entry /\ x.id \in Vm \cup Store
  BY TaskFacts
<1>1. PICK x \in task[t].item :
        /\ faults' = faults \/ Fault
        /\ task' = [task EXCEPT ![t] = IF x.id \in Ids(inv) THEN Skipped(@, x.id) ELSE Aborted(@)]
  BY DEF WriteFails
<1>2. UNCHANGED <<platform, inv, rows, moves>> /\ faults' \in 0..MaxFaults /\ task[t].pc = "write"
  BY <1>0, <1>1 DEF WriteFails
<1>3. CASE x.id \notin Ids(inv)
  <2>1. task' = [task EXCEPT ![t] = Aborted(task[t])]
    BY <1>0, <1>1, <1>3
  <2>2. /\ Aborted(task[t]) \in TaskState
        /\ ~Aborted(task[t]).fresh /\ Aborted(task[t]).item = {}
        /\ Aborted(task[t]).pc = "backoff" => Aborted(task[t]).retries < MaxRetries
    BY <1>0, AbortedType
  <2> QED
    BY <1>2, <2>1, <2>2, LocalStep
<1>4. CASE x.id \in Ids(inv)
  <2> DEFINE ts == Skipped(task[t], x.id)
  <2>1. /\ ts \in TaskState
        /\ ts = [task[t] EXCEPT !.pc = "loop", !.item = {}, !.failed = @ \cup {x.id}]
        /\ ts.pc = "loop" /\ ts.item = {}
        /\ ts.fresh = task[t].fresh /\ ts.kind = task[t].kind
    BY <1>0, SkippedType
  <2>2. task' = [task EXCEPT ![t] = ts] /\ task'[t] = ts
    BY <1>0, <1>1, <1>4
  <2> HIDE DEF ts
  <2>3. ts.todo = task[t].todo /\ ts.keys = task[t].keys /\ ts.failed = task[t].failed \cup {x.id}
    BY <1>0, <2>1 DEF TaskState
  <2>4. \A y \in task[t].item : y.id \in ts.failed
    BY <2>3 DEF VmSyncInv, ItemsAreTheirs
  <2>5. ASSUME ts.fresh PROVE FreshTask(t)'
    <3>1. FreshTask(t)
      BY <2>1, <2>5 DEF VmSyncInv, FreshTasks
    <3>2. \A k : Own(k)' = Own(k) /\ Present(k)' = Present(k) /\ Active(k)' = Active(k)
      BY <1>2 DEF Own, Present, Active
    <3> QED
      BY <2>1, <2>2, <2>3, <2>4, <3>1, <3>2 DEF FreshTask
  <2> QED
    BY <1>2, <2>1, <2>2, <2>5, LocalStep
<1> QED
  BY <1>3, <1>4

LEMMA WriteInv ==
  ASSUME VmSyncInv, NEW t \in Task, Write(t), UNCHANGED scope
  PROVE  VmSyncInv'
<1>0. /\ task \in [Task -> TaskState] /\ task[t] \in TaskState
      /\ \A x \in task[t].item : x \in Entry /\ x.kind = task[t].kind
  BY TaskFacts
<1>1. PICK x \in task[t].item : ~Conflict(x) /\ rows' = Upserted(x)
  BY DEF Write
<1>a. [task[t] EXCEPT !.pc = "loop", !.item = {}] \in TaskState
  BY <1>0 DEF TaskState, Running
<1>2. PICK ts \in TaskState :
        /\ ts = [task[t] EXCEPT !.pc = "loop", !.item = {}]
        /\ ts.todo = task[t].todo /\ ts.pc = "loop" /\ ts.item = {}
        /\ ts.kind = task[t].kind /\ ts.keys = task[t].keys /\ ts.failed = task[t].failed
        /\ ts.fresh = task[t].fresh
  BY <1>0, <1>a DEF TaskState
<1>3. task' = AfterWrite(t, ts) /\ UNCHANGED <<platform, inv, moves, faults>>
  BY <1>2 DEF Write
<1>4. /\ rows' \in [Kind -> SUBSET Row] /\ RowsAreUnambiguous'
      /\ \A k \in Kind \ {ts.kind} : Active(k)' = Active(k)
      /\ Active(ts.kind)' = Active(ts.kind) \cup {Key(x)}
  BY <1>0, <1>1, <1>2, UpsertedTable DEF VmSyncInv, TypeOK
<1>5. NoOrphanRows'
  BY <1>1, <1>3 DEF Conflict, NoOrphanRows
<1>6. ASSUME task[t].fresh
      PROVE  FreshTask(t) /\ Key(x) \in Present(ts.kind)
  <2>1. FreshTask(t)
    BY <1>6 DEF VmSyncInv, FreshTasks
  <2> QED
    BY <1>2, <2>1 DEF FreshTask, Own, Present
<1>7. ASSUME task[t].fresh, task'[t] = ts PROVE FreshTask(t)'
  <2>1. FreshTask(t) /\ \A y \in task[t].item : y = x
    BY <1>6, <1>7 DEF VmSyncInv, ItemsAreTheirs
  <2>2. \A k : Own(k)' = Own(k) /\ Present(k)' = Present(k)
    BY <1>3 DEF Own, Present
  <2> QED
    BY <1>2, <1>4, <1>7, <2>1, <2>2 DEF FreshTask
<1> QED
  BY <1>2, <1>3, <1>4, <1>5, <1>6, <1>7, TableStep

LEMMA MarkMissingInv ==
  ASSUME VmSyncInv, NEW t \in Task, MarkMissing(t), UNCHANGED scope
  PROVE  VmSyncInv'
<1>0. task \in [Task -> TaskState] /\ task[t] \in TaskState /\ task[t].kind \in Kind
  BY TaskFacts
<1>a. [task[t] EXCEPT !.pc = "success"] \in TaskState
  BY <1>0 DEF TaskState, Ended
<1>1. PICK ts \in TaskState :
        /\ ts = [task[t] EXCEPT !.pc = "success"]
        /\ ts.todo = task[t].todo /\ ts.pc = "success"
        /\ ts.item = task[t].item /\ ts.kind = task[t].kind /\ ts.keys = task[t].keys
        /\ ts.failed = task[t].failed /\ ts.fresh = task[t].fresh
  BY <1>0, <1>a DEF TaskState
<1>2. /\ task' = AfterWrite(t, ts) /\ UNCHANGED <<platform, inv, moves, faults>>
      /\ task[t].pc = "loop" /\ task[t].todo = {}
      /\ rows' = Marked(ts.kind, task[t].keys)
  BY <1>1 DEF MarkMissing
<1>3. task[t].item = {}
  BY <1>2 DEF VmSyncInv, ItemsAreTheirs
<1>k. PICK ks : ks = task[t].keys
  OBVIOUS
<1>4. /\ rows' \in [Kind -> SUBSET Row] /\ RowsAreUnambiguous'
      /\ \A k \in Kind \ {ts.kind} : Active(k)' = Active(k)
      /\ Active(ts.kind)' = Active(ts.kind) \cap ks
  BY <1>k, <1>0, <1>1, <1>2, MarkedTable DEF VmSyncInv, TypeOK
<1>5. NoOrphanRows'
  BY <1>2 DEF Marked, VmSyncInv, NoOrphanRows
<1>6. ASSUME task[t].fresh
      PROVE  FreshTask(t) /\ task[t].keys = Present(ts.kind)
  <2>1. FreshTask(t)
    BY <1>6 DEF VmSyncInv, FreshTasks
  <2> QED
    BY <1>1, <1>2, <2>1 DEF FreshTask, Own, Present
<1>7. ASSUME task[t].fresh, task'[t] = ts PROVE FreshTask(t)'
  <2>1. \A k : Own(k)' = Own(k) /\ Present(k)' = Present(k)
    BY <1>2 DEF Own, Present
  <2> QED
    BY <1>k, <1>1, <1>2, <1>3, <1>4, <1>6, <1>7, <2>1 DEF FreshTask
<1> QED
  BY <1>k, <1>1, <1>2, <1>3, <1>4, <1>5, <1>6, <1>7, TableStep

LEMMA TriggerInv ==
  ASSUME VmSyncInv, NEW t \in Task, NEW k \in Kind, Trigger(t, k), UNCHANGED scope
  PROVE  VmSyncInv'
<1>0. task \in [Task -> TaskState] /\ faults \in 0..MaxFaults
  BY TaskFacts
<1> DEFINE ts == [pc |-> "queued", kind |-> k, todo |-> {}, item |-> {}, keys |-> {},
                  failed |-> {}, retries |-> 0, fresh |-> FALSE]
<1>1. ts \in TaskState /\ ts.pc = "queued" /\ ts.item = {} /\ ~ts.fresh
  BY BoundAssumption DEF TaskState
<1>2. task' = [task EXCEPT ![t] = ts] /\ UNCHANGED <<platform, inv, rows, moves, faults>>
  BY DEF Trigger
<1> HIDE DEF ts
<1> QED
  BY <1>0, <1>1, <1>2, LocalStep

-----------------------------------------------------------------------------
(* The environment *)

LEMMA InventoryChangesInv ==
  ASSUME VmSyncInv, InventoryChanges, UNCHANGED scope
  PROVE  VmSyncInv'
<1> USE DEF VmSyncInv
<1>1. PICK x \in Entry :
        /\ \/ inv' = inv \ {x}
           \/ inv' = {y \in inv : y.id # x.id} \cup {x}
        /\ task' = Stale(task, IF x.kind \in MachineKind THEN MachineKind ELSE {x.kind})
  BY DEF InventoryChanges
<1> DEFINE ks == IF x.kind \in MachineKind THEN MachineKind ELSE {x.kind}
<1>2. UNCHANGED <<platform, rows, faults>> /\ moves' \in 0..MaxMoves
  BY BoundAssumption DEF InventoryChanges, TypeOK
<1>3. /\ task' \in [Task -> TaskState]
      /\ \A s \in Task :
           /\ task'[s].pc = task[s].pc /\ task'[s].kind = task[s].kind
           /\ task'[s].item = task[s].item /\ task'[s].retries = task[s].retries
           /\ task'[s].fresh => task[s].kind \notin ks /\ task'[s] = task[s]
  BY <1>1, StaleTasks DEF TypeOK
<1>4. inv' \subseteq Entry /\ WellFormed(inv)'
  BY <1>1 DEF TypeOK, WellFormed
<1>5. TypeOK' /\ RetriesLeft' /\ ItemsAreTheirs'
  BY <1>2, <1>3, <1>4 DEF TypeOK, RetriesLeft, ItemsAreTheirs
<1>6. RowsAreUnambiguous' /\ NoOrphanRows'
  BY <1>2 DEF RowsAreUnambiguous, NoOrphanRows
<1>7. \A y \in inv : y.id = x.id => y.kind \in ks
  BY KindsAssumption DEF TypeOK, Entry, MachineKind
<1>8. x.kind \in ks
  OBVIOUS
<1>9. FreshTasks'
  <2> SUFFICES ASSUME NEW s \in Task, task'[s].fresh PROVE FreshTask(s)'
    BY DEF FreshTasks
  <2>1. PICK k \in Kind : k = task[s].kind
    BY DEF TypeOK, TaskState
  <2>2. k \notin ks /\ task'[s] = task[s] /\ FreshTask(s)
    BY <1>3, <2>1 DEF FreshTasks
  <2> HIDE DEF ks
  <2>3. Own(k)' = Own(k)
    BY <1>1, <1>7, <1>8, <2>2 DEF Own
  <2>4. Active(k)' = Active(k)
    BY <1>2 DEF Active
  <2> QED
    BY <2>1, <2>2, <2>3, <2>4, FreshFrame
<1> QED
  BY <1>4, <1>5, <1>6, <1>9

LEMMA TogglePlatformInv ==
  ASSUME VmSyncInv, TogglePlatform, UNCHANGED scope
  PROVE  VmSyncInv'
<1> USE DEF VmSyncInv
<1>1. UNCHANGED <<inv, rows, task, faults>> /\ moves' \in 0..MaxMoves
  BY BoundAssumption DEF TogglePlatform, TypeOK
<1>2. platform' \in {"enabled", "disabled"}
  BY DEF TogglePlatform
<1>3. TypeOK' /\ RetriesLeft' /\ ItemsAreTheirs' /\ WellFormed(inv)'
  BY <1>1, <1>2 DEF TypeOK, RetriesLeft, ItemsAreTheirs, WellFormed
<1>4. RowsAreUnambiguous' /\ NoOrphanRows'
  BY <1>1, <1>2 DEF RowsAreUnambiguous, NoOrphanRows
<1>5. FreshTasks'
  BY <1>1 DEF FreshTasks, FreshTask, Own, Present, Active
<1> QED
  BY <1>3, <1>4, <1>5

LEMMA DeletePlatformInv ==
  ASSUME VmSyncInv, DeletePlatform, UNCHANGED scope
  PROVE  VmSyncInv'
<1> USE DEF VmSyncInv
<1>1. /\ UNCHANGED <<inv, faults>> /\ moves' \in 0..MaxMoves
      /\ platform' = "deleted" /\ rows' = [k \in Kind |-> {}] /\ task' = Stale(task, Kind)
  BY BoundAssumption DEF DeletePlatform, TypeOK
<1>2. /\ task' \in [Task -> TaskState]
      /\ \A s \in Task :
           /\ task'[s].pc = task[s].pc /\ task'[s].kind = task[s].kind
           /\ task'[s].item = task[s].item /\ task'[s].retries = task[s].retries
           /\ ~task'[s].fresh
  BY <1>1, StaleTasks DEF TypeOK, TaskState
<1>3. TypeOK' /\ RetriesLeft' /\ ItemsAreTheirs' /\ WellFormed(inv)'
  BY <1>1, <1>2 DEF TypeOK, RetriesLeft, ItemsAreTheirs, WellFormed
<1>4. RowsAreUnambiguous' /\ NoOrphanRows' /\ FreshTasks'
  BY <1>1, <1>2 DEF RowsAreUnambiguous, NoOrphanRows, FreshTasks
<1> QED
  BY <1>3, <1>4

-----------------------------------------------------------------------------
(* The invariant *)

LEMMA InvInit == Init => VmSyncInv
<1> SUFFICES ASSUME Init PROVE VmSyncInv
  OBVIOUS
<1> DEFINE ts == [pc |-> "idle", kind |-> "vm", todo |-> {}, item |-> {}, keys |-> {},
                  failed |-> {}, retries |-> 0, fresh |-> FALSE]
<1>1. ts \in TaskState /\ ts.pc = "idle" /\ ts.item = {} /\ ~ts.fresh
  BY KindsDiffer, BoundAssumption DEF TaskState, Ended
<1>2. \A t \in Task : task[t] = ts
  BY DEF Init
<1>3. task \in [Task -> TaskState]
  BY <1>1 DEF Init
<1> HIDE DEF ts
<1>4. TypeOK
  BY <1>3, BoundAssumption DEF Init, TypeOK
<1>5. RetriesLeft /\ ItemsAreTheirs /\ FreshTasks
  BY <1>1, <1>2 DEF RetriesLeft, ItemsAreTheirs, FreshTasks
<1>6. WellFormed(inv) /\ RowsAreUnambiguous /\ NoOrphanRows
  BY DEF Init, RowsAreUnambiguous, NoOrphanRows
<1> QED
  BY <1>4, <1>5, <1>6 DEF VmSyncInv

LEMMA InvNext == VmSyncInv /\ [Next]_vars => VmSyncInv'
<1> SUFFICES ASSUME VmSyncInv, [Next]_vars PROVE VmSyncInv'
  OBVIOUS
<1>1. CASE UNCHANGED vars
  BY <1>1 DEF vars, VmSyncInv, TypeOK, RetriesLeft, WellFormed, ItemsAreTheirs,
              RowsAreUnambiguous, NoOrphanRows, FreshTasks, FreshTask, Own, Present, Active
<1>2. CASE Next
  <2>1. UNCHANGED scope /\ scope \subseteq Kind
    BY <1>2, BoundAssumption DEF Next, VmSyncInv, TypeOK
  <2>2. ASSUME NEW t \in Task, Step(t) \/ ParseFails(t) \/ ConnectionLost(t) \/ Crash(t)
        PROVE  VmSyncInv'
    BY <2>1, <2>2, BeginRetryInv, ListInv, SkipOtherKindInv, ParseInv, BrokenInv, WriteInv,
       WriteFailsInv, MarkMissingInv DEF Step
  <2> QED
    BY <1>2, <2>1, <2>2, TriggerInv, InventoryChangesInv, TogglePlatformInv,
       DeletePlatformInv DEF Next
<1> QED
  BY <1>1, <1>2

(* Whatever is renamed, converted, deleted or lost while any number of     *)
(* syncs of machines, templates and datastores overlap: no table has two   *)
(* rows for a uuid or a name, a deleted platform leaves no row behind, and *)
(* each fresh task accounts for every object of its kind.                  *)
THEOREM Invariance == Spec => []VmSyncInv
BY InvInit, InvNext, PTL DEF Spec

(* A clean sync_vms and a clean sync_templates leave every machine active  *)
(* in the table of its kind and in no other, a clean sync_datastores the   *)
(* names that there are, for any inventory and any number of tasks.        *)
THEOREM CleanSyncs == Spec => []CleanSyncsPartition
<1>1. VmSyncInv => CleanSyncsPartition
  <2> SUFFICES ASSUME VmSyncInv, NEW k, NEW t \in Task, Clean(t), task[t].kind = k
               PROVE  Active(k) = Present(k)
    BY DEF CleanSyncsPartition
  <2>1. FreshTask(t) /\ task[t].pc = "success" /\ task[t].failed = {} /\ task[t].item = {}
    BY DEF Clean, VmSyncInv, FreshTasks, ItemsAreTheirs
  <2>2. \A x \in Own(k) : Key(x) \in Active(k)
    BY <2>1 DEF FreshTask
  <2> QED
    BY <2>1, <2>2 DEF FreshTask, Own, Present
<1> QED
  BY <1>1, Invariance, PTL

-----------------------------------------------------------------------------
(* The pass that ends a sync *)

(* Only its own deactivation pass takes a task from its loop to success. *)
LEMMA OnlyMarkMissingEnds ==
  ASSUME VmSyncInv, Next, NEW t \in Task, task[t].pc = "loop", task'[t].pc = "success"
  PROVE  MarkMissing(t)
<1>0. task \in [Task -> TaskState] /\ task[t] \in TaskState
  BY TaskFacts
<1> SUFFICES ASSUME ~MarkMissing(t) PROVE task'[t].pc # "success"
  OBVIOUS
<1>1. ASSUME NEW ks, task' = Stale(task, ks) PROVE task'[t].pc = "loop"
  BY <1>0, <1>1, StaleTasks
<1>2. ASSUME NEW s \in Task, Begin(s) \/ List(s) \/ SkipOtherKind(s) \/ Parse(s) \/ Retry(s)
      PROVE  task'[t].pc # "success"
  <2>1. CASE s # t
    BY <1>0, <1>2, <2>1 DEF Begin, List, SkipOtherKind, Parse, Retry
  <2>2. CASE SkipOtherKind(t)
    BY <1>0, <2>2 DEF SkipOtherKind, TaskState
  <2>3. CASE Parse(t)
    BY <1>0, <2>3 DEF Parse, TaskState
  <2> QED
    BY <1>2, <2>1, <2>2, <2>3 DEF Begin, List, Retry
<1>3. ASSUME NEW s \in Task, ParseFails(s) \/ Vanished(s) \/ WriteFails(s) \/ ConnectionLost(s)
      PROVE  task'[t].pc # "success"
  <2>1. CASE s # t
    BY <1>0, <1>3, <2>1 DEF ParseFails, Vanished, WriteFails, ConnectionLost
  <2>2. CASE Vanished(t) \/ ConnectionLost(t)
    BY <1>0, <2>2, AbortedType DEF Vanished, ConnectionLost
  <2>3. CASE ParseFails(t)
    <3>1. PICK v \in task[t].todo :
            \/ task'[t] = Skipped([task[t] EXCEPT !.todo = @ \ {v}, !.fresh = FALSE], v)
            \/ task'[t] = [task[t] EXCEPT !.todo = @ \ {v}, !.fresh = FALSE]
      BY <1>0, <2>3 DEF ParseFails
    <3>2. v \in Vm \cup Store /\ [task[t] EXCEPT !.todo = @ \ {v}, !.fresh = FALSE] \in TaskState
      BY <1>0 DEF TaskState
    <3>3. [task[t] EXCEPT !.todo = @ \ {v}, !.fresh = FALSE].pc = "loop"
      BY <1>0 DEF TaskState
    <3> QED
      BY <3>1, <3>2, <3>3, SkippedType
  <2>4. CASE WriteFails(t)
    BY <2>4 DEF WriteFails
  <2> QED
    BY <1>3, <2>1, <2>2, <2>3, <2>4
<1>4. ASSUME NEW s \in Task, Crash(s) PROVE task'[t].pc # "success"
  BY <1>0, <1>4 DEF Crash, TaskState
<1>5. ASSUME NEW s \in Task, Write(s) \/ MarkMissing(s) PROVE task'[t].pc # "success"
  <2>1. s # t
    BY <1>5 DEF Write
  <2>2. PICK ts \in TaskState : task' = AfterWrite(s, ts)
    <3>1. /\ task[s] \in TaskState
          /\ [task[s] EXCEPT !.pc = "loop", !.item = {}] \in TaskState
          /\ [task[s] EXCEPT !.pc = "success"] \in TaskState
      BY <1>0 DEF TaskState, Running, Ended
    <3> QED
      BY <1>5, <3>1 DEF Write, MarkMissing
  <2> QED
    BY <1>0, <2>1, <2>2, AfterWriteTasks
<1>6. ASSUME NEW s \in Task, NEW k, Trigger(s, k) PROVE task'[t].pc # "success"
  BY <1>0, <1>6 DEF Trigger
<1> QED
  BY <1>1, <1>2, <1>3, <1>4, <1>5, <1>6
  DEF Next, Step, InventoryChanges, TogglePlatform, DeletePlatform

(* A sync never deactivates what is there and was read by it, whether or   *)
(* not it could write it: the pass knows it among the keys.                *)
THEOREM ReadStayActive == Spec => ReadMachinesStayActive
<1>1. VmSyncInv /\ [Next]_vars
        => [\A t \in Task, k \in Kind :
              task[t].fresh /\ task[t].kind = k /\ task[t].pc = "loop" /\ task'[t].pc = "success"
                => (Active(k) \cap Present(k)) \subseteq Active(k)']_vars
  <2> SUFFICES ASSUME VmSyncInv, Next, NEW t \in Task, NEW k \in Kind, task[t].fresh,
                      task[t].kind = k, task[t].pc = "loop", task'[t].pc = "success"
               PROVE  (Active(k) \cap Present(k)) \subseteq Active(k)'
    OBVIOUS
  <2>1. task[t].todo = {} /\ rows' = Marked(k, task[t].keys)
    BY OnlyMarkMissingEnds DEF MarkMissing
  <2>2. PICK ks : ks = task[t].keys
    OBVIOUS
  <2>3. Active(k)' = Active(k) \cap ks
    BY <2>1, <2>2, MarkedTable DEF VmSyncInv, TypeOK
  <2>4. Present(k) \subseteq ks
    BY <2>1, <2>2 DEF VmSyncInv, FreshTasks, FreshTask, Own, Present
  <2> QED
    BY <2>3, <2>4
<1> QED
  BY <1>1, Invariance, PTL DEF Spec, ReadMachinesStayActive
=============================================================================
