----------------------------- MODULE BatchJobs ------------------------------
(***************************************************************************)
(* An import that runs in the background.  The view splits the rows into   *)
(* batches and sends one Celery task for each; a task runs the view on its *)
(* batch, pushes the result on a Redis list shared by the tasks, and,      *)
(* under a lock that runs out, looks whether all results are on the list;  *)
(* if so it reads them, deletes the list and sends the user a message.  A  *)
(* model that refers to itself is imported in one batch, sorted so that    *)
(* rows come after their parents.                                          *)
(***************************************************************************)
EXTENDS Naturals, FiniteSets, Sequences, SequencesExt

CONSTANTS
  Item,         \* rows of an import into a model that refers to itself
  NoParent,     \* the parent of a row that has none
  Elsewhere,    \* a parent that is not among the imported rows
  MaxBatches,   \* bound: batches of an import
  MaxSize,      \* max_size of CacheList
  MaxFaults     \* bound: crashes, expiries, failures of the broker

ASSUME BatchAssumption ==
  /\ MaxBatches \in Nat \ {0} /\ MaxSize \in Nat \ {0} /\ MaxFaults \in Nat
  /\ IsFiniteSet(Item) /\ {NoParent, Elsewhere} \cap Item = {}

VARIABLES
  parent,       \* parent[i]: what row i of a self-referring model refers to
  count,        \* task_count; 0 while the rows are not split
  order,        \* the rows of the single batch of a self-referring model
  launch,       \* how far run_view_by_celery_task has come
  batch,        \* batch[b]: a task
  results,      \* the Redis list, newest first
  locker,       \* the task that holds the lock, 0 if none
  messages,     \* what the user is told, "success" or "failure" each time
  disturbed,    \* history: the lock ran out under a task that was at the
                \* list, or the list changed between its len() and get_all()
  faults

vars == <<parent, count, order, launch, batch, results, locker, messages, disturbed, faults>>

Batch == 1..count

Result == [index : 1..MaxBatches, status : BOOLEAN]

(* Running before the result is pushed, after it, and not any more. *)
Working == {"view", "push", "size", "trim"}
Guarded == {"look", "check", "take", "drop"}
Pushed == {"lock", "publish", "release"} \cup Guarded
Ended == {"done", "broken", "lost"}

Task ==
  [pc : Working \cup Pushed \cup Ended \cup {"unsent", "queued"},
   outcome : {"pending", "accepted", "rejected"}, stop : 0..MaxBatches,
   taken : SUBSET Result]

TypeOK ==
  /\ parent \in [Item -> Item \cup {NoParent, Elsewhere}]
  /\ count \in 0..MaxBatches
  /\ order \in Seq(Item)
  /\ launch \in {"sort", "send", "sent", "refused", "failed"}
  /\ batch \in [Batch -> Task]
  /\ results \in Seq(Result)
  /\ locker \in 0..MaxBatches
  /\ messages \in Seq({"success", "failure"}) /\ disturbed \in BOOLEAN
  /\ faults \in 0..MaxFaults

Unsent == [pc |-> "unsent", outcome |-> "pending", stop |-> 0, taken |-> {}]

-----------------------------------------------------------------------------
(* topological_sort: rows without a parent in the data first, then those   *)
(* whose parents are all out; a row that never comes out is on a cycle.    *)

Children(i) == {j \in Item : parent[j] = i}

(* Mutant: only rows that have no parent at all are there at the start. *)
RootsAtTop == {i \in Item : parent[i] = NoParent}

Roots == {i \in Item : parent[i] \notin Item}

(* queue and order after n rounds of the loop. *)
Rounds ==
  LET round[n \in 0..Cardinality(Item)] ==
        IF n = 0 THEN [queue |-> SetToSeq(Roots), order |-> <<>>]
        ELSE LET r == round[n - 1]
             IN  IF r.queue = <<>> THEN r
                 ELSE [queue |-> Tail(r.queue) \o SetToSeq(Children(Head(r.queue))),
                       order |-> Append(r.order, Head(r.queue))]
  IN  round[Cardinality(Item)]

-----------------------------------------------------------------------------
(* import_data and run_view_by_celery_task *)

Init ==
  /\ parent \in [Item -> Item \cup {NoParent, Elsewhere}]
  /\ count = 0 /\ order = <<>> /\ launch = "sort" /\ batch = <<>>
  /\ results = <<>> /\ locker = 0 /\ messages = <<>> /\ disturbed = FALSE
  /\ faults = 0

(* task_count, and the batches; of no rows there is none. *)
Cut(n) ==
  /\ count' = n /\ batch' = [b \in 1..n |-> Unsent]
  /\ launch' = IF n = 0 THEN "sent" ELSE "send"

(* The rows of a self-referring model: one batch, or an error when the     *)
(* rows refer to each other in a circle.                                   *)
Sort ==
  /\ launch = "sort"
  /\ IF Len(Rounds.order) = Cardinality(Item)
       THEN order' = Rounds.order /\ Cut(IF Item = {} THEN 0 ELSE 1)
       ELSE launch' = "refused" /\ UNCHANGED <<order, count, batch>>
  /\ UNCHANGED <<parent, results, locker, messages, disturbed, faults>>

(* Other rows are cut into batches of a hundred, in the order they have.   *)
Split(n) ==
  /\ launch = "sort"
  /\ \A i \in Item : parent[i] = Elsewhere
  /\ Cut(n)
  /\ UNCHANGED <<parent, order, results, locker, messages, disturbed, faults>>

(* apply_async for one batch after the other. *)
Send(b) ==
  /\ launch = "send" /\ batch[b].pc = "unsent"
  /\ \A a \in 1..(b - 1) : batch[a].pc # "unsent"
  /\ batch' = [batch EXCEPT ![b].pc = "queued"]
  /\ launch' = IF b = count THEN "sent" ELSE "send"
  /\ UNCHANGED <<parent, count, order, results, locker, messages, disturbed, faults>>

(* The broker fails: the request ends with an error, what is sent runs. *)
SendFails ==
  /\ launch = "send" /\ faults < MaxFaults
  /\ launch' = "failed" /\ faults' = faults + 1
  /\ batch' = [b \in Batch |->
                 IF batch[b].pc = "unsent" THEN [batch[b] EXCEPT !.pc = "lost"] ELSE batch[b]]
  /\ UNCHANGED <<parent, count, order, results, locker, messages, disturbed>>

-----------------------------------------------------------------------------
(* background_task_view_set_job *)

Goto(b, pc) == batch' = [batch EXCEPT ![b].pc = pc]

Start(b) ==
  /\ batch[b].pc = "queued"
  /\ Goto(b, "view")
  /\ UNCHANGED <<parent, count, order, launch, results, locker, messages, disturbed, faults>>

(* The view imports the batch in one transaction and answers: it accepts   *)
(* the batch, which with ignore_error means without the rows that do not   *)
(* validate, or an error in a row rolls the batch back.                    *)
View(b, outcome) ==
  /\ batch[b].pc = "view"
  /\ batch' = [batch EXCEPT ![b].pc = "push", ![b].outcome = outcome]
  /\ UNCHANGED <<parent, count, order, launch, results, locker, messages, disturbed, faults>>

(* lpush; stop is the length by now. *)
Push(b) ==
  LET pushed == <<[index |-> b, status |-> batch[b].outcome = "accepted"]>> \o results
  IN
  /\ batch[b].pc = "push"
  /\ results' = pushed
  /\ batch' = [batch EXCEPT ![b].pc = "size", ![b].stop = Len(pushed)]
  /\ UNCHANGED <<parent, count, order, launch, locker, messages, disturbed, faults>>

(* llen: too long, for this task, is the list of this moment. *)
Measure(b) ==
  /\ batch[b].pc = "size"
  /\ batch' = IF MaxSize < Len(results)
                THEN [batch EXCEPT ![b].pc = "trim", ![b].stop = Len(results)]
                ELSE [batch EXCEPT ![b].pc = "lock"]
  /\ UNCHANGED <<parent, count, order, launch, results, locker, messages, disturbed, faults>>

(* A task has counted the results and not yet read them. *)
Taking == \E b \in Batch : batch[b].pc = "take"

(* ltrim keeps what lies from stop - max_size to stop, counted from 0 and  *)
(* from the newest: the newest results go, and the oldest if two or more   *)
(* were pushed since stop was read.                                        *)
Kept(first, last) ==
  SubSeq(results, first, IF last <= Len(results) THEN last ELSE Len(results))

Trim(b) ==
  /\ batch[b].pc = "trim"
  /\ results' = Kept(batch[b].stop - MaxSize + 1, batch[b].stop + 1)
  /\ disturbed' = (disturbed \/ Taking)
  /\ Goto(b, "lock")
  /\ UNCHANGED <<parent, count, order, launch, locker, messages, faults>>

(* Mutant: nobody waits for the lock. *)
AcquireAtOnce(b) ==
  /\ batch[b].pc = "lock"
  /\ locker' = b
  /\ Goto(b, "look")
  /\ UNCHANGED <<parent, count, order, launch, results, messages, disturbed, faults>>

(* with cache.lock(timeout=180): waits without a limit. *)
Acquire(b) ==
  /\ batch[b].pc = "lock" /\ locker = 0
  /\ locker' = b
  /\ Goto(b, "look")
  /\ UNCHANGED <<parent, count, order, launch, results, messages, disturbed, faults>>

(* cache.len(), that there are results at all, *)
Look(b) ==
  /\ batch[b].pc = "look"
  /\ Goto(b, IF results # <<>> THEN "check" ELSE "release")
  /\ UNCHANGED <<parent, count, order, launch, results, locker, messages, disturbed, faults>>

(* Mutant: the last result is not counted. *)
CheckCountsOthers(b) ==
  /\ batch[b].pc = "check"
  /\ Goto(b, IF Len(results) = count + 1 THEN "take" ELSE "release")
  /\ UNCHANGED <<parent, count, order, launch, results, locker, messages, disturbed, faults>>

(* cache.len() once more, that there are all. *)
Check(b) ==
  /\ batch[b].pc = "check"
  /\ Goto(b, IF Len(results) = count THEN "take" ELSE "release")
  /\ UNCHANGED <<parent, count, order, launch, results, locker, messages, disturbed, faults>>

(* cache.get_all(), of what is on the list by now, *)
Take(b) ==
  /\ batch[b].pc = "take"
  /\ batch' = [batch EXCEPT ![b].pc = "drop", ![b].taken = ToSet(results)]
  /\ UNCHANGED <<parent, count, order, launch, results, locker, messages, disturbed, faults>>

(* cache.delete(). *)
Drop(b) ==
  /\ batch[b].pc = "drop"
  /\ results' = <<>>
  /\ Goto(b, "publish")
  /\ UNCHANGED <<parent, count, order, launch, locker, messages, disturbed, faults>>

(* all() of no results is true. *)
Publish(b) ==
  /\ batch[b].pc = "publish"
  /\ messages' = Append(messages,
                        IF \A r \in batch[b].taken : r.status THEN "success" ELSE "failure")
  /\ Goto(b, "release")
  /\ UNCHANGED <<parent, count, order, launch, results, locker, disturbed, faults>>

(* Leaving the with block; a lock that is no longer held is an error. *)
Release(b) ==
  /\ batch[b].pc = "release"
  /\ locker' = IF locker = b THEN 0 ELSE locker
  /\ Goto(b, IF locker = b THEN "done" ELSE "broken")
  /\ UNCHANGED <<parent, count, order, launch, results, messages, disturbed, faults>>

-----------------------------------------------------------------------------
(* Faults *)

(* The task raises outside the view, or its worker dies. *)
Crash(b) ==
  /\ batch[b].pc \in Working \cup Pushed /\ faults < MaxFaults
  /\ Goto(b, "lost") /\ faults' = faults + 1
  /\ UNCHANGED <<parent, count, order, launch, results, locker, messages, disturbed>>

(* Mutant: the lock has no timeout. *)
LockStays == FALSE /\ UNCHANGED vars

(* The lock runs out: its holder is dead, or took more than 180 seconds. *)
LockExpires ==
  /\ locker # 0
  /\ \/ batch[locker].pc \in Ended /\ UNCHANGED <<faults, disturbed>>
     \/ /\ batch[locker].pc \in Pushed
        /\ faults < MaxFaults /\ faults' = faults + 1
        /\ disturbed' = (disturbed \/ batch[locker].pc \in Guarded)
  /\ locker' = 0
  /\ UNCHANGED <<parent, count, order, launch, batch, results, messages>>

(* A day without a push. *)
ListExpires ==
  /\ results # <<>> /\ faults < MaxFaults
  /\ results' = <<>> /\ faults' = faults + 1
  /\ disturbed' = (disturbed \/ Taking)
  /\ UNCHANGED <<parent, count, order, launch, batch, locker, messages>>

-----------------------------------------------------------------------------

(* What the worker does for a batch. *)
Work(b) ==
  \/ Start(b) \/ Push(b) \/ Measure(b) \/ Trim(b) \/ Acquire(b) \/ Look(b) \/ Check(b) \/ Take(b)
  \/ Drop(b) \/ Publish(b) \/ Release(b)
  \/ \E o \in {"accepted", "rejected"} : View(b, o)

Next ==
  \/ Sort \/ SendFails \/ LockExpires \/ ListExpires
  \/ \E n \in 0..MaxBatches : Split(n)
  \/ \E b \in Batch : Send(b) \/ Work(b) \/ Crash(b)

Spec == Init /\ [][Next]_vars

(* The request loops to its end, worker threads run, and Redis lets the    *)
(* locks of the dead run out; every batch takes the lock once.             *)
FairSpec ==
  /\ Spec
  /\ WF_vars(Sort) /\ WF_vars(LockExpires)
  /\ \A b \in 1..MaxBatches :
       WF_vars(b \in Batch /\ Send(b)) /\ WF_vars(b \in Batch /\ Work(b))

-----------------------------------------------------------------------------
(* Properties *)

(* A row of a self-referring model comes after the row it refers to, every *)
(* row is imported once, and an import is refused only if the rows refer   *)
(* to each other in a circle.                                              *)
ParentsComeFirst ==
  /\ order # <<>> =>
       /\ ToSet(order) = Item /\ Len(order) = Cardinality(Item)
       /\ \A i, j \in DOMAIN order : parent[order[i]] = order[j] => j < i
  /\ launch = "refused" => \E S \in SUBSET Item \ {{}} : \A i \in S : parent[i] \in S

(* A task has an answer once the view has returned, and stop tells that it *)
(* has pushed its result.                                                  *)
SoundTask(t) ==
  /\ t.pc \in {"unsent", "queued", "view"} => t.outcome = "pending"
  /\ t.pc \in {"unsent", "queued", "view", "push"} => t.stop = 0
  /\ t.pc \in {"push", "size", "trim", "done", "broken"} \cup Pushed => t.outcome # "pending"
  /\ t.stop # 0 => t.outcome # "pending"
  /\ t.pc = "trim" => t.stop > MaxSize
  /\ t.pc \in {"size", "trim", "done", "broken"} \cup Pushed => t.stop # 0

SoundTasks == \A b \in Batch : SoundTask(batch[b])

(* The list has at most one result of a task, which is true.               *)
TrueResult(r) ==
  /\ r.index \in Batch /\ batch[r.index].stop # 0
  /\ r.status <=> batch[r.index].outcome = "accepted"

Distinct(s) == \A i, j \in 1..Len(s) : s[i].index = s[j].index => i = j

SoundResults ==
  Distinct(results) /\ \A i \in 1..Len(results) : TrueResult(results[i])

(* Every task has pushed its result, whatever became of the list. *)
AllPushed == count # 0 /\ \A b \in Batch : batch[b].stop # 0

Complete(s) ==
  /\ \A r \in s : TrueResult(r)
  /\ \A b \in Batch : \E r \in s : r.index = b

(* Who has seen as many results as there are batches, or sent a message,   *)
(* comes after all of them, and what was read is true.                     *)
Final(b) == batch[b].pc \in {"take", "drop", "publish"}

SoundFinal ==
  /\ \A b \in Batch : Final(b) => AllPushed
  /\ messages # <<>> => AllPushed
  /\ \A b \in Batch : \A r \in batch[b].taken : TrueResult(r)

(* What the lock is for: unless it ran out on a task that was at the list, *)
(* or the list changed under one, one task is at the list at a time; one   *)
(* task reads the results, those of all; and there is one message.         *)
OneFinal ==
  ~disturbed =>
    /\ \A b \in Batch : batch[b].pc \in Guarded => locker = b
    /\ \A b, c \in Batch : Final(b) /\ Final(c) => b = c
    /\ \A b \in Batch : Final(b) => messages = <<>>
    /\ \A b \in Batch : batch[b].pc = "take" => Complete(ToSet(results))
    /\ \A b \in Batch : batch[b].pc \in {"drop", "publish"} => Complete(batch[b].taken)
    /\ messages # <<>> \/ (\E b \in Batch : batch[b].pc = "publish") => results = <<>>

Launched ==
  /\ launch \in {"sort", "refused"} => count = 0
  /\ launch = "sort" => order = <<>>

(* The types, the order of the rows, and what tasks, list, lock and        *)
(* messages say of each other.                                             *)
BatchJobsInv ==
  /\ TypeOK /\ ParentsComeFirst
  /\ SoundTasks /\ SoundResults /\ SoundFinal /\ OneFinal /\ Launched

(* The batches of one import, as the user sees them. *)
Outcome ==
  [b \in Batch |-> IF batch[b].pc = "lost" /\ batch[b].outcome = "pending" THEN "lost"
                   ELSE batch[b].outcome]

Report == INSTANCE JobReport WITH outcome <- Outcome

(* However the batches overlap, fail, die with the lock or without it: a   *)
(* message comes after all batches, a failure is one, and there is one     *)
(* message, true of all answers, unless a task was disturbed at the list   *)
(* (background_task_view_set_job).                                         *)
OneTrueReport == Report!Spec

(* The rows were none. *)
NothingSent == launch = "sent" /\ count = 0

(* An import is answered by a message unless something broke, there was    *)
(* nothing to import, or it has more batches than the list keeps.          *)
EveryImportIsReported ==
  launch = "sort" ~> \/ launch = "refused" \/ messages # <<>>
                     \/ faults > 0 \/ count > MaxSize \/ NothingSent

(* No batch waits for ever, also when the holder of the lock died. *)
EveryBatchEnds == \A b \in 1..MaxBatches :
  (b \in Batch /\ batch[b].pc # "unsent") ~> (b \in Batch /\ batch[b].pc \in Ended)
=============================================================================
