------------------------------ MODULE SyncJobs ------------------------------
(***************************************************************************)
(* The Celery task virt_center.sync_all_platform_data: it publishes a      *)
(* group of subtasks, waits for their results in the thread it runs on,    *)
(* and announces the end.  The worker runs a fixed number of threads, and  *)
(* jobs and subtasks share them and their queue, so jobs that wait can     *)
(* keep the subtasks they wait for from running.                           *)
(*                                                                         *)
(* All jobs are for one platform: jobs for other platforms would only      *)
(* compete for the threads, as these do.  A subtask's own work is          *)
(* modelled in HostSync and its neighbours; here it returns or raises.     *)
(***************************************************************************)
EXTENDS Naturals, Sequences, FiniteSets

CONSTANTS
  Job,          \* full synchronisations that can exist at a time
  NSub,         \* number of subtasks of the group (five in the code)
  Threads,      \* CELERY_WORKER_COUNT
  MaxRetries,   \* max_retries of the subtasks
  MaxMoves,     \* bound: changes of the platform
  MaxFaults     \* bound: subtask attempts that raise, broker errors, crashes

ASSUME BoundAssumption ==
  /\ NSub \in Nat \ {0} /\ Threads \in Nat \ {0}
  /\ MaxRetries \in Nat /\ MaxMoves \in Nat /\ MaxFaults \in Nat

VARIABLES
  platform,     \* "enabled", "disabled" or "deleted"
  job,          \* job[j]: where the full synchronisation is
  sub,          \* sub[j][k]: subtask k of job j
  queue,        \* messages ready for a thread, oldest first; <<j, 0>> is job j
  announced,    \* announced[j]: signals sent for job j since its request
  mayJoin,      \* the kind of pool: whether a task may wait for another
  moves, faults

vars == <<platform, job, sub, queue, announced, mayJoin, moves, faults>>

-----------------------------------------------------------------------------
(* Types *)

Sub == 1..NSub

JobEnded == {"completed", "failed", "refused", "lost"}

SubEnded == {"none", "returned", "refused", "failed", "lost"}

SubState ==
  [pc : SubEnded \cup {"queued", "running", "backoff"}, retries : 0..MaxRetries]

TypeOK ==
  /\ platform \in {"enabled", "disabled", "deleted"}
  /\ job \in [Job -> JobEnded \cup {"idle", "queued", "joining"}]
  /\ sub \in [Job -> [Sub -> SubState]]
  /\ queue \in Seq(Job \X (0..NSub))
  /\ announced \in [Job -> SUBSET {"completed", "failed"}]
  /\ mayJoin \in BOOLEAN
  /\ moves \in 0..MaxMoves
  /\ faults \in 0..MaxFaults

-----------------------------------------------------------------------------
(* Helpers *)

RunningSubs == {m \in Job \X Sub : sub[m[1]][m[2]].pc = "running"}

JoiningJobs == {j \in Job : job[j] = "joining"}

ThreadFree == Cardinality(RunningSubs) + Cardinality(JoiningJobs) < Threads

(* A thread takes message m off the queue. *)
Takes(m) ==
  /\ ThreadFree
  /\ queue # <<>>
  /\ Head(queue) = m
  /\ queue' = Tail(queue)

Fault == faults < MaxFaults /\ faults' = faults + 1

Published(j, n) ==
  [k \in Sub |-> [pc |-> IF k <= n THEN "queued" ELSE "none", retries |-> 0]]

AllReturned(j) == \A k \in Sub : sub[j][k].pc \in {"returned", "refused"}

AnyRaised(j) == \E k \in Sub : sub[j][k].pc = "failed"

(* Mutant: both signals are sent, the second because of an error in the    *)
(* receiver of the first, or for want of a return.                         *)
EndsWithBoth(j) ==
  /\ job' = [job EXCEPT ![j] = "completed"]
  /\ announced' = [announced EXCEPT ![j] = {"completed", "failed"}]

(* The results are in: platform_sync_completed, whose receiver swallows    *)
(* its own errors.                                                         *)
EndsWell(j) ==
  /\ job' = [job EXCEPT ![j] = "completed"]
  /\ announced' = [announced EXCEPT ![j] = @ \cup {"completed"}]

(* The except branch: platform_sync_failed, if the platform still exists. *)
EndsBadly(j) ==
  /\ job' = [job EXCEPT ![j] = "failed"]
  /\ announced' = [announced EXCEPT ![j] =
                     IF platform = "deleted" THEN @ ELSE @ \cup {"failed"}]

-----------------------------------------------------------------------------
(* The full synchronisation *)

(* sync_all_platform_data.delay(platform_id), from either sync button. *)
Request(j) ==
  /\ job[j] \in JobEnded \cup {"idle"}
  /\ \A k \in Sub : sub[j][k].pc \in SubEnded
  /\ platform # "deleted"
  /\ job' = [job EXCEPT ![j] = "queued"]
  /\ sub' = [sub EXCEPT ![j] = Published(j, 0)]
  /\ queue' = Append(queue, <<j, 0>>)
  /\ announced' = [announced EXCEPT ![j] = {}]
  /\ UNCHANGED <<platform, mayJoin, moves, faults>>

(* Platform.objects.get(id=..., is_active=True) misses. *)
Refuse(j) ==
  /\ Takes(<<j, 0>>)
  /\ platform # "enabled"
  /\ job' = [job EXCEPT ![j] = "refused"]
  /\ UNCHANGED <<platform, sub, announced, mayJoin, moves, faults>>

(* Mutant: the publication is retried after it had gone through. *)
LaunchTwice(j) ==
  /\ ThreadFree
  /\ queue # <<>> /\ Head(queue) = <<j, 0>>
  /\ platform = "enabled"
  /\ queue' = Tail(queue) \o [k \in Sub |-> <<j, k>>] \o [k \in Sub |-> <<j, k>>]
  /\ sub' = [sub EXCEPT ![j] = Published(j, NSub)]
  /\ job' = [job EXCEPT ![j] = "joining"]
  /\ UNCHANGED <<platform, announced, mayJoin, moves, faults>>

(* job.apply_async() *)
Launch(j) ==
  /\ ThreadFree
  /\ queue # <<>> /\ Head(queue) = <<j, 0>>
  /\ platform = "enabled"
  /\ queue' = Tail(queue) \o [k \in Sub |-> <<j, k>>]
  /\ sub' = [sub EXCEPT ![j] = Published(j, NSub)]
  /\ job' = [job EXCEPT ![j] = "joining"]
  /\ UNCHANGED <<platform, announced, mayJoin, moves, faults>>

(* The broker fails after n subtasks were published. *)
LaunchFails(j) ==
  /\ ThreadFree
  /\ queue # <<>> /\ Head(queue) = <<j, 0>>
  /\ platform = "enabled"
  /\ Fault
  /\ \E n \in 0..(NSub - 1) :
       /\ queue' = Tail(queue) \o [k \in 1..n |-> <<j, k>>]
       /\ sub' = [sub EXCEPT ![j] = Published(j, n)]
  /\ EndsBadly(j)
  /\ UNCHANGED <<platform, mayJoin, moves>>

(* result.get() returns. *)
Collect(j) ==
  /\ mayJoin
  /\ job[j] = "joining"
  /\ AllReturned(j)
  /\ EndsWell(j)
  /\ UNCHANGED <<platform, sub, queue, mayJoin, moves, faults>>

(* result.get() raises what a subtask raised. *)
CollectRaises(j) ==
  /\ mayJoin
  /\ job[j] = "joining"
  /\ AnyRaised(j)
  /\ EndsBadly(j)
  /\ UNCHANGED <<platform, sub, queue, mayJoin, moves, faults>>

(* Mutant: the thread waits on, without a timeout. *)
WaitsOn(j) == job[j] = "joining" /\ UNCHANGED vars

(* result.get(timeout=600) gives up; the subtasks are not revoked. *)
TimesOut(j) ==
  /\ mayJoin
  /\ job[j] = "joining"
  /\ ~AllReturned(j)
  /\ EndsBadly(j)
  /\ UNCHANGED <<platform, sub, queue, mayJoin, moves, faults>>

(* The pool forbids waiting inside a task: get() raises at once. *)
JoinRefused(j) ==
  /\ ~mayJoin
  /\ job[j] = "joining"
  /\ EndsBadly(j)
  /\ UNCHANGED <<platform, sub, queue, mayJoin, moves, faults>>

-----------------------------------------------------------------------------
(* The subtasks *)

(* A subtask looks the platform up again. *)
StartSub(j, k) ==
  /\ Takes(<<j, k>>)
  /\ sub' = [sub EXCEPT ![j][k].pc = IF platform = "enabled" THEN "running" ELSE "refused"]
  /\ UNCHANGED <<platform, job, announced, mayJoin, moves, faults>>

SubReturns(j, k) ==
  /\ sub[j][k].pc = "running"
  /\ sub' = [sub EXCEPT ![j][k].pc = "returned"]
  /\ UNCHANGED <<platform, job, queue, announced, mayJoin, moves, faults>>

(* Mutant: every attempt starts counting anew. *)
SubRaisesForever(j, k) ==
  /\ sub[j][k].pc = "running"
  /\ sub' = [sub EXCEPT ![j][k] = [pc |-> "backoff", retries |-> 0]]
  /\ UNCHANGED <<platform, job, queue, announced, mayJoin, moves, faults>>

(* raise self.retry(exc): the thread is free during the delay. *)
SubRaises(j, k) ==
  /\ sub[j][k].pc = "running"
  /\ Fault
  /\ sub' = [sub EXCEPT ![j][k].pc =
               IF sub[j][k].retries < MaxRetries THEN "backoff" ELSE "failed"]
  /\ UNCHANGED <<platform, job, queue, announced, mayJoin, moves>>

SubDue(j, k) ==
  /\ sub[j][k].pc = "backoff"
  /\ sub' = [sub EXCEPT ![j][k].pc = "queued", ![j][k].retries = @ + 1]
  /\ queue' = Append(queue, <<j, k>>)
  /\ UNCHANGED <<platform, job, announced, mayJoin, moves, faults>>

-----------------------------------------------------------------------------
(* The environment *)

(* The worker process dies and is started again: what its threads held is  *)
(* lost, as messages are acknowledged on receipt; the queue is the         *)
(* broker's.                                                               *)
Crash ==
  /\ Fault
  /\ job' = [j \in Job |-> IF job[j] = "joining" THEN "lost" ELSE job[j]]
  /\ sub' = [j \in Job |-> [k \in Sub |->
               IF sub[j][k].pc = "running" THEN [sub[j][k] EXCEPT !.pc = "lost"]
                                           ELSE sub[j][k]]]
  /\ UNCHANGED <<platform, queue, announced, mayJoin, moves>>

PlatformChanges ==
  /\ moves < MaxMoves
  /\ moves' = moves + 1
  /\ platform # "deleted"
  /\ platform' \in {"enabled", "disabled", "deleted"} \ {platform}
  /\ UNCHANGED <<job, sub, queue, announced, mayJoin, faults>>

-----------------------------------------------------------------------------
Init ==
  /\ platform = "enabled"
  /\ job = [j \in Job |-> "idle"]
  /\ sub = [j \in Job |-> Published(j, 0)]
  /\ queue = <<>>
  /\ announced = [j \in Job |-> {}]
  /\ mayJoin \in BOOLEAN
  /\ moves = 0
  /\ faults = 0

(* A free thread takes the oldest message. *)
Dispatch ==
  \E j \in Job : Refuse(j) \/ Launch(j) \/ \E k \in Sub : StartSub(j, k)

JobStep(j) == Collect(j) \/ CollectRaises(j) \/ TimesOut(j) \/ JoinRefused(j)

SubStep(j, k) == SubReturns(j, k) \/ SubRaises(j, k) \/ SubDue(j, k)

Next ==
  \/ Dispatch
  \/ \E j \in Job : Request(j) \/ LaunchFails(j) \/ JobStep(j)
  \/ \E j \in Job, k \in Sub : SubStep(j, k)
  \/ Crash
  \/ PlatformChanges

Spec == Init /\ [][Next]_vars

(* Threads take what is queued and run what they took, get() watches its   *)
(* clock, and Celery delivers a retry when it is due.                      *)
FairSpec ==
  /\ Spec
  /\ WF_vars(Dispatch)
  /\ \A j \in Job : WF_vars(JobStep(j))
  /\ \A j \in Job, k \in Sub : WF_vars(SubStep(j, k))

-----------------------------------------------------------------------------
(* Properties *)

(* The promise of SyncOutcome, seen from here.  A refused or lost job is   *)
(* over without an announcement.                                           *)
Outcome ==
  INSTANCE SyncOutcome WITH
    stage <- [j \in Job |-> IF job[j] = "idle" THEN "idle"
                            ELSE IF job[j] \in JobEnded THEN "over" ELSE "pending"]

(* A full synchronisation announces its end at most once, and never a      *)
(* success and a failure for the same request.                             *)
AnnouncesOnce == Outcome!Spec

(* Every request is answered, although the jobs can occupy all the threads *)
(* their subtasks need: the timeout is what breaks the tie.                *)
EveryJobIsAnswered == Outcome!Answered

(* Success is announced only after every subtask has returned: none is     *)
(* still running, waiting or lost, and none has raised.                    *)
CompletedMeansAllReturned ==
  \A j \in Job : "completed" \in announced[j] => AllReturned(j)

(* A subtask that was published comes to an end even after its job gave    *)
(* up, so its thread and its place in the queue are given back.            *)
EverySubtaskEnds ==
  \A j \in Job, k \in Sub : sub[j][k].pc \notin SubEnded ~> sub[j][k].pc \in SubEnded

(* No message is lost or duplicated between the broker and the threads: a  *)
(* job or subtask that waits for a thread is in the queue exactly once.    *)
QueueHoldsWhatWaits ==
  /\ \A m, n \in 1..Len(queue) : queue[m] = queue[n] => m = n
  /\ \A j \in Job :
       /\ job[j] = "queued" <=> \E m \in 1..Len(queue) : queue[m] = <<j, 0>>
       /\ \A k \in Sub :
            sub[j][k].pc = "queued" <=> \E m \in 1..Len(queue) : queue[m] = <<j, k>>

RetriesLeft ==
  \A j \in Job, k \in Sub : sub[j][k].pc = "backoff" => sub[j][k].retries < MaxRetries

(* A job that waits for a thread has no subtask yet. *)
LaunchedOnce == \A j \in Job : job[j] = "queued" => \A k \in Sub : sub[j][k].pc = "none"

(* What is announced was announced at the end of the job. *)
AnnouncedAtTheEnd == \A j \in Job : job[j] \notin JobEnded => announced[j] = {}

(* The inductive invariant: the types, the two facts about announcements   *)
(* and the queue, and what they rest on.                                   *)
SyncJobsInv ==
  /\ TypeOK
  /\ RetriesLeft
  /\ LaunchedOnce
  /\ AnnouncedAtTheEnd
  /\ CompletedMeansAllReturned
  /\ QueueHoldsWhatWaits
=============================================================================
