--------------------------- MODULE SyncJobs_proofs ---------------------------
(***************************************************************************)
(* Machine-checked proofs about SyncJobs, for any number of jobs, subtasks *)
(* and threads: its invariant, and that it implements SyncOutcome.  In the *)
(* second half, about SettingsSync.                                        *)
(***************************************************************************)
EXTENDS SyncJobs, SequenceTheorems, TLAPS

-----------------------------------------------------------------------------
(* Queues *)

Distinct(q) == \A m, n \in 1..Len(q) : q[m] = q[n] => m = n

Holds(q, x) == \E m \in 1..Len(q) : q[m] = x

Message == Job \X (0..NSub)

LEMMA MessageType ==
  ASSUME NEW j \in Job
  PROVE  /\ <<j, 0>> \in Message
         /\ \A k \in Sub : <<j, k>> \in Message
         /\ \A i \in Job, k, l \in 0..NSub : <<j, k>> = <<i, l>> <=> j = i /\ k = l
         /\ \A k \in Sub : k \in 0..NSub /\ k # 0
BY BoundAssumption DEF Message, Sub

(* Taking the head of a queue without duplicates removes that message only. *)
LEMMA TailHolds ==
  ASSUME NEW q \in Seq(Message), q # <<>>, Distinct(q)
  PROVE  /\ Tail(q) \in Seq(Message)
         /\ Distinct(Tail(q))
         /\ \A x : Holds(Tail(q), x) <=> Holds(q, x) /\ x # Head(q)
         /\ Holds(q, Head(q))
<1>1. /\ Len(q) \in Nat /\ Len(q) > 0 /\ Tail(q) \in Seq(Message) /\ Len(Tail(q)) = Len(q) - 1
      /\ \A m \in 1..(Len(q) - 1) : Tail(q)[m] = q[m + 1]
      /\ Head(q) = q[1]
  OBVIOUS
<1>2. Distinct(Tail(q))
  BY <1>1 DEF Distinct
<1>3. ASSUME NEW x PROVE Holds(Tail(q), x) <=> Holds(q, x) /\ x # Head(q)
  <2>1. ASSUME Holds(Tail(q), x) PROVE Holds(q, x) /\ x # Head(q)
    <3>1. PICK m \in 1..(Len(q) - 1) : q[m + 1] = x
      BY <1>1, <2>1 DEF Holds
    <3> QED
      BY <1>1, <3>1 DEF Holds, Distinct
  <2>2. ASSUME Holds(q, x), x # Head(q) PROVE Holds(Tail(q), x)
    <3>1. PICK m \in 1..Len(q) : q[m] = x
      BY <2>2 DEF Holds
    <3>2. m - 1 \in 1..Len(Tail(q)) /\ Tail(q)[m - 1] = x
      BY <1>1, <2>2, <3>1
    <3> QED
      BY <3>2 DEF Holds
  <2> QED
    BY <2>1, <2>2
<1> QED
  BY <1>1, <1>2, <1>3 DEF Holds

LEMMA AppendHolds ==
  ASSUME NEW q \in Seq(Message), NEW y \in Message, Distinct(q), ~Holds(q, y)
  PROVE  /\ Append(q, y) \in Seq(Message)
         /\ Distinct(Append(q, y))
         /\ \A x : Holds(Append(q, y), x) <=> Holds(q, x) \/ x = y
<1>1. /\ Len(q) \in Nat /\ Append(q, y) \in Seq(Message) /\ Len(Append(q, y)) = Len(q) + 1
      /\ \A m \in 1..Len(q) : Append(q, y)[m] = q[m]
      /\ Append(q, y)[Len(q) + 1] = y
  OBVIOUS
<1> DEFINE r == Append(q, y)
<1>2. r = Append(q, y)
  OBVIOUS
<1> HIDE DEF r
<1>3. \A m \in 1..Len(r) : m \in 1..Len(q) \/ m = Len(q) + 1
  BY <1>1, <1>2
<1>4. Distinct(r)
  BY <1>1, <1>2, <1>3 DEF Distinct, Holds
<1>5. \A x : Holds(r, x) <=> Holds(q, x) \/ x = y
  BY <1>1, <1>2, <1>3 DEF Holds
<1> QED
  BY <1>1, <1>2, <1>4, <1>5

(* r is q and then the messages of the first n subtasks of job j. *)
Extends(r, q, j, n) ==
  /\ r \in Seq(Message)
  /\ Len(r) = Len(q) + n
  /\ \A m \in 1..Len(q) : r[m] = q[m]
  /\ \A k \in 1..n : r[Len(q) + k] = <<j, k>>

LEMMA Publishes ==
  ASSUME NEW q \in Seq(Message), NEW j \in Job, NEW n \in 0..NSub
  PROVE  Extends(q \o [k \in 1..n |-> <<j, k>>], q, j, n)
<1> DEFINE p == [k \in 1..n |-> <<j, k>>]
           r == q \o p
<1>0. n \in Nat /\ 1..n \subseteq Sub /\ Len(q) \in Nat
  BY BoundAssumption DEF Sub
<1>1. p \in Seq(Message) /\ Len(p) = n /\ \A k \in 1..n : p[k] = <<j, k>>
  <2>1. p \in [1..n -> Message]
    BY <1>0, MessageType
  <2> QED
    BY <1>0, <2>1
<1> HIDE DEF p
<1>2. r \in Seq(Message) /\ Len(r) = Len(q) + n
  BY <1>1, ConcatProperties
<1>3. \A m \in 1..(Len(q) + n) : r[m] = IF m <= Len(q) THEN q[m] ELSE p[m - Len(q)]
  BY <1>1, ConcatProperties
<1> HIDE DEF r
<1>4. \A m \in 1..Len(q) : r[m] = q[m]
  BY <1>0, <1>3
<1>5. ASSUME NEW k \in 1..n PROVE r[Len(q) + k] = <<j, k>>
  <2>1. Len(q) + k \in 1..(Len(q) + n) /\ ~(Len(q) + k <= Len(q)) /\ (Len(q) + k) - Len(q) = k
    BY <1>0
  <2> QED
    BY <1>1, <1>3, <2>1
<1> QED
  BY <1>2, <1>4, <1>5 DEF r, p, Extends

Firsts(j, n) == {<<j, k>> : k \in 1..n}

(* If none of them was queued, the queue has no duplicates afterwards. *)
LEMMA PublishHolds ==
  ASSUME NEW q \in Seq(Message), NEW j \in Job, NEW n \in 0..NSub, Distinct(q),
         \A k \in Sub : ~Holds(q, <<j, k>>),
         NEW r, Extends(r, q, j, n)
  PROVE  /\ Distinct(r)
         /\ \A x : Holds(r, x) <=> Holds(q, x) \/ x \in Firsts(j, n)
<1>0. n \in Nat /\ 1..n \subseteq Sub /\ Len(q) \in Nat
  BY BoundAssumption DEF Sub
<1> USE DEF Extends, Firsts
<1>3. ASSUME NEW m \in 1..Len(r)
      PROVE  \/ m \in 1..Len(q) /\ r[m] = q[m]
             \/ m - Len(q) \in 1..n /\ r[m] = <<j, m - Len(q)>>
  <2>1. m \in 1..Len(q) \/ (m - Len(q) \in 1..n /\ Len(q) + (m - Len(q)) = m)
    BY <1>0
  <2> QED
    BY <2>1
<1>4. ASSUME NEW k \in 1..n PROVE Len(q) + k \in 1..Len(r)
  BY <1>0
<1>5. Distinct(r)
  <2> SUFFICES ASSUME NEW m \in 1..Len(r), NEW o \in 1..Len(r), r[m] = r[o] PROVE m = o
    BY DEF Distinct
  <2>1. CASE m \in 1..Len(q) /\ r[m] = q[m]
    <3>1. o \in 1..Len(q) /\ r[o] = q[o]
      <4>1. ASSUME o - Len(q) \in 1..n, r[o] = <<j, o - Len(q)>> PROVE FALSE
        BY <1>0, <2>1, <4>1 DEF Holds
      <4> QED
        BY <1>3, <4>1
    <3> QED
      BY <2>1, <3>1 DEF Distinct
  <2>2. CASE m - Len(q) \in 1..n /\ r[m] = <<j, m - Len(q)>>
    <3>1. ~(o \in 1..Len(q) /\ r[o] = q[o])
      BY <1>0, <2>2 DEF Holds
    <3>2. r[o] = <<j, o - Len(q)>>
      BY <1>3, <3>1
    <3>3. m - Len(q) = o - Len(q)
      <4>1. \A a, b : <<j, a>> = <<j, b>> => a = b
        OBVIOUS
      <4> QED
        BY <2>2, <3>2, <4>1
    <3>4. m \in Nat /\ o \in Nat
      BY <1>0
    <3> QED
      BY <1>0, <3>3, <3>4
  <2> QED
    BY <1>3, <2>1, <2>2
<1>6. ASSUME NEW x PROVE Holds(r, x) <=> Holds(q, x) \/ x \in Firsts(j, n)
  <2>1. Holds(r, x) => Holds(q, x) \/ x \in Firsts(j, n)
    BY <1>3 DEF Holds
  <2>2. Holds(q, x) => Holds(r, x)
    BY <1>0 DEF Holds
  <2>3. x \in Firsts(j, n) => Holds(r, x)
    BY <1>4 DEF Holds
  <2> QED
    BY <2>1, <2>2, <2>3
<1> QED
  BY <1>5, <1>6

-----------------------------------------------------------------------------
(* The steps *)

(* The invariant about the queue, in the words of the lemmas above. *)
LEMMA QueueFacts ==
  QueueHoldsWhatWaits <=>
    /\ Distinct(queue)
    /\ \A j \in Job :
         /\ job[j] = "queued" <=> Holds(queue, <<j, 0>>)
         /\ \A k \in Sub : sub[j][k].pc = "queued" <=> Holds(queue, <<j, k>>)
BY DEF QueueHoldsWhatWaits, Distinct, Holds

LEMMA QueueFactsPrime ==
  QueueHoldsWhatWaits' <=>
    /\ Distinct(queue')
    /\ \A j \in Job :
         /\ job'[j] = "queued" <=> Holds(queue', <<j, 0>>)
         /\ \A k \in Sub : sub'[j][k].pc = "queued" <=> Holds(queue', <<j, k>>)
BY DEF QueueHoldsWhatWaits, Distinct, Holds

LEMMA PublishedType ==
  ASSUME NEW j, NEW n \in Nat
  PROVE  /\ Published(j, n) \in [Sub -> SubState]
         /\ \A k \in Sub : Published(j, n)[k].pc = IF k <= n THEN "queued" ELSE "none"
         /\ \A k \in Sub : Published(j, 0)[k].pc = "none"
BY BoundAssumption DEF Published, SubState, SubEnded, Sub

(* What a step does to subtask k of job j alone. *)
LEMMA SubStepInv ==
  ASSUME SyncJobsInv, NEW j \in Job, NEW k \in Sub, NEW st \in SubState,
         sub[j][k].pc \in {"queued", "running", "backoff"},
         sub' = [sub EXCEPT ![j][k] = st],
         st.pc = "backoff" => st.retries < MaxRetries,
         UNCHANGED <<platform, job, announced, mayJoin, moves>>, faults' \in 0..MaxFaults,
         queue' \in Seq(Message), Distinct(queue'),
         \A i \in Job : Holds(queue', <<i, 0>>) <=> Holds(queue, <<i, 0>>),
         \A i \in Job, l \in Sub : ~(i = j /\ l = k) =>
           (Holds(queue', <<i, l>>) <=> Holds(queue, <<i, l>>)),
         Holds(queue', <<j, k>>) <=> st.pc = "queued"
  PROVE  SyncJobsInv'
<1> USE DEF SyncJobsInv
<1>1. /\ sub' \in [Job -> [Sub -> SubState]]
      /\ \A i \in Job, l \in Sub : sub'[i][l] = IF i = j /\ l = k THEN st ELSE sub[i][l]
  BY DEF TypeOK
<1>2. TypeOK'
  BY <1>1 DEF TypeOK, Message
<1>3. RetriesLeft'
  BY <1>1 DEF RetriesLeft
<1>4. LaunchedOnce'
  BY <1>1 DEF LaunchedOnce
<1>5. AnnouncedAtTheEnd'
  BY DEF AnnouncedAtTheEnd
<1>6. CompletedMeansAllReturned'
  BY <1>1 DEF CompletedMeansAllReturned, AllReturned
<1>7. QueueHoldsWhatWaits'
  BY <1>1, QueueFacts, QueueFactsPrime
<1> QED
  BY <1>2, <1>3, <1>4, <1>5, <1>6, <1>7

(* The end of job j: what it announces, and that no message of it is left. *)
LEMMA JobEndInv ==
  ASSUME SyncJobsInv, NEW j \in Job, NEW e \in JobEnded, NEW news,
         job' = [job EXCEPT ![j] = e], announced' = [announced EXCEPT ![j] = news],
         news \subseteq {"completed", "failed"}, "completed" \in news => AllReturned(j),
         UNCHANGED <<platform, sub, mayJoin, moves, faults>>,
         queue' \in Seq(Message), Distinct(queue'),
         \A x : Holds(queue', x) <=> Holds(queue, x) /\ x # <<j, 0>>
  PROVE  SyncJobsInv'
<1> USE DEF SyncJobsInv
<1>1. /\ \A i \in Job : job'[i] = IF i = j THEN e ELSE job[i]
      /\ \A i \in Job : announced'[i] = IF i = j THEN news ELSE announced[i]
  BY DEF TypeOK
<1>2. TypeOK'
  BY DEF TypeOK, Message
<1>3. e \notin {"queued", "joining", "idle"}
  BY DEF JobEnded
<1>4. RetriesLeft' /\ LaunchedOnce' /\ AnnouncedAtTheEnd'
  BY <1>1, <1>3 DEF RetriesLeft, LaunchedOnce, AnnouncedAtTheEnd
<1>5. CompletedMeansAllReturned'
  BY <1>1 DEF CompletedMeansAllReturned, AllReturned
<1>6. QueueHoldsWhatWaits'
  <2>1. \A i \in Job : i # j => <<i, 0>> # <<j, 0>>
    BY MessageType
  <2>2. \A i \in Job, k \in Sub : <<i, k>> # <<j, 0>>
    BY MessageType
  <2> QED
    BY <1>1, <1>3, <2>1, <2>2, QueueFacts, QueueFactsPrime
<1> QED
  BY <1>2, <1>4, <1>5, <1>6

LEMMA StepTypes ==
  ASSUME SyncJobsInv
  PROVE  /\ TypeOK /\ queue \in Seq(Message) /\ Distinct(queue)
         /\ \A j \in Job, k \in Sub : sub[j][k] \in SubState
         /\ \A j \in Job, k \in Sub, st \in SubState :
              st = sub[j][k] => st.pc \in SubEnded \cup {"queued", "running", "backoff"}
         /\ faults \in 0..MaxFaults
         /\ Fault => faults' \in 0..MaxFaults
<1>1. Fault => faults' \in 0..MaxFaults
  BY BoundAssumption DEF SyncJobsInv, TypeOK, Fault
<1> QED
  BY <1>1, QueueFacts DEF SyncJobsInv, TypeOK, Message, SubState

LEMMA StartSubInv ==
  ASSUME SyncJobsInv, NEW j \in Job, NEW k \in Sub, StartSub(j, k)
  PROVE  SyncJobsInv'
<1>0. /\ queue \in Seq(Message) /\ Distinct(queue) /\ sub[j][k] \in SubState
      /\ sub \in [Job -> [Sub -> SubState]] /\ faults \in 0..MaxFaults
  BY StepTypes DEF TypeOK
<1> DEFINE st == [sub[j][k] EXCEPT !.pc = IF platform = "enabled" THEN "running" ELSE "refused"]
<1>1. st \in SubState /\ st.pc \in {"running", "refused"}
  BY <1>0 DEF SubState, SubEnded
<1>2. sub' = [sub EXCEPT ![j][k] = st]
  BY <1>0 DEF StartSub
<1> HIDE DEF st
<1>3. /\ queue # <<>> /\ Head(queue) = <<j, k>> /\ queue' = Tail(queue)
      /\ UNCHANGED <<platform, job, announced, mayJoin, moves, faults>>
  BY DEF StartSub, Takes
<1>4. /\ queue' \in Seq(Message) /\ Distinct(queue') /\ Holds(queue, <<j, k>>)
      /\ \A x : Holds(queue', x) <=> Holds(queue, x) /\ x # <<j, k>>
  BY <1>0, <1>3, TailHolds
<1>5. /\ \A i \in Job : <<i, 0>> # <<j, k>>
      /\ \A i \in Job, l \in Sub : <<i, l>> = <<j, k>> => i = j /\ l = k
  BY MessageType
<1>6. sub[j][k].pc = "queued"
  BY <1>4, QueueFacts DEF SyncJobsInv
<1> QED
  BY <1>0, <1>1, <1>2, <1>3, <1>4, <1>5, <1>6, SubStepInv

LEMMA SubReturnsRaisesInv ==
  ASSUME SyncJobsInv, NEW j \in Job, NEW k \in Sub, SubReturns(j, k) \/ SubRaises(j, k)
  PROVE  SyncJobsInv'
<1>0. /\ queue \in Seq(Message) /\ Distinct(queue) /\ sub[j][k] \in SubState
      /\ sub \in [Job -> [Sub -> SubState]] /\ faults \in 0..MaxFaults
      /\ Fault => faults' \in 0..MaxFaults
  BY StepTypes DEF TypeOK
<1>1. /\ UNCHANGED <<platform, job, queue, announced, mayJoin, moves>>
      /\ sub[j][k].pc = "running" /\ faults' \in 0..MaxFaults
  BY <1>0 DEF SubReturns, SubRaises
<1>2. ~Holds(queue, <<j, k>>)
  BY <1>1, QueueFacts DEF SyncJobsInv
<1>3. queue' \in Seq(Message) /\ Distinct(queue') /\ \A x : Holds(queue', x) <=> Holds(queue, x)
  BY <1>0, <1>1 DEF Distinct, Holds
<1>4. PICK e \in {"returned", "backoff", "failed"} :
        /\ sub' = [sub EXCEPT ![j][k].pc = e]
        /\ e = "backoff" => sub[j][k].retries < MaxRetries
  BY DEF SubReturns, SubRaises
<1> DEFINE st == [sub[j][k] EXCEPT !.pc = e]
<1>5. st \in SubState /\ st.pc = e /\ st.retries = sub[j][k].retries
  BY <1>0 DEF SubState, SubEnded
<1>6. sub' = [sub EXCEPT ![j][k] = st]
  BY <1>0, <1>4
<1> HIDE DEF st
<1>7. /\ st.pc # "queued" /\ ~Holds(queue', <<j, k>>)
      /\ st.pc = "backoff" => st.retries < MaxRetries
  BY <1>2, <1>3, <1>4, <1>5
<1> QED
  BY <1>1, <1>3, <1>5, <1>6, <1>7, SubStepInv

LEMMA SubDueInv ==
  ASSUME SyncJobsInv, NEW j \in Job, NEW k \in Sub, SubDue(j, k)
  PROVE  SyncJobsInv'
<1>0. /\ queue \in Seq(Message) /\ Distinct(queue) /\ sub[j][k] \in SubState
      /\ sub \in [Job -> [Sub -> SubState]] /\ faults \in 0..MaxFaults
  BY StepTypes DEF TypeOK
<1>1. /\ UNCHANGED <<platform, job, announced, mayJoin, moves, faults>>
      /\ sub[j][k].pc = "backoff" /\ queue' = Append(queue, <<j, k>>)
  BY DEF SubDue
<1> DEFINE st == [sub[j][k] EXCEPT !.pc = "queued", !.retries = @ + 1]
<1>2. sub[j][k].retries + 1 \in 0..MaxRetries
  BY <1>0, <1>1, BoundAssumption DEF SyncJobsInv, RetriesLeft, SubState
<1>3. st \in SubState /\ st.pc = "queued"
  BY <1>0, <1>2 DEF SubState
<1>4. sub' = [sub EXCEPT ![j][k] = st]
  BY <1>0 DEF SubDue
<1> HIDE DEF st
<1>5. ~Holds(queue, <<j, k>>) /\ <<j, k>> \in Message
  BY <1>1, QueueFacts, MessageType DEF SyncJobsInv
<1>6. /\ queue' \in Seq(Message) /\ Distinct(queue')
      /\ \A x : Holds(queue', x) <=> Holds(queue, x) \/ x = <<j, k>>
  BY <1>0, <1>1, <1>5, AppendHolds
<1>7. /\ \A i \in Job : <<i, 0>> # <<j, k>>
      /\ \A i \in Job, l \in Sub : <<i, l>> = <<j, k>> => i = j /\ l = k
  BY MessageType
<1> QED
  BY <1>0, <1>1, <1>3, <1>4, <1>6, <1>7, SubStepInv

LEMMA JobStepInv ==
  ASSUME SyncJobsInv, NEW j \in Job, JobStep(j)
  PROVE  SyncJobsInv'
<1>0. /\ queue \in Seq(Message) /\ Distinct(queue)
      /\ announced[j] = {} /\ job[j] = "joining"
  BY StepTypes
  DEF JobStep, Collect, CollectRaises, TimesOut, JoinRefused, SyncJobsInv, AnnouncedAtTheEnd,
      JobEnded
<1>1. UNCHANGED <<platform, sub, queue, mayJoin, moves, faults>>
  BY DEF JobStep, Collect, CollectRaises, TimesOut, JoinRefused
<1>2. ~Holds(queue, <<j, 0>>)
  BY <1>0, QueueFacts DEF SyncJobsInv
<1>3. /\ queue' \in Seq(Message) /\ Distinct(queue')
      /\ \A x : Holds(queue', x) <=> Holds(queue, x) /\ x # <<j, 0>>
  BY <1>0, <1>1, <1>2 DEF Distinct, Holds
<1>4. PICK e \in JobEnded, news \in SUBSET {"completed", "failed"} :
        /\ job' = [job EXCEPT ![j] = e] /\ announced' = [announced EXCEPT ![j] = news]
        /\ "completed" \in news => AllReturned(j)
  <2>1. CASE Collect(j)
    <3>1. /\ job' = [job EXCEPT ![j] = "completed"]
          /\ announced' = [announced EXCEPT ![j] = {"completed"}]
          /\ AllReturned(j)
      BY <1>0, <2>1 DEF Collect, EndsWell
    <3> QED
      BY <3>1 DEF JobEnded
  <2>2. CASE EndsBadly(j)
    <3>1. /\ job' = [job EXCEPT ![j] = "failed"]
          /\ \/ announced' = [announced EXCEPT ![j] = {}]
             \/ announced' = [announced EXCEPT ![j] = {"failed"}]
      BY <1>0, <2>2 DEF EndsBadly
    <3> QED
      BY <3>1 DEF JobEnded
  <2> QED
    BY <2>1, <2>2 DEF JobStep, CollectRaises, TimesOut, JoinRefused
<1> QED
  BY <1>1, <1>3, <1>4, JobEndInv

LEMMA RefuseInv ==
  ASSUME SyncJobsInv, NEW j \in Job, Refuse(j)
  PROVE  SyncJobsInv' /\ job[j] = "queued"
<1>0. /\ queue \in Seq(Message) /\ Distinct(queue)
      /\ queue # <<>> /\ Head(queue) = <<j, 0>> /\ queue' = Tail(queue)
  BY StepTypes DEF Refuse, Takes
<1>1. /\ queue' \in Seq(Message) /\ Distinct(queue') /\ Holds(queue, <<j, 0>>)
      /\ \A x : Holds(queue', x) <=> Holds(queue, x) /\ x # <<j, 0>>
  BY <1>0, TailHolds
<1>2. job[j] = "queued"
  BY <1>1, QueueFacts DEF SyncJobsInv
<1>3. announced[j] = {}
  BY <1>2 DEF SyncJobsInv, AnnouncedAtTheEnd, JobEnded
<1>4. announced' = [announced EXCEPT ![j] = {}]
  BY <1>3 DEF Refuse, SyncJobsInv, TypeOK
<1> QED
  BY <1>1, <1>2, <1>4, JobEndInv DEF Refuse, JobEnded

(* Launch and LaunchFails publish the first n subtasks. *)
LEMMA PublishInv ==
  ASSUME SyncJobsInv, NEW j \in Job, NEW n \in 0..NSub,
         queue # <<>>, Head(queue) = <<j, 0>>,
         Extends(queue', Tail(queue), j, n),
         sub' = [sub EXCEPT ![j] = Published(j, n)],
         NEW e \in JobEnded \cup {"joining"}, NEW news \in SUBSET {"failed"},
         e = "joining" => news = {},
         job' = [job EXCEPT ![j] = e], announced' = [announced EXCEPT ![j] = news],
         UNCHANGED <<platform, mayJoin, moves>>, faults' \in 0..MaxFaults
  PROVE  SyncJobsInv' /\ job[j] = "queued"
<1> USE DEF SyncJobsInv
<1>0. queue \in Seq(Message) /\ Distinct(queue) /\ n \in Nat
  BY StepTypes, BoundAssumption
<1>1. /\ Tail(queue) \in Seq(Message) /\ Distinct(Tail(queue)) /\ Holds(queue, <<j, 0>>)
      /\ \A x : Holds(Tail(queue), x) <=> Holds(queue, x) /\ x # <<j, 0>>
  BY <1>0, TailHolds
<1>2. job[j] = "queued"
  BY <1>1, QueueFacts
<1>3. \A k \in Sub : sub[j][k].pc = "none"
  BY <1>2 DEF LaunchedOnce
<1>4. \A k \in Sub : ~Holds(Tail(queue), <<j, k>>)
  BY <1>1, <1>3, QueueFacts
<1>5. /\ queue' \in Seq(Message) /\ Distinct(queue')
      /\ \A x : Holds(queue', x) <=> Holds(Tail(queue), x) \/ x \in Firsts(j, n)
  BY <1>1, <1>4, PublishHolds DEF Extends
<1>6. /\ Published(j, n) \in [Sub -> SubState]
      /\ \A k \in Sub : Published(j, n)[k].pc = IF k <= n THEN "queued" ELSE "none"
  BY <1>0, PublishedType
<1>7. /\ \A i \in Job : job'[i] = IF i = j THEN e ELSE job[i]
      /\ \A i \in Job : announced'[i] = IF i = j THEN news ELSE announced[i]
      /\ \A i \in Job : sub'[i] = IF i = j THEN Published(j, n) ELSE sub[i]
      /\ sub' \in [Job -> [Sub -> SubState]]
  BY <1>6 DEF TypeOK
<1>8. TypeOK'
  BY <1>5, <1>7 DEF TypeOK, Message
<1>9. RetriesLeft' /\ LaunchedOnce' /\ AnnouncedAtTheEnd'
  <2>1. \A k \in Sub : Published(j, n)[k].pc # "backoff"
    BY <1>6
  <2>2. RetriesLeft'
    BY <1>7, <2>1 DEF RetriesLeft
  <2>3. e # "queued"
    BY DEF JobEnded
  <2>4. LaunchedOnce'
    BY <1>7, <2>3 DEF LaunchedOnce
  <2>5. AnnouncedAtTheEnd'
    BY <1>7 DEF AnnouncedAtTheEnd
  <2> QED
    BY <2>2, <2>4, <2>5
<1>10. CompletedMeansAllReturned'
  BY <1>7 DEF CompletedMeansAllReturned, AllReturned
<1>11. QueueHoldsWhatWaits'
  <2>1. /\ \A i \in Job, k, l \in 0..NSub : <<j, k>> = <<i, l>> <=> j = i /\ k = l
        /\ \A k \in Sub : k \in 0..NSub /\ k # 0
    BY MessageType
  <2>2. \A k \in 1..n : k \in Sub
    BY <1>0, BoundAssumption DEF Sub
  <2>3. ASSUME NEW i \in Job PROVE job'[i] = "queued" <=> Holds(queue', <<i, 0>>)
    <3>1. 0 \in 0..NSub /\ e # "queued"
      BY BoundAssumption DEF JobEnded
    <3>2. Holds(queue', <<i, 0>>) <=> Holds(queue, <<i, 0>>) /\ i # j
      BY <1>1, <1>5, <2>1, <2>2, <3>1 DEF Firsts
    <3> QED
      BY <1>7, <3>1, <3>2, QueueFacts
  <2>4. ASSUME NEW i \in Job, NEW k \in Sub
        PROVE  sub'[i][k].pc = "queued" <=> Holds(queue', <<i, k>>)
    <3>1. 0 \in 0..NSub /\ <<i, k>> # <<j, 0>>
      BY <2>1, BoundAssumption
    <3>2. Holds(queue', <<i, k>>) <=> Holds(queue, <<i, k>>) \/ (i = j /\ k \in 1..n)
      BY <1>1, <1>5, <2>1, <2>2, <3>1 DEF Firsts
    <3>3. CASE i = j
      <4>1. k \in 1..n <=> k <= n
        BY <1>0, BoundAssumption DEF Sub
      <4>2. ~Holds(queue, <<j, k>>)
        BY <1>3, QueueFacts
      <4> QED
        BY <1>6, <1>7, <3>2, <3>3, <4>1, <4>2
    <3>4. CASE i # j
      BY <1>7, <3>2, <3>4, QueueFacts
    <3> QED
      BY <3>3, <3>4
  <2> QED
    BY <1>5, <2>3, <2>4, QueueFactsPrime
<1> QED
  BY <1>2, <1>8, <1>9, <1>10, <1>11

LEMMA LaunchInv ==
  ASSUME SyncJobsInv, NEW j \in Job, Launch(j) \/ LaunchFails(j)
  PROVE  SyncJobsInv' /\ job[j] = "queued"
<1>0. /\ queue \in Seq(Message) /\ Distinct(queue) /\ TypeOK
      /\ queue # <<>> /\ Head(queue) = <<j, 0>>
      /\ UNCHANGED <<platform, mayJoin, moves>> /\ faults' \in 0..MaxFaults
  BY StepTypes DEF Launch, LaunchFails
<1>1. Tail(queue) \in Seq(Message) /\ Holds(queue, <<j, 0>>)
  BY <1>0, TailHolds
<1>2. announced[j] = {}
  BY <1>1, QueueFacts DEF SyncJobsInv, AnnouncedAtTheEnd, JobEnded
<1>3. CASE Launch(j)
  <2>1. NSub \in 0..NSub /\ Sub = 1..NSub
    BY BoundAssumption DEF Sub
  <2>2. queue' = Tail(queue) \o [k \in 1..NSub |-> <<j, k>>]
    BY <1>3, <2>1 DEF Launch
  <2>3. Extends(queue', Tail(queue), j, NSub)
    BY <1>1, <2>1, <2>2, Publishes
  <2>4. announced' = [announced EXCEPT ![j] = {}]
    BY <1>0, <1>2, <1>3 DEF Launch, TypeOK
  <2>5. job' = [job EXCEPT ![j] = "joining"] /\ sub' = [sub EXCEPT ![j] = Published(j, NSub)]
    BY <1>3 DEF Launch
  <2> QED
    BY <1>0, <2>1, <2>3, <2>4, <2>5, PublishInv
<1>4. CASE LaunchFails(j)
  <2>1. PICK n \in 0..(NSub - 1) :
          /\ queue' = Tail(queue) \o [k \in 1..n |-> <<j, k>>]
          /\ sub' = [sub EXCEPT ![j] = Published(j, n)]
    BY <1>4 DEF LaunchFails
  <2>2. n \in 0..NSub
    BY BoundAssumption
  <2>3. Extends(queue', Tail(queue), j, n)
    BY <1>1, <2>1, <2>2, Publishes
  <2>4. job' = [job EXCEPT ![j] = "failed"] /\ "failed" \in JobEnded
    BY <1>4 DEF LaunchFails, EndsBadly, JobEnded
  <2>5. PICK news \in SUBSET {"failed"} : announced' = [announced EXCEPT ![j] = news]
    <3>1. \/ announced' = [announced EXCEPT ![j] = {}]
          \/ announced' = [announced EXCEPT ![j] = {"failed"}]
      BY <1>0, <1>2, <1>4 DEF LaunchFails, EndsBadly, TypeOK
    <3> QED
      BY <3>1
  <2>6. "failed" # "joining"
    OBVIOUS
  <2> QED
    BY <1>0, <2>1, <2>2, <2>3, <2>4, <2>5, <2>6, PublishInv
<1> QED
  BY <1>3, <1>4

LEMMA RequestInv ==
  ASSUME SyncJobsInv, NEW j \in Job, Request(j)
  PROVE  SyncJobsInv'
<1> USE DEF SyncJobsInv
<1>0. /\ queue \in Seq(Message) /\ Distinct(queue) /\ <<j, 0>> \in Message
      /\ job[j] # "queued" /\ \A k \in Sub : sub[j][k].pc # "queued"
  BY StepTypes, MessageType DEF Request, JobEnded, SubEnded
<1>1. ~Holds(queue, <<j, 0>>) /\ \A k \in Sub : ~Holds(queue, <<j, k>>)
  BY <1>0, QueueFacts
<1>2. /\ queue' \in Seq(Message) /\ Distinct(queue')
      /\ \A x : Holds(queue', x) <=> Holds(queue, x) \/ x = <<j, 0>>
  BY <1>0, <1>1, AppendHolds DEF Request
<1>3. Published(j, 0) \in [Sub -> SubState] /\ \A k \in Sub : Published(j, 0)[k].pc = "none"
  BY PublishedType
<1>4. /\ \A i \in Job : job'[i] = IF i = j THEN "queued" ELSE job[i]
      /\ \A i \in Job : announced'[i] = IF i = j THEN {} ELSE announced[i]
      /\ \A i \in Job : sub'[i] = IF i = j THEN Published(j, 0) ELSE sub[i]
      /\ sub' \in [Job -> [Sub -> SubState]]
      /\ UNCHANGED <<platform, mayJoin, moves, faults>>
  BY <1>3 DEF TypeOK, Request
<1>5. TypeOK'
  BY <1>2, <1>4 DEF TypeOK, Message, Request
<1>6. RetriesLeft'
  BY <1>3, <1>4 DEF RetriesLeft
<1>7. LaunchedOnce' /\ AnnouncedAtTheEnd'
  BY <1>3, <1>4 DEF LaunchedOnce, AnnouncedAtTheEnd
<1>8. CompletedMeansAllReturned'
  BY <1>4 DEF CompletedMeansAllReturned, AllReturned
<1>9. QueueHoldsWhatWaits'
  <2>1. ASSUME NEW i \in Job PROVE job'[i] = "queued" <=> Holds(queue', <<i, 0>>)
    <3>1. <<i, 0>> = <<j, 0>> <=> i = j
      OBVIOUS
    <3> QED
      BY <1>2, <1>4, <3>1, QueueFacts
  <2>2. ASSUME NEW i \in Job, NEW k \in Sub
        PROVE  sub'[i][k].pc = "queued" <=> Holds(queue', <<i, k>>)
    <3>1. <<i, k>> # <<j, 0>>
      BY MessageType DEF Sub
    <3> QED
      <4>1. Holds(queue', <<i, k>>) <=> Holds(queue, <<i, k>>)
        BY <1>2, <3>1
      <4>2. sub[i][k].pc = "queued" <=> Holds(queue, <<i, k>>)
        BY QueueFacts
      <4>3. sub'[i] = IF i = j THEN Published(j, 0) ELSE sub[i]
        BY <1>4
      <4> QED
        BY <1>1, <1>3, <4>1, <4>2, <4>3
  <2> QED
    BY <1>2, <2>1, <2>2, QueueFactsPrime
<1> QED
  BY <1>5, <1>6, <1>7, <1>8, <1>9

LEMMA CrashInv ==
  ASSUME SyncJobsInv, Crash
  PROVE  SyncJobsInv'
<1> USE DEF SyncJobsInv
<1>0. /\ faults' \in 0..MaxFaults /\ UNCHANGED <<platform, queue, announced, mayJoin, moves>>
      /\ \A j \in Job, k \in Sub : sub[j][k] \in SubState
  BY StepTypes DEF Crash
<1>1. \A j \in Job : job'[j] = IF job[j] = "joining" THEN "lost" ELSE job[j]
  BY DEF Crash
<1>2. \A j \in Job, k \in Sub :
        sub'[j][k] = IF sub[j][k].pc = "running" THEN [sub[j][k] EXCEPT !.pc = "lost"]
                                                 ELSE sub[j][k]
  BY DEF Crash
<1>3. \A j \in Job, k \in Sub :
        /\ sub'[j][k] \in SubState
        /\ sub'[j][k].pc = IF sub[j][k].pc = "running" THEN "lost" ELSE sub[j][k].pc
        /\ sub'[j][k].retries = sub[j][k].retries
  <2>1. \A st \in SubState :
          /\ [st EXCEPT !.pc = "lost"] \in SubState
          /\ [st EXCEPT !.pc = "lost"].pc = "lost"
          /\ [st EXCEPT !.pc = "lost"].retries = st.retries
    BY DEF SubState, SubEnded
  <2> TAKE j \in Job, k \in Sub
  <2>2. sub[j][k] \in SubState
    BY <1>0
  <2>3. CASE sub[j][k].pc = "running"
    <3>1. sub'[j][k] = [sub[j][k] EXCEPT !.pc = "lost"]
      BY <1>2, <2>3
    <3> QED
      BY <2>1, <2>2, <2>3, <3>1
  <2>4. CASE sub[j][k].pc # "running"
    <3>1. sub'[j][k] = sub[j][k]
      BY <1>2, <2>4
    <3> QED
      BY <2>2, <2>4, <3>1
  <2> QED
    BY <2>3, <2>4
<1>4. TypeOK'
  <2>1. job' \in [Job -> JobEnded \cup {"idle", "queued", "joining"}]
    BY DEF Crash, TypeOK, JobEnded
  <2>2. sub' \in [Job -> [Sub -> SubState]]
    <3>1. sub' = [j \in Job |-> [k \in Sub |-> sub'[j][k]]]
      BY DEF Crash
    <3> QED
      BY <1>3, <3>1
  <2> QED
    BY <1>0, <2>1, <2>2 DEF TypeOK
<1>5. RetriesLeft'
  BY <1>3 DEF RetriesLeft
<1>6. LaunchedOnce'
  BY <1>1, <1>3 DEF LaunchedOnce
<1>7. AnnouncedAtTheEnd'
  BY <1>0, <1>1 DEF AnnouncedAtTheEnd, JobEnded
<1>8. CompletedMeansAllReturned'
  BY <1>0, <1>3 DEF CompletedMeansAllReturned, AllReturned
<1>9. QueueHoldsWhatWaits'
  <2>1. Distinct(queue') /\ \A x : Holds(queue', x) <=> Holds(queue, x)
    BY <1>0, QueueFacts DEF Distinct, Holds
  <2> QED
    BY <1>1, <1>3, <2>1, QueueFacts, QueueFactsPrime
<1> QED
  BY <1>4, <1>5, <1>6, <1>7, <1>8, <1>9

LEMMA FrameInv ==
  ASSUME SyncJobsInv, UNCHANGED <<job, sub, queue, announced, mayJoin, faults>>,
         platform' \in {"enabled", "disabled", "deleted"}, moves' \in 0..MaxMoves
  PROVE  SyncJobsInv'
<1> USE DEF SyncJobsInv
<1>1. TypeOK'
  BY DEF TypeOK
<1>2. RetriesLeft' /\ LaunchedOnce' /\ AnnouncedAtTheEnd'
  BY DEF RetriesLeft, LaunchedOnce, AnnouncedAtTheEnd
<1>3. CompletedMeansAllReturned'
  BY DEF CompletedMeansAllReturned, AllReturned
<1>4. QueueHoldsWhatWaits'
  <2>1. Distinct(queue') /\ \A x : Holds(queue', x) <=> Holds(queue, x)
    BY QueueFacts DEF Distinct, Holds
  <2> QED
    BY <2>1, QueueFacts, QueueFactsPrime
<1> QED
  BY <1>1, <1>2, <1>3, <1>4

LEMMA PlatformChangesInv ==
  ASSUME SyncJobsInv, PlatformChanges
  PROVE  SyncJobsInv'
<1> USE DEF SyncJobsInv
<1>1. /\ UNCHANGED <<job, sub, queue, announced, mayJoin, faults>>
      /\ platform' \in {"enabled", "disabled", "deleted"} /\ moves' \in 0..MaxMoves
  BY BoundAssumption DEF PlatformChanges, TypeOK
<1>2. mayJoin' = mayJoin
  BY DEF PlatformChanges
<1> QED
  BY <1>1, <1>2, FrameInv

-----------------------------------------------------------------------------
(* The invariant *)

LEMMA InvInit == Init => SyncJobsInv
<1> SUFFICES ASSUME Init PROVE SyncJobsInv
  OBVIOUS
<1>1. \A j \in Job : /\ sub[j] \in [Sub -> SubState]
                     /\ \A k \in Sub : sub[j][k].pc = "none"
  BY PublishedType DEF Init
<1>2. /\ queue \in Seq(Job \X (0..NSub)) /\ Len(queue) = 0
      /\ \A j \in Job : job[j] = "idle" /\ announced[j] = {}
  BY DEF Init
<1>3. TypeOK
  BY <1>1, <1>2, BoundAssumption DEF Init, TypeOK, JobEnded
<1>4. RetriesLeft /\ LaunchedOnce /\ AnnouncedAtTheEnd /\ CompletedMeansAllReturned
  BY <1>1, <1>2 DEF RetriesLeft, LaunchedOnce, AnnouncedAtTheEnd, CompletedMeansAllReturned
<1>5. QueueHoldsWhatWaits
  BY <1>1, <1>2 DEF QueueHoldsWhatWaits
<1> QED
  BY <1>3, <1>4, <1>5 DEF SyncJobsInv

LEMMA InvNext == SyncJobsInv /\ [Next]_vars => SyncJobsInv'
<1> SUFFICES ASSUME SyncJobsInv, [Next]_vars PROVE SyncJobsInv'
  OBVIOUS
<1>1. CASE UNCHANGED vars
  BY <1>1, FrameInv DEF vars, SyncJobsInv, TypeOK
<1>2. CASE Next
  BY <1>2, StartSubInv, SubReturnsRaisesInv, SubDueInv, JobStepInv, RefuseInv, LaunchInv,
     RequestInv, CrashInv, PlatformChangesInv DEF Next, Dispatch, SubStep
<1> QED
  BY <1>1, <1>2

(* Whatever subtasks raise, workers crash and platforms change: a message  *)
(* is in the queue exactly while what it starts waits for a thread, and no *)
(* success is announced unless every subtask has returned.                 *)
THEOREM Invariance == Spec => []SyncJobsInv
BY InvInit, InvNext, PTL DEF Spec

-----------------------------------------------------------------------------
(* SyncJobs implements SyncOutcome *)

(* A job is pending in SyncOutcome while it is neither idle nor ended. *)
stageBar == [j \in Job |-> IF job[j] = "idle" THEN "idle"
                           ELSE IF job[j] \in JobEnded THEN "over" ELSE "pending"]

LEMMA StageBar ==
  /\ \A j \in Job : stageBar[j] = IF job[j] = "idle" THEN "idle"
                                  ELSE IF job[j] \in JobEnded THEN "over" ELSE "pending"
  /\ job' = job => stageBar' = stageBar
BY DEF stageBar

(* The end of a pending job. *)
LEMMA EndRefines ==
  ASSUME TypeOK, NEW j \in Job, job[j] \in {"queued", "joining"},
         NEW e \in JobEnded, job' = [job EXCEPT ![j] = e],
         NEW news \in {{}, {"completed"}, {"failed"}},
         announced' = [announced EXCEPT ![j] = news]
  PROVE  Outcome!End(j, news)
<1>1. stageBar[j] = "pending"
  BY DEF stageBar, JobEnded
<1>2. stageBar' = [stageBar EXCEPT ![j] = "over"]
  <2>1. \A i \in Job : job'[i] = IF i = j THEN e ELSE job[i]
    BY DEF TypeOK
  <2>2. e # "idle"
    BY DEF JobEnded
  <2> QED
    BY <2>1, <2>2 DEF stageBar
<1> QED
  BY <1>1, <1>2 DEF Outcome!End, stageBar

LEMMA JobStepRefines ==
  ASSUME SyncJobsInv, NEW j \in Job, JobStep(j)
  PROVE  \E news \in {{}, {"completed"}, {"failed"}} : Outcome!End(j, news)
<1>0. job[j] = "joining" /\ announced[j] = {} /\ TypeOK
  BY DEF JobStep, Collect, CollectRaises, TimesOut, JoinRefused, SyncJobsInv,
         AnnouncedAtTheEnd, JobEnded
<1>1. CASE Collect(j)
  <2>1. /\ job' = [job EXCEPT ![j] = "completed"] /\ "completed" \in JobEnded
        /\ announced' = [announced EXCEPT ![j] = {"completed"}]
    BY <1>0, <1>1 DEF Collect, EndsWell, JobEnded
  <2> QED
    BY <1>0, <2>1, EndRefines
<1>2. CASE EndsBadly(j)
  <2>1. /\ job' = [job EXCEPT ![j] = "failed"] /\ "failed" \in JobEnded
        /\ \/ announced' = [announced EXCEPT ![j] = {}]
           \/ announced' = [announced EXCEPT ![j] = {"failed"}]
    BY <1>0, <1>2 DEF EndsBadly, JobEnded
  <2> QED
    BY <1>0, <2>1, EndRefines
<1> QED
  BY <1>1, <1>2 DEF JobStep, CollectRaises, TimesOut, JoinRefused

LEMMA LaunchFailsRefines ==
  ASSUME SyncJobsInv, NEW j \in Job, LaunchFails(j)
  PROVE  \E news \in {{}, {"completed"}, {"failed"}} : Outcome!End(j, news)
<1>0. job[j] = "queued" /\ announced[j] = {} /\ TypeOK
  BY LaunchInv DEF SyncJobsInv, AnnouncedAtTheEnd, JobEnded
<1>1. /\ job' = [job EXCEPT ![j] = "failed"] /\ "failed" \in JobEnded
      /\ \/ announced' = [announced EXCEPT ![j] = {}]
         \/ announced' = [announced EXCEPT ![j] = {"failed"}]
  BY <1>0 DEF LaunchFails, EndsBadly, JobEnded
<1> QED
  BY <1>0, <1>1, EndRefines

LEMMA RefuseRefines ==
  ASSUME SyncJobsInv, NEW j \in Job, Refuse(j)
  PROVE  Outcome!End(j, {})
<1>0. job[j] = "queued" /\ announced[j] = {} /\ TypeOK
  BY RefuseInv DEF SyncJobsInv, AnnouncedAtTheEnd, JobEnded
<1>1. /\ job' = [job EXCEPT ![j] = "refused"] /\ "refused" \in JobEnded
      /\ announced' = [announced EXCEPT ![j] = {}]
  BY <1>0 DEF Refuse, TypeOK, JobEnded
<1> QED
  BY <1>0, <1>1, EndRefines

(* A thread that takes a job and publishes its subtasks changes nothing    *)
(* that SyncOutcome sees.                                                  *)
LEMMA LaunchRefines ==
  ASSUME SyncJobsInv, NEW j \in Job, Launch(j)
  PROVE  UNCHANGED Outcome!vars
<1>1. job[j] = "queued" /\ TypeOK /\ job' = [job EXCEPT ![j] = "joining"]
  BY LaunchInv DEF SyncJobsInv, Launch
<1>2. \A i \in Job : job'[i] = IF i = j THEN "joining" ELSE job[i]
  BY <1>1 DEF TypeOK
<1>3. stageBar' = stageBar
  BY <1>1, <1>2 DEF stageBar, JobEnded
<1> QED
  BY <1>3 DEF Launch, Outcome!vars, stageBar

LEMMA RequestRefines ==
  ASSUME SyncJobsInv, NEW j \in Job, Request(j)
  PROVE  Outcome!Request(j)
<1>1. \A i \in Job : job'[i] = IF i = j THEN "queued" ELSE job[i]
  BY DEF Request, SyncJobsInv, TypeOK
<1>2. stageBar' = [stageBar EXCEPT ![j] = "pending"]
  BY <1>1 DEF stageBar, JobEnded
<1>3. stageBar[j] # "pending"
  BY DEF Request, stageBar
<1> QED
  BY <1>2, <1>3 DEF Request, Outcome!Request, stageBar

LEMMA CrashRefines ==
  ASSUME SyncJobsInv, Crash
  PROVE  \E js \in SUBSET Job : Outcome!Lost(js)
<1>0. PICK js \in SUBSET Job : js = {j \in Job : job[j] = "joining"}
  OBVIOUS
<1>1. \A j \in Job : job'[j] = IF j \in js THEN "lost" ELSE job[j]
  BY <1>0 DEF Crash
<1>2. \A j \in js : stageBar[j] = "pending"
  BY <1>0 DEF stageBar, JobEnded
<1>3. stageBar' = [j \in Job |-> IF j \in js THEN "over" ELSE stageBar[j]]
  BY <1>1 DEF stageBar, JobEnded
<1>4. Outcome!Lost(js)
  BY <1>2, <1>3 DEF Crash, Outcome!Lost, stageBar
<1> QED
  BY <1>4

LEMMA NextRefines ==
  ASSUME SyncJobsInv, [Next]_vars
  PROVE  [Outcome!Next]_(Outcome!vars)
<1>1. ASSUME UNCHANGED <<job, announced>> PROVE UNCHANGED Outcome!vars
  BY <1>1 DEF Outcome!vars
<1>2. ASSUME NEW j \in Job, NEW k \in Sub, StartSub(j, k) \/ SubStep(j, k)
      PROVE  UNCHANGED <<job, announced>>
  BY <1>2 DEF StartSub, SubStep, SubReturns, SubRaises, SubDue
<1>3. CASE PlatformChanges \/ UNCHANGED vars
  BY <1>1, <1>3 DEF PlatformChanges, vars
<1>4. CASE Crash
  BY <1>4, CrashRefines DEF Outcome!Next
<1>5. ASSUME NEW j \in Job,
             Refuse(j) \/ Launch(j) \/ Request(j) \/ LaunchFails(j) \/ JobStep(j)
      PROVE  [Outcome!Next]_(Outcome!vars)
  BY <1>5, RefuseRefines, LaunchRefines, RequestRefines, LaunchFailsRefines, JobStepRefines
  DEF Outcome!Next
<1> QED
  BY <1>1, <1>2, <1>3, <1>4, <1>5 DEF Next, Dispatch

LEMMA InitRefines == Init => Outcome!Init
BY DEF Init, Outcome!Init

(* Every behaviour of the jobs, their subtasks and the worker is, seen     *)
(* through the state of the jobs, one of SyncOutcome: a request ends at    *)
(* most once, and a success and a failure are never both announced.        *)
THEOREM Refinement == Spec => AnnouncesOnce
<1>1. SyncJobsInv /\ [Next]_vars => [Outcome!Next]_(Outcome!vars)
  BY NextRefines
<1> QED
  BY <1>1, InitRefines, Invariance, PTL DEF Spec, AnnouncesOnce, Outcome!Spec

-----------------------------------------------------------------------------
(* The system settings: machine-checked proofs about SettingsSync, for any  *)
(* processes, names, values and forms that meet its assumption.  A process  *)
(* that has handled what it was sent holds the settings of the table.  The  *)
(* argument looks at what a process will hold when its queue is empty: a    *)
(* publication makes that the new value at once, before it is committed,    *)
(* and every other step leaves it alone or counts as missed.  The names     *)
(* that SyncJobs uses for something else are renamed.                       *)

CONSTANTS
  Process, Name, Value, Default, Garbled, NoRow, Editor, MaxForms, MaxFailed

VARIABLES
  row, editor, state, memory, inbox, missed, forms, failed

F == INSTANCE SettingsSync
       WITH queue <- inbox, faults <- failed, MaxFaults <- MaxFailed

-----------------------------------------------------------------------------
(* What a queue will make of an attribute *)

(* A process that takes the first message holds its value for the time     *)
(* being, and what it will hold in the end is the same.                    *)
LEMMA TakeSettles ==
  ASSUME NEW q \in Seq(F!Message), q # <<>>, NEW m, NEW n, NEW v, F!Settles(q, m, n, v)
  PROVE  F!Settles(Tail(q), IF Head(q).name = n THEN Head(q).value ELSE m, n, v)
<1> DEFINE t == Tail(q)
           h == IF Head(q).name = n THEN Head(q).value ELSE m
<1>1. /\ Len(q) \in Nat /\ Len(q) > 0 /\ t \in Seq(F!Message) /\ Len(t) = Len(q) - 1
      /\ Head(q) = q[1]
      /\ \A i \in 1 .. (Len(q) - 1) : t[i] = q[i + 1]
  OBVIOUS
<1>2. /\ DOMAIN q = 1 .. Len(q) /\ DOMAIN t = 1 .. (Len(q) - 1)
  BY <1>1
<1> HIDE DEF t
<1>3. CASE m = v /\ \A i \in DOMAIN q : q[i].name # n
  <2>1. h = v
    BY <1>1, <1>2, <1>3
  <2>2. ASSUME NEW i \in DOMAIN t PROVE t[i].name # n
    <3>1. i + 1 \in DOMAIN q /\ t[i] = q[i + 1]
      BY <1>1, <1>2
    <3> QED
      BY <1>3, <3>1
  <2> QED
    BY <2>1, <2>2 DEF F!Settles, t
<1>4. ASSUME NEW i \in DOMAIN q,
             q[i] = [name |-> n, value |-> v],
             \A j \in DOMAIN q : j > i => q[j].name # n
      PROVE  F!Settles(t, h, n, v)
  <2>1. CASE i = 1
    <3>1. h = v
      BY <1>1, <1>4, <2>1
    <3>2. ASSUME NEW j \in DOMAIN t PROVE t[j].name # n
      <4>1. j + 1 \in DOMAIN q /\ j + 1 > i /\ t[j] = q[j + 1]
        BY <1>1, <1>2, <2>1
      <4> QED
        BY <1>4, <4>1
    <3> QED
      BY <3>1, <3>2 DEF F!Settles
  <2>2. CASE i # 1
    <3>1. i - 1 \in DOMAIN t /\ t[i - 1] = [name |-> n, value |-> v]
      BY <1>1, <1>2, <1>4, <2>2
    <3>2. ASSUME NEW j \in DOMAIN t, j > i - 1 PROVE t[j].name # n
      <4>1. j + 1 \in DOMAIN q /\ j + 1 > i /\ t[j] = q[j + 1]
        BY <1>1, <1>2, <3>2
      <4> QED
        BY <1>4, <4>1
    <3> QED
      BY <3>1, <3>2 DEF F!Settles
  <2> QED
    BY <2>1, <2>2
<1> QED
  BY <1>3, <1>4 DEF F!Settles, t

(* A published value is what the process will hold of the name; what it    *)
(* will hold of other names is not touched.                                *)
LEMMA PublishSettles ==
  ASSUME NEW q \in Seq(F!Message), NEW m, NEW k \in Name, NEW w \in Value
  PROVE  LET r == Append(q, [name |-> k, value |-> w])
         IN  /\ r \in Seq(F!Message)
             /\ F!Settles(r, m, k, w)
             /\ \A n, v : n # k /\ F!Settles(q, m, n, v) => F!Settles(r, m, n, v)
<1> DEFINE y == [name |-> k, value |-> w]
           r == Append(q, y)
<1>0. y \in F!Message
  BY DEF F!Message
<1>1. /\ Len(q) \in Nat /\ r \in Seq(F!Message) /\ Len(r) = Len(q) + 1
      /\ \A i \in 1 .. Len(q) : r[i] = q[i]
      /\ r[Len(q) + 1] = y
  BY <1>0
<1>2. DOMAIN q = 1 .. Len(q) /\ DOMAIN r = 1 .. (Len(q) + 1)
  BY <1>1
<1> HIDE DEF r
<1>3. F!Settles(r, m, k, w)
  BY <1>1, <1>2 DEF F!Settles
<1>4. ASSUME NEW n, NEW v, n # k, F!Settles(q, m, n, v)
      PROVE  F!Settles(r, m, n, v)
  <2>1. y.name # n
    BY <1>4
  <2>2. CASE m = v /\ \A i \in DOMAIN q : q[i].name # n
    <3>1. \A i \in DOMAIN r : r[i].name # n
      BY <1>1, <1>2, <2>1, <2>2
    <3> QED
      BY <2>2, <3>1 DEF F!Settles
  <2>3. ASSUME NEW i \in DOMAIN q,
               q[i] = [name |-> n, value |-> v],
               \A j \in DOMAIN q : j > i => q[j].name # n
        PROVE  F!Settles(r, m, n, v)
    <3>1. i \in DOMAIN r /\ r[i] = [name |-> n, value |-> v]
      BY <1>1, <1>2, <2>3
    <3>2. \A j \in DOMAIN r : j > i => r[j].name # n
      BY <1>1, <1>2, <2>1, <2>3
    <3> QED
      BY <3>1, <3>2 DEF F!Settles
  <2> QED
    BY <1>4, <2>2, <2>3 DEF F!Settles
<1> QED
  BY <1>1, <1>3, <1>4 DEF r

(* Without a message of the name the process holds what it will hold.      *)
LEMMA QuietSettles ==
  ASSUME NEW q \in Seq(F!Message), NEW m, NEW n, NEW v, F!Settles(q, m, n, v),
         \A x \in F!ToSet(q) : x.name # n
  PROVE  m = v /\ F!Settles(<<>>, m, n, v)
<1>1. \A i \in DOMAIN q : q[i].name # n
  BY DEF F!ToSet
<1>2. m = v
  BY <1>1 DEF F!Settles
<1>3. DOMAIN <<>> = {}
  OBVIOUS
<1> QED
  BY <1>2, <1>3 DEF F!Settles

-----------------------------------------------------------------------------
(* Types *)

LEMMA PartsAre ==
  ASSUME NEW f
  PROVE  f \in F!Parts <=> \E names \in SUBSET Name : f \in [names -> Value]
BY DEF F!Parts

LEMMA IdleTyped == F!Idle.draft \in F!Parts /\ F!Idle.form \in F!Parts /\ DOMAIN F!Idle.draft = {}
<1>1. DOMAIN <<>> = {} /\ <<>> \in [{} -> Value]
  OBVIOUS
<1> QED
  BY <1>1, PartsAre DEF F!Idle

(* What is written or left of a form is again values of settings.          *)
LEMMA PartTyped ==
  ASSUME NEW f \in F!Parts
  PROVE  /\ DOMAIN f \in SUBSET Name
         /\ \A n \in DOMAIN f : f[n] \in Value
         /\ \A n : [m \in DOMAIN f \ {n} |-> f[m]] \in F!Parts
         /\ \A n \in Name, v \in Value :
              [m \in DOMAIN f \cup {n} |-> IF m = n THEN v ELSE f[m]] \in F!Parts
<1>1. PICK names \in SUBSET Name : f \in [names -> Value]
  BY PartsAre
<1>2. DOMAIN f = names
  BY <1>1
<1>3. ASSUME NEW n PROVE [m \in DOMAIN f \ {n} |-> f[m]] \in F!Parts
  <2>1. [m \in DOMAIN f \ {n} |-> f[m]] \in [names \ {n} -> Value]
    BY <1>1, <1>2
  <2> QED
    BY <2>1, PartsAre
<1>4. ASSUME NEW n \in Name, NEW v \in Value
      PROVE  [m \in DOMAIN f \cup {n} |-> IF m = n THEN v ELSE f[m]] \in F!Parts
  <2>1. [m \in DOMAIN f \cup {n} |-> IF m = n THEN v ELSE f[m]]
          \in [names \cup {n} -> Value]
    BY <1>1, <1>2
  <2>2. names \cup {n} \in SUBSET Name
    BY <1>1
  <2> QED
    BY <2>1, <2>2, PartsAre
<1> QED
  BY <1>1, <1>2, <1>3, <1>4

-----------------------------------------------------------------------------
(* Steps that leave one side alone *)

(* A step of one process: what the others hold is as before.               *)
LEMMA ProcessStep ==
  ASSUME F!SettingsInv, NEW p \in Process, UNCHANGED <<row, editor>>, F!TypeOK',
         \A q \in Process \ {p} : /\ state'[q] = state[q] /\ memory'[q] = memory[q]
                                 /\ inbox'[q] = inbox[q] /\ missed'[q] = missed[q],
         state'[p] # "listening" => inbox'[p] = <<>>,
         state'[p] = "booted" => \A n \in Name : memory'[p][n] = Default,
         \A n \in Name : state'[p] \notin {"down", "booted"} /\ n \notin missed'[p] =>
           \A v \in F!Latest(n) : F!Settles(inbox'[p], memory'[p][n], n, v)
  PROVE  F!SettingsInv'
<1>1. F!FormsAreSound'
  BY DEF F!SettingsInv, F!FormsAreSound
<1>2. F!OnlyListenersAreTold'
  BY DEF F!SettingsInv, F!OnlyListenersAreTold
<1>3. F!BootsFromDefaults'
  BY DEF F!SettingsInv, F!BootsFromDefaults
<1>4. \A n \in Name : F!Latest(n)' = F!Latest(n)
  BY DEF F!Latest, F!Locked, F!Effective
<1>5. F!HoldsTheLatest'
  <2> SUFFICES ASSUME NEW q \in Process, NEW n \in Name, (state[q] \notin {"down", "booted"})',
                      (n \notin missed[q])', NEW v \in F!Latest(n)'
               PROVE  F!Settles(inbox[q], memory[q][n], n, v)'
    BY DEF F!HoldsTheLatest
  <2>1. v \in F!Latest(n)
    BY <1>4
  <2>2. CASE q = p
    BY <2>1, <2>2 DEF F!Settles
  <2>3. CASE q # p
    <3>1. F!Settles(inbox[q], memory[q][n], n, v)
      BY <2>1, <2>3 DEF F!SettingsInv, F!HoldsTheLatest
    <3> QED
      BY <2>3, <3>1 DEF F!Settles
  <2> QED
    BY <2>2, <2>3
<1> QED
  BY <1>1, <1>2, <1>3, <1>5 DEF F!SettingsInv

(* A step of a form that publishes nothing: the names whose latest value   *)
(* it changes are missed by everybody.                                     *)
LEMMA SilentStep ==
  ASSUME F!SettingsInv, UNCHANGED <<state, memory, inbox>>, F!TypeOK', F!FormsAreSound',
         \A p \in Process : missed[p] \subseteq missed'[p],
         \A p \in Process, n \in Name : n \notin missed'[p] => F!Latest(n)' \subseteq F!Latest(n)
  PROVE  F!SettingsInv'
<1>1. F!OnlyListenersAreTold' /\ F!BootsFromDefaults'
  BY DEF F!SettingsInv, F!OnlyListenersAreTold, F!BootsFromDefaults
<1>2. F!HoldsTheLatest'
  <2> SUFFICES ASSUME NEW p \in Process, NEW n \in Name, (state[p] \notin {"down", "booted"})',
                      (n \notin missed[p])', NEW v \in F!Latest(n)'
               PROVE  F!Settles(inbox[p], memory[p][n], n, v)'
    BY DEF F!HoldsTheLatest
  <2>1. v \in F!Latest(n) /\ n \notin missed[p]
    OBVIOUS
  <2>2. F!Settles(inbox[p], memory[p][n], n, v)
    BY <2>1 DEF F!SettingsInv, F!HoldsTheLatest
  <2> QED
    BY <2>2 DEF F!Settles
<1> QED
  BY <1>1, <1>2 DEF F!SettingsInv

-----------------------------------------------------------------------------
(* Steps of a process *)

LEMMA InitInv == ASSUME F!SettingsAssumption PROVE F!Init => F!SettingsInv
<1> SUFFICES ASSUME F!Init PROVE F!SettingsInv
  OBVIOUS
<1>1. F!Idle.pc = "idle" /\ F!Idle.draft = <<>> /\ F!Idle.name = <<>> /\ F!Idle.seen = NoRow
  BY DEF F!Idle
<1>2. F!Idle \in [pc : {"idle", "item", "compare", "commit"}, form : F!Parts,
                name : Name \cup {<<>>}, seen : Value \cup {NoRow, Garbled}, draft : F!Parts]
  BY <1>1, IdleTyped DEF F!Idle
<1>3. F!TypeOK
  BY <1>2, F!SettingsAssumption DEF F!Init, F!TypeOK
<1>4. F!FormsAreSound /\ F!OnlyListenersAreTold /\ F!BootsFromDefaults /\ F!HoldsTheLatest
  BY <1>1 DEF F!Init, F!FormsAreSound, F!OnlyListenersAreTold, F!BootsFromDefaults, F!HoldsTheLatest
<1> QED
  BY <1>3, <1>4 DEF F!SettingsInv

LEMMA BootInv ==
  ASSUME F!SettingsAssumption, F!SettingsInv, NEW p \in Process, F!Boot(p) PROVE F!SettingsInv'
<1>1. F!TypeOK'
  BY F!SettingsAssumption DEF F!SettingsInv, F!TypeOK, F!Boot
<1>2. /\ state'[p] = "booted" /\ inbox'[p] = <<>>
      /\ \A n \in Name : memory'[p][n] = Default
  BY DEF F!SettingsInv, F!TypeOK, F!OnlyListenersAreTold, F!Boot
<1>3. \A q \in Process \ {p} : /\ state'[q] = state[q] /\ memory'[q] = memory[q]
                              /\ inbox'[q] = inbox[q] /\ missed'[q] = missed[q]
  BY DEF F!SettingsInv, F!TypeOK, F!Boot
<1> QED
  BY <1>1, <1>2, <1>3, ProcessStep DEF F!Boot

(* What a process reads is the row, and no form has it open; what it does  *)
(* not read has no row and the default, or is missed.                      *)
LEMMA RefreshInv ==
  ASSUME F!SettingsAssumption, F!SettingsInv, NEW p \in Process, F!Refresh(p) PROVE F!SettingsInv'
<1>1. PICK read \in SUBSET {n \in Name : row[n] \in Value} :
        /\ memory' = [memory EXCEPT ![p] =
                        [n \in Name |-> IF n \in read THEN row[n] ELSE @[n]]]
        /\ missed' = [missed EXCEPT ![p] =
                        {n \in Name : \/ F!Locked(n)
                                      \/ row[n] # NoRow /\ n \notin read}]
  BY DEF F!Refresh
<1>2. /\ state[p] = "booted" /\ state' = [state EXCEPT ![p] = "loaded"]
      /\ UNCHANGED <<row, editor, inbox, forms, failed>> /\ F!TypeOK
  BY DEF F!Refresh, F!SettingsInv
<1>3. F!TypeOK'
  <2>1. memory[p] \in [Name -> Value] /\ \A n \in read : row[n] \in Value
    BY <1>2 DEF F!TypeOK
  <2>2. [n \in Name |-> IF n \in read THEN row[n] ELSE memory[p][n]] \in [Name -> Value]
    BY <2>1
  <2>3. memory' \in [Process -> [Name -> Value]]
    BY <1>1, <1>2, <2>2 DEF F!TypeOK
  <2>4. missed' \in [Process -> SUBSET Name]
    BY <1>1, <1>2 DEF F!TypeOK
  <2> QED
    BY <1>2, <2>3, <2>4 DEF F!TypeOK
<1>4. state'[p] = "loaded" /\ inbox'[p] = <<>>
  BY <1>2 DEF F!TypeOK, F!SettingsInv, F!OnlyListenersAreTold
<1>5. \A q \in Process \ {p} : /\ state'[q] = state[q] /\ memory'[q] = memory[q]
                              /\ inbox'[q] = inbox[q] /\ missed'[q] = missed[q]
  BY <1>1, <1>2 DEF F!TypeOK
<1>6. ASSUME NEW n \in Name, n \notin missed'[p], NEW v \in F!Latest(n)
      PROVE  F!Settles(inbox'[p], memory'[p][n], n, v)
  <2>1. ~F!Locked(n) /\ (row[n] # NoRow => n \in read)
    BY <1>1, <1>2, <1>6 DEF F!TypeOK
  <2>2. v = F!Effective(n)
    BY <2>1 DEF F!Latest, F!Locked
  <2>3. memory'[p][n] = IF n \in read THEN row[n] ELSE memory[p][n]
    BY <1>1, <1>2 DEF F!TypeOK
  <2>4. memory[p][n] = Default
    BY <1>2 DEF F!SettingsInv, F!BootsFromDefaults
  <2>5. memory'[p][n] = v
    BY <2>1, <2>2, <2>3, <2>4, F!SettingsAssumption DEF F!Effective
  <2>6. DOMAIN <<>> = {}
    OBVIOUS
  <2> QED
    BY <1>4, <2>5, <2>6 DEF F!Settles
<1> QED
  BY <1>2, <1>3, <1>4, <1>5, <1>6, ProcessStep

LEMMA SubscribeInv ==
  ASSUME F!SettingsInv, NEW p \in Process, F!Subscribe(p) \/ F!SubscribeFails(p) \/ F!Retry(p)
  PROVE  F!SettingsInv'
<1>1. F!TypeOK'
  BY DEF F!SettingsInv, F!TypeOK, F!Subscribe, F!SubscribeFails, F!Retry
<1>2. /\ state[p] \in {"loaded", "lost"} /\ state'[p] \in {"listening", "deaf"}
      /\ UNCHANGED <<row, editor, memory, inbox, missed>>
      /\ inbox[p] = <<>> /\ \A q \in Process \ {p} : state'[q] = state[q]
  BY DEF F!SettingsInv, F!TypeOK, F!OnlyListenersAreTold, F!Subscribe, F!SubscribeFails, F!Retry
<1>3. \A n \in Name : n \notin missed'[p] =>
        \A v \in F!Latest(n) : F!Settles(inbox'[p], memory'[p][n], n, v)
  BY <1>2 DEF F!SettingsInv, F!HoldsTheLatest
<1> QED
  BY <1>1, <1>2, <1>3, ProcessStep

LEMMA ProcessCrashInv ==
  ASSUME F!SettingsInv, NEW p \in Process, F!Crash(p) PROVE F!SettingsInv'
<1>1. F!TypeOK'
  <2>1. <<>> \in Seq(F!Message)
    OBVIOUS
  <2> QED
    BY <2>1 DEF F!SettingsInv, F!TypeOK, F!Crash
<1>2. /\ state'[p] = "down" /\ inbox'[p] = <<>> /\ UNCHANGED <<row, editor, memory, missed>>
      /\ \A q \in Process \ {p} : state'[q] = state[q] /\ inbox'[q] = inbox[q]
  BY DEF F!SettingsInv, F!TypeOK, F!Crash
<1> QED
  BY <1>1, <1>2, ProcessStep

(* The next message is in order: it makes the attribute what the queue was *)
(* going to make it.                                                       *)
LEMMA HandleInv ==
  ASSUME F!SettingsInv, NEW p \in Process, F!Handle(p) PROVE F!SettingsInv'
<1> DEFINE h == Head(inbox[p])
<1>1. /\ state[p] = "listening" /\ inbox[p] # <<>> /\ F!TypeOK
      /\ memory' = [memory EXCEPT ![p][h.name] = h.value]
      /\ inbox' = [inbox EXCEPT ![p] = Tail(@)]
      /\ UNCHANGED <<row, editor, state, missed>>
  BY DEF F!SettingsInv, F!Handle
<1>2. inbox[p] \in Seq(F!Message) /\ memory[p] \in [Name -> Value]
  BY <1>1 DEF F!TypeOK
<1>3. h \in F!Message /\ Tail(inbox[p]) \in Seq(F!Message)
  BY <1>1, <1>2
<1> HIDE DEF h
<1>4. h.name \in Name /\ h.value \in Value
  BY <1>3 DEF F!Message
<1>5. /\ inbox'[p] = Tail(inbox[p])
      /\ \A n \in Name : memory'[p][n] = IF h.name = n THEN h.value ELSE memory[p][n]
      /\ memory'[p] \in [Name -> Value]
  BY <1>1, <1>2, <1>4 DEF F!TypeOK
<1>6. \A q \in Process \ {p} : memory'[q] = memory[q] /\ inbox'[q] = inbox[q]
  BY <1>1 DEF F!TypeOK
<1>7. F!TypeOK'
  <2>1. memory' \in [Process -> [Name -> Value]]
    BY <1>1, <1>2, <1>4 DEF F!TypeOK
  <2>2. inbox' \in [Process -> Seq(F!Message)]
    BY <1>1, <1>3 DEF F!TypeOK
  <2> QED
    BY <1>1, <2>1, <2>2 DEF F!TypeOK
<1>8. ASSUME NEW n \in Name, n \notin missed'[p], NEW v \in F!Latest(n)
      PROVE  F!Settles(inbox'[p], memory'[p][n], n, v)
  <2>1. F!Settles(inbox[p], memory[p][n], n, v)
    BY <1>1, <1>8 DEF F!SettingsInv, F!HoldsTheLatest
  <2>2. F!Settles(Tail(inbox[p]), IF h.name = n THEN h.value ELSE memory[p][n], n, v)
    BY <1>1, <1>2, <2>1, TakeSettles DEF h
  <2> QED
    BY <1>5, <2>2
<1> QED
  BY <1>1, <1>6, <1>7, <1>8, ProcessStep

LEMMA HandleFailsInv ==
  ASSUME F!SettingsInv, NEW p \in Process, F!HandleFails(p) PROVE F!SettingsInv'
<1> DEFINE h == Head(inbox[p])
<1>1. /\ state[p] = "listening" /\ inbox[p] # <<>> /\ F!TypeOK
      /\ inbox' = [inbox EXCEPT ![p] = Tail(@)]
      /\ missed' = [missed EXCEPT ![p] = @ \cup {h.name}]
      /\ UNCHANGED <<row, editor, state, memory>>
  BY DEF F!SettingsInv, F!HandleFails
<1>2. inbox[p] \in Seq(F!Message)
  BY <1>1 DEF F!TypeOK
<1>3. h \in F!Message /\ Tail(inbox[p]) \in Seq(F!Message)
  BY <1>1, <1>2
<1> HIDE DEF h
<1>4. h.name \in Name
  BY <1>3 DEF F!Message
<1>5. inbox'[p] = Tail(inbox[p]) /\ missed'[p] = missed[p] \cup {h.name}
  BY <1>1 DEF F!TypeOK
<1>6. \A q \in Process \ {p} : missed'[q] = missed[q] /\ inbox'[q] = inbox[q]
  BY <1>1 DEF F!TypeOK
<1>7. F!TypeOK'
  BY <1>1, <1>3, <1>4 DEF F!TypeOK
<1>8. ASSUME NEW n \in Name, n \notin missed'[p], NEW v \in F!Latest(n)
      PROVE  F!Settles(inbox'[p], memory'[p][n], n, v)
  <2>1. F!Settles(inbox[p], memory[p][n], n, v) /\ h.name # n
    BY <1>1, <1>5, <1>8 DEF F!SettingsInv, F!HoldsTheLatest
  <2>2. F!Settles(Tail(inbox[p]), IF h.name = n THEN h.value ELSE memory[p][n], n, v)
    BY <1>1, <1>2, <2>1, TakeSettles DEF h
  <2> QED
    BY <1>1, <1>5, <2>1, <2>2
<1> QED
  BY <1>1, <1>6, <1>7, <1>8, ProcessStep

(* The names of the messages that are lost are missed; the others have no  *)
(* message in the queue.                                                   *)
LEMMA LoseConnectionInv ==
  ASSUME F!SettingsInv, NEW p \in Process, F!LoseConnection(p) PROVE F!SettingsInv'
<1>1. /\ state[p] = "listening" /\ F!TypeOK
      /\ state' = [state EXCEPT ![p] = "lost"]
      /\ missed' = [missed EXCEPT ![p] = @ \cup {m.name : m \in F!ToSet(inbox[p])}]
      /\ inbox' = [inbox EXCEPT ![p] = <<>>]
      /\ UNCHANGED <<row, editor, memory>>
  BY DEF F!SettingsInv, F!LoseConnection
<1>2. inbox[p] \in Seq(F!Message) /\ <<>> \in Seq(F!Message)
  BY <1>1 DEF F!TypeOK
<1>3. \A x \in F!ToSet(inbox[p]) : x.name \in Name
  <2> SUFFICES ASSUME NEW x \in F!ToSet(inbox[p]) PROVE x.name \in Name
    OBVIOUS
  <2>1. x \in F!Message
    BY <1>2 DEF F!ToSet
  <2> QED
    BY <2>1 DEF F!Message
<1>4. state'[p] = "lost" /\ inbox'[p] = <<>>
      /\ missed'[p] = missed[p] \cup {m.name : m \in F!ToSet(inbox[p])}
  BY <1>1 DEF F!TypeOK
<1>5. \A q \in Process \ {p} : /\ state'[q] = state[q] /\ missed'[q] = missed[q]
                              /\ inbox'[q] = inbox[q]
  BY <1>1 DEF F!TypeOK
<1>6. F!TypeOK'
  <2>1. missed[p] \cup {m.name : m \in F!ToSet(inbox[p])} \in SUBSET Name
    BY <1>1, <1>3 DEF F!TypeOK
  <2> QED
    BY <1>1, <1>2, <2>1 DEF F!TypeOK
<1>7. ASSUME NEW n \in Name, n \notin missed'[p], NEW v \in F!Latest(n)
      PROVE  F!Settles(inbox'[p], memory'[p][n], n, v)
  <2>1. F!Settles(inbox[p], memory[p][n], n, v)
    BY <1>1, <1>4, <1>7 DEF F!SettingsInv, F!HoldsTheLatest
  <2>2. \A x \in F!ToSet(inbox[p]) : x.name # n
    BY <1>4, <1>7
  <2>3. F!Settles(<<>>, memory[p][n], n, v) /\ memory[p][n] = v
    BY <1>2, <2>1, <2>2, QuietSettles
  <2> QED
    BY <1>1, <1>4, <2>3
<1> QED
  BY <1>1, <1>4, <1>5, <1>6, <1>7, ProcessStep

-----------------------------------------------------------------------------
(* Steps of a form *)

Record == [pc : {"idle", "item", "compare", "commit"}, form : F!Parts,
           name : Name \cup {<<>>}, seen : Value \cup {NoRow, Garbled}, draft : F!Parts]

(* Two drafts say the same about a name. *)
Agree(f, g, n) == /\ n \in DOMAIN f <=> n \in DOMAIN g
                  /\ n \in DOMAIN g => f[n] = g[n]

LEMMA IdleIsRecord == F!Idle \in Record /\ F!Idle.pc = "idle" /\ F!Idle.draft = <<>>
BY IdleTyped DEF F!Idle, Record

(* A step that changes one form, and what it has written to names that     *)
(* everybody misses.                                                       *)
LEMMA OneForm ==
  ASSUME F!SettingsInv, NEW e \in Editor, NEW f \in Record,
         editor' = [editor EXCEPT ![e] = f],
         f.pc = "idle" => f.draft = <<>>,
         f.pc = "compare" => f.name \in DOMAIN f.form,
         UNCHANGED <<row, state, memory, inbox>>,
         missed' \in [Process -> SUBSET Name],
         \A p \in Process : missed[p] \subseteq missed'[p],
         \A p \in Process, n \in Name :
           n \notin missed'[p] => Agree(f.draft, editor[e].draft, n)
  PROVE  F!SettingsInv'
<1>1. editor \in [Editor -> Record] /\ F!TypeOK /\ F!FormsAreSound
  BY DEF F!SettingsInv, F!TypeOK, Record
<1>2. F!TypeOK'
  BY <1>1 DEF F!TypeOK, Record
<1>3. F!FormsAreSound'
  BY <1>1 DEF F!FormsAreSound
<1>4. \A d \in Editor : editor'[d] = IF d = e THEN f ELSE editor[d]
  BY <1>1
<1>5. ASSUME NEW p \in Process, NEW n \in Name, n \notin missed'[p]
      PROVE  F!Latest(n)' = F!Latest(n)
  <2>1. \A d \in Editor : n \in DOMAIN editor'[d].draft <=> n \in DOMAIN editor[d].draft
    BY <1>4, <1>5 DEF Agree
  <2>2. \A d \in Editor : n \in DOMAIN editor[d].draft
                             => editor'[d].draft[n] = editor[d].draft[n]
    BY <1>4, <1>5 DEF Agree
  <2>3. F!Locked(n)' = F!Locked(n) /\ F!Effective(n)' = F!Effective(n)
    BY <2>1 DEF F!Locked, F!Effective
  <2> QED
    BY <2>1, <2>2, <2>3 DEF F!Latest
<1> QED
  BY <1>2, <1>3, <1>5, SilentStep

LEMMA FormTyped ==
  ASSUME F!SettingsInv, NEW e \in Editor
  PROVE  /\ editor[e] \in Record /\ editor \in [Editor -> Record]
         /\ editor[e].pc = "idle" => editor[e].draft = <<>>
         /\ missed \in [Process -> SUBSET Name]
         /\ F!Rest(e) \in F!Parts
         /\ editor[e].pc = "compare" => /\ editor[e].name \in DOMAIN editor[e].form
                                        /\ editor[e].name \in Name
                                        /\ editor[e].form[editor[e].name] \in Value
<1>1. /\ editor[e] \in Record /\ missed \in [Process -> SUBSET Name]
      /\ editor \in [Editor -> Record]
      /\ editor[e].pc = "idle" => editor[e].draft = <<>>
  BY DEF F!SettingsInv, F!TypeOK, F!FormsAreSound, Record
<1>2. editor[e].form \in F!Parts
  BY <1>1 DEF Record
<1>3. F!Rest(e) \in F!Parts
  BY <1>2, PartTyped DEF F!Rest
<1>4. editor[e].pc = "compare" => editor[e].name \in DOMAIN editor[e].form
  BY DEF F!SettingsInv, F!FormsAreSound
<1> QED
  BY <1>1, <1>2, <1>3, <1>4, PartTyped

LEMMA FillInv ==
  ASSUME F!SettingsInv, NEW e \in Editor, F!Send(e) \/ F!Look(e) \/ F!Skip(e)
  PROVE  F!SettingsInv'
<1>0. /\ editor[e] \in Record /\ editor \in [Editor -> Record] /\ F!TypeOK
      /\ editor[e].pc = "idle" => editor[e].draft = <<>>
      /\ missed \in [Process -> SUBSET Name] /\ F!Rest(e) \in F!Parts
  BY FormTyped DEF F!SettingsInv
<1>1. CASE F!Send(e)
  <2>1. PICK form \in F!Forms : editor' = [editor EXCEPT ![e] = [F!Idle EXCEPT
                                !.pc = "item", !.form = form]]
    BY <1>1 DEF F!Send
  <2> DEFINE f == [F!Idle EXCEPT !.pc = "item", !.form = form]
  <2>2. form \in F!Parts
    BY DEF F!Forms, F!Parts
  <2>3. editor[e].pc = "idle" /\ UNCHANGED <<row, state, memory, inbox, missed>>
    BY <1>1 DEF F!Send
  <2>4. f \in Record /\ f.pc = "item" /\ f.draft = <<>>
    BY <2>2, IdleIsRecord DEF Record
  <2>5. f.draft = editor[e].draft
    BY <1>0, <2>3, <2>4
  <2> HIDE DEF f
  <2> QED
    BY <1>0, <2>1, <2>3, <2>4, <2>5, OneForm DEF f, Agree
<1>2. CASE F!Look(e)
  <2>1. PICK n \in DOMAIN editor[e].form :
          editor' = [editor EXCEPT
            ![e].name = n, ![e].seen = row[n],
            ![e].pc = IF row[n] = Garbled THEN "commit" ELSE "compare"]
    BY <1>2 DEF F!Look
  <2> DEFINE f == [editor[e] EXCEPT !.name = n, !.seen = row[n],
                     !.pc = IF row[n] = Garbled THEN "commit" ELSE "compare"]
  <2>2. n \in Name
    BY <1>0, PartTyped DEF Record
  <2>3. row[n] \in Value \cup {NoRow, Garbled}
    BY <1>0, <2>2 DEF F!TypeOK
  <2>4. f \in Record /\ f.draft = editor[e].draft
        /\ f.form = editor[e].form /\ f.name = n /\ f.pc # "idle"
    BY <1>0, <2>2, <2>3 DEF Record
  <2>5. editor' = [editor EXCEPT ![e] = f]
    BY <1>0, <2>1
  <2>6. UNCHANGED <<row, state, memory, inbox, missed>>
    BY <1>2 DEF F!Look
  <2> HIDE DEF f
  <2> QED
    BY <1>0, <2>4, <2>5, <2>6, OneForm DEF Agree
<1>3. CASE F!Skip(e)
  <2> DEFINE f == [editor[e] EXCEPT !.form = F!Rest(e),
                     !.pc = IF F!Rest(e) = <<>> THEN "commit" ELSE "item"]
  <2>1. f \in Record /\ f.draft = editor[e].draft /\ f.pc \notin {"idle", "compare"}
    BY <1>0 DEF Record
  <2>2. editor' = [editor EXCEPT ![e] = f]
    BY <1>0, <1>3 DEF F!Skip
  <2>3. UNCHANGED <<row, state, memory, inbox, missed>>
    BY <1>3 DEF F!Skip
  <2> HIDE DEF f
  <2> QED
    BY <1>0, <2>1, <2>2, <2>3, OneForm DEF Agree
<1> QED
  BY <1>1, <1>2, <1>3

(* A form that fails or is rejected: what it has written is missed.        *)
LEMMA UndoInv ==
  ASSUME F!SettingsInv, NEW e \in Editor, F!Undo(e) PROVE F!SettingsInv'
<1>0. /\ editor[e] \in Record /\ F!TypeOK /\ missed \in [Process -> SUBSET Name]
      /\ DOMAIN editor[e].draft \in SUBSET Name
  BY FormTyped, PartTyped DEF F!SettingsInv, Record
<1>1. /\ editor' = [editor EXCEPT ![e] = F!Idle]
      /\ missed' = [p \in Process |-> missed[p] \cup DOMAIN editor[e].draft]
      /\ UNCHANGED <<row, state, memory, inbox>>
  BY DEF F!Undo
<1>2. missed' \in [Process -> SUBSET Name] /\ \A p \in Process : missed[p] \subseteq missed'[p]
  BY <1>0, <1>1
<1>3. \A p \in Process, n \in Name :
        n \notin missed'[p] => Agree(F!Idle.draft, editor[e].draft, n)
  BY <1>0, <1>1, IdleTyped DEF Agree
<1> QED
  BY <1>1, <1>2, <1>3, IdleIsRecord, OneForm

(* What is written and not published is missed. *)
LEMMA PublishFailsInv ==
  ASSUME F!SettingsInv, NEW e \in Editor, F!PublishFails(e) PROVE F!SettingsInv'
<1> DEFINE n == editor[e].name
           v == editor[e].form[n]
           old == editor[e].draft
           draft == [m \in DOMAIN old \cup {n} |-> IF m = n THEN v ELSE old[m]]
           f == [editor[e] EXCEPT !.draft = draft, !.pc = "commit"]
<1>0. /\ editor[e] \in Record /\ editor \in [Editor -> Record] /\ F!TypeOK
      /\ missed \in [Process -> SUBSET Name] /\ n \in Name /\ v \in Value
  BY FormTyped DEF F!PublishFails, F!Differs, F!SettingsInv
<1>1. /\ editor' = [editor EXCEPT ![e].draft = draft, ![e].pc = "commit"]
      /\ missed' = [p \in Process |-> missed[p] \cup {n}]
      /\ UNCHANGED <<row, state, memory, inbox>>
  BY <1>0 DEF F!PublishFails, Record
<1>2. draft \in F!Parts
  BY <1>0, PartTyped DEF Record
<1>3. DOMAIN draft = DOMAIN old \cup {n} /\ \A m \in DOMAIN old \ {n} : draft[m] = old[m]
  OBVIOUS
<1> HIDE DEF draft
<1>4. f \in Record /\ f.pc = "commit" /\ f.draft = draft
  BY <1>0, <1>2 DEF Record
<1>5. editor' = [editor EXCEPT ![e] = f]
  BY <1>0, <1>1
<1>6. missed' \in [Process -> SUBSET Name] /\ \A p \in Process : missed[p] \subseteq missed'[p]
  BY <1>0, <1>1
<1>7. \A p \in Process, m \in Name : m \notin missed'[p] => Agree(draft, old, m)
  BY <1>0, <1>1, <1>3 DEF Agree
<1> HIDE DEF f
<1> QED
  BY <1>1, <1>4, <1>5, <1>6, <1>7, OneForm

(* What a form wrote becomes the row: it was the latest value before.      *)
LEMMA CommitInv ==
  ASSUME F!SettingsAssumption, F!SettingsInv, NEW e \in Editor, F!Commit(e) PROVE F!SettingsInv'
<1> DEFINE draft == editor[e].draft
<1>0. /\ editor[e] \in Record /\ editor \in [Editor -> Record] /\ F!TypeOK /\ F!FormsAreSound
      /\ DOMAIN draft \in SUBSET Name /\ \A n \in DOMAIN draft : draft[n] \in Value
  BY FormTyped, PartTyped DEF F!SettingsInv, Record
<1>1. /\ row' = [n \in Name |-> IF n \in DOMAIN draft THEN draft[n] ELSE row[n]]
      /\ editor' = [editor EXCEPT ![e] = F!Idle]
      /\ UNCHANGED <<state, memory, inbox, missed>>
  BY DEF F!Commit
<1> HIDE DEF draft
<1>2. F!TypeOK'
  <2>1. row' \in [Name -> Value \cup {NoRow, Garbled}]
    BY <1>0, <1>1 DEF F!TypeOK
  <2>2. editor' \in [Editor -> Record]
    BY <1>0, <1>1, IdleIsRecord
  <2> QED
    BY <1>0, <1>1, <2>1, <2>2 DEF F!TypeOK, Record
<1>3. \A d \in Editor : editor'[d] = IF d = e THEN F!Idle ELSE editor[d]
  BY <1>0, <1>1
<1>4. F!FormsAreSound'
  BY <1>0, <1>3, IdleIsRecord DEF F!FormsAreSound
<1>5. ASSUME NEW n \in Name, NEW v \in F!Latest(n)' PROVE v \in F!Latest(n)
  <2>1. DOMAIN F!Idle.draft = {}
    BY IdleTyped
  <2>2. CASE \E d \in Editor : n \in DOMAIN editor'[d].draft /\ v = editor'[d].draft[n]
    <3>1. PICK d \in Editor : n \in DOMAIN editor'[d].draft /\ v = editor'[d].draft[n]
      BY <2>2
    <3>2. n \in DOMAIN editor[d].draft /\ v = editor[d].draft[n]
      BY <1>3, <2>1, <3>1
    <3> QED
      BY <3>2 DEF F!Latest
  <2>3. CASE ~F!Locked(n)' /\ v = F!Effective(n)'
    <3>1. CASE n \in DOMAIN draft
      <4>1. v = draft[n]
        BY <1>0, <1>1, <2>3, <3>1, F!SettingsAssumption DEF F!Effective
      <4> QED
        BY <3>1, <4>1 DEF F!Latest, draft
    <3>2. CASE n \notin DOMAIN draft
      <4>1. F!Effective(n)' = F!Effective(n)
        BY <1>1, <3>2 DEF F!Effective
      <4>2. ~F!Locked(n)
        BY <1>3, <2>3, <3>2 DEF F!Locked, draft
      <4> QED
        BY <2>3, <4>1, <4>2 DEF F!Latest
    <3> QED
      BY <3>1, <3>2
  <2> QED
    BY <1>5, <2>2, <2>3 DEF F!Latest
<1> QED
  BY <1>1, <1>2, <1>4, <1>5, SilentStep

LEMMA DeleteInv ==
  ASSUME F!SettingsInv, NEW k \in Name, F!Delete(k) PROVE F!SettingsInv'
<1>1. /\ row' = [row EXCEPT ![k] = NoRow] /\ UNCHANGED <<editor, state, memory, inbox>>
      /\ missed' = [p \in Process |-> missed[p] \cup {k}] /\ F!TypeOK /\ F!FormsAreSound
  BY DEF F!Delete, F!SettingsInv
<1>2. F!TypeOK' /\ F!FormsAreSound'
  BY <1>1 DEF F!TypeOK, F!FormsAreSound
<1>3. ASSUME NEW p \in Process, NEW n \in Name, n \notin missed'[p]
      PROVE  F!Latest(n)' = F!Latest(n)
  <2>1. row'[n] = row[n]
    BY <1>1, <1>3 DEF F!TypeOK
  <2> QED
    BY <1>1, <2>1 DEF F!Latest, F!Locked, F!Effective
<1> QED
  BY <1>1, <1>2, <1>3, SilentStep

(* A saved item is published before it is committed: from here on its      *)
(* value is the latest of the name, and the last message of every queue.   *)
LEMMA SaveInv ==
  ASSUME F!SettingsInv, NEW e \in Editor, F!Save(e) PROVE F!SettingsInv'
<1>a. /\ editor[e] \in Record /\ editor \in [Editor -> Record] /\ F!TypeOK
      /\ F!Rest(e) \in F!Parts /\ missed \in [Process -> SUBSET Name]
      /\ editor[e].name \in Name /\ editor[e].form[editor[e].name] \in Value
  BY FormTyped DEF F!Save, F!Differs, F!SettingsInv
<1>b. PICK n \in Name, v \in Value : n = editor[e].name /\ v = editor[e].form[n]
  BY <1>a
<1> DEFINE old == editor[e].draft
           draft == [m \in DOMAIN old \cup {n} |-> IF m = n THEN v ELSE old[m]]
           f == [editor[e] EXCEPT !.draft = draft, !.form = F!Rest(e),
                   !.pc = IF F!Rest(e) = <<>> THEN "commit" ELSE "item"]
<1>0. /\ editor[e] \in Record /\ editor \in [Editor -> Record] /\ F!TypeOK
      /\ F!Rest(e) \in F!Parts /\ missed \in [Process -> SUBSET Name]
      /\ n \in Name /\ v \in Value /\ ~F!Locked(n)
  BY <1>a, <1>b DEF F!Save
<1>1. /\ editor' = [editor EXCEPT ![e].draft = draft, ![e].form = F!Rest(e),
                      ![e].pc = IF F!Rest(e) = <<>> THEN "commit" ELSE "item"]
      /\ F!Publish(n, v) /\ UNCHANGED <<row, state, memory>>
  BY <1>0, <1>b DEF F!Save, Record
<1>2. draft \in F!Parts
  BY <1>0, PartTyped DEF Record
<1>3. /\ DOMAIN draft = DOMAIN old \cup {n} /\ draft[n] = v
      /\ \A m \in DOMAIN old \ {n} : draft[m] = old[m]
  OBVIOUS
<1> HIDE DEF draft
<1>4. f \in Record /\ f.pc \notin {"idle", "compare"} /\ f.draft = draft
  BY <1>0, <1>2 DEF Record
<1>5. editor' = [editor EXCEPT ![e] = f]
  BY <1>0, <1>1
<1> HIDE DEF f
<1>6. \A d \in Editor : editor'[d] = IF d = e THEN f ELSE editor[d]
  BY <1>0, <1>5
<1>7. \A p \in Process :
        /\ inbox'[p] = IF state[p] = "listening"
                       THEN Append(inbox[p], [name |-> n, value |-> v]) ELSE inbox[p]
        /\ missed'[p] = IF state[p] = "listening" THEN missed[p] \ {n} ELSE missed[p] \cup {n}
  BY <1>1 DEF F!Publish, F!Listening
<1> HIDE DEF old
<1>8. F!TypeOK'
  <2>1. editor' \in [Editor -> Record]
    BY <1>0, <1>4, <1>5
  <2>2. missed' \in [Process -> SUBSET Name]
    BY <1>0, <1>1, <1>7 DEF F!Publish
  <2>3. \A p \in Process : inbox'[p] \in Seq(F!Message)
    <3> TAKE p \in Process
    <3>1. inbox[p] \in Seq(F!Message) /\ [name |-> n, value |-> v] \in F!Message
      BY <1>0 DEF F!TypeOK, F!Message
    <3>2. Append(inbox[p], [name |-> n, value |-> v]) \in Seq(F!Message)
      BY <3>1
    <3> QED
      BY <1>7, <3>1, <3>2
  <2>4. inbox' \in [Process -> Seq(F!Message)]
    BY <1>1, <2>3 DEF F!Publish
  <2> QED
    BY <1>0, <1>1, <2>1, <2>2, <2>4 DEF F!TypeOK, Record
<1>9. F!FormsAreSound'
  BY <1>4, <1>6 DEF F!SettingsInv, F!FormsAreSound
<1>10. F!OnlyListenersAreTold' /\ F!BootsFromDefaults'
  BY <1>1, <1>7 DEF F!SettingsInv, F!OnlyListenersAreTold, F!BootsFromDefaults
<1>11. \A w \in F!Latest(n)' : w = v
  <2>1. F!Locked(n)'
    BY <1>3, <1>4, <1>6 DEF F!Locked
  <2>2. ASSUME NEW d \in Editor, n \in DOMAIN editor'[d].draft PROVE editor'[d].draft[n] = v
    BY <1>0, <1>3, <1>4, <1>6, <2>2 DEF F!Locked
  <2> QED
    BY <2>1, <2>2 DEF F!Latest
<1>12. ASSUME NEW m \in Name, m # n PROVE F!Latest(m)' = F!Latest(m)
  <2>1. \A d \in Editor : Agree(editor'[d].draft, editor[d].draft, m)
    BY <1>3, <1>4, <1>6, <1>12 DEF Agree, old
  <2>2. F!Locked(m)' = F!Locked(m) /\ F!Effective(m)' = F!Effective(m)
    BY <1>1, <2>1 DEF Agree, F!Locked, F!Effective
  <2> QED
    BY <2>1, <2>2 DEF F!Latest, Agree
<1>13. F!HoldsTheLatest'
  <2> SUFFICES ASSUME NEW p \in Process, NEW m \in Name, (state[p] \notin {"down", "booted"})',
                      (m \notin missed[p])', NEW w \in F!Latest(m)'
               PROVE  F!Settles(inbox[p], memory[p][m], m, w)'
    BY DEF F!HoldsTheLatest
  <2>1. CASE m = n
    <3>1. state[p] = "listening" /\ w = v
      BY <1>7, <1>11, <2>1
    <3>2. inbox[p] \in Seq(F!Message) /\ n \in Name /\ v \in Value
      BY <1>0 DEF F!TypeOK
    <3>3. F!Settles(Append(inbox[p], [name |-> n, value |-> v]), memory[p][n], n, v)
      BY <3>2, PublishSettles
    <3> QED
      BY <1>1, <1>7, <2>1, <3>1, <3>3
  <2>2. CASE m # n
    <3>1. m \notin missed[p] /\ w \in F!Latest(m)
      BY <1>7, <1>12, <2>2
    <3>2. F!Settles(inbox[p], memory[p][m], m, w)
      BY <1>1, <3>1 DEF F!SettingsInv, F!HoldsTheLatest
    <3>3. inbox[p] \in Seq(F!Message) /\ n \in Name /\ v \in Value
      BY <1>0 DEF F!TypeOK
    <3>4. F!Settles(Append(inbox[p], [name |-> n, value |-> v]), memory[p][m], m, w)
      BY <2>2, <3>2, <3>3, PublishSettles
    <3> QED
      BY <1>1, <1>7, <3>2, <3>4
  <2> QED
    BY <2>1, <2>2
<1> QED
  BY <1>8, <1>9, <1>10, <1>13 DEF F!SettingsInv

-----------------------------------------------------------------------------
(* The invariant and what it shows *)

(* Every step keeps what each process will hold equal to the latest value  *)
(* of each name that it has not missed (the settings channel, refresh and  *)
(* the forms of the system settings).                                      *)
THEOREM SettingsInvariance == ASSUME F!SettingsAssumption PROVE F!Spec => []F!SettingsInv
<1>1. F!SettingsInv /\ [F!Next]_(F!vars) => F!SettingsInv'
  <2> SUFFICES ASSUME F!SettingsInv, [F!Next]_(F!vars) PROVE F!SettingsInv'
    OBVIOUS
  <2>1. ASSUME NEW p \in Process, F!Run(p) PROVE F!SettingsInv'
    BY <2>1, BootInv, RefreshInv, SubscribeInv, HandleInv DEF F!Run
  <2>2. ASSUME NEW p \in Process, \/ F!SubscribeFails(p) \/ F!HandleFails(p)
                                  \/ F!LoseConnection(p) \/ F!Crash(p)
        PROVE  F!SettingsInv'
    BY <2>2, SubscribeInv, HandleFailsInv, LoseConnectionInv, ProcessCrashInv
  <2>3. ASSUME NEW e \in Editor, F!Send(e) \/ F!Fill(e) \/ F!PublishFails(e) \/ F!Abort(e)
        PROVE  F!SettingsInv'
    BY <2>3, FillInv, SaveInv, CommitInv, PublishFailsInv, UndoInv DEF F!Fill, F!Reject, F!Abort
  <2>4. ASSUME NEW n \in Name, F!Delete(n) PROVE F!SettingsInv'
    BY <2>4, DeleteInv
  <2>5. CASE UNCHANGED F!vars
    BY <2>5 DEF F!vars, F!SettingsInv, F!TypeOK, F!FormsAreSound, F!OnlyListenersAreTold,
                F!BootsFromDefaults, F!HoldsTheLatest, F!Latest, F!Locked, F!Effective, F!Settles
  <2> QED
    BY <2>1, <2>2, <2>3, <2>4, <2>5 DEF F!Next
<1> QED
  BY InitInv, <1>1, PTL DEF F!Spec

(* With nothing left to handle and no form open on the name, what the      *)
(* process will hold is what it holds, and the latest value is the row's.  *)
THEOREM NothingStale == ASSUME F!SettingsAssumption PROVE F!Spec => []F!StaleOnlyIfMissed
<1>1. F!SettingsInv => F!StaleOnlyIfMissed
  <2> SUFFICES ASSUME F!SettingsInv, NEW p \in Process, NEW n \in Name,
                      F!Quiet(p, n), n \notin missed[p]
               PROVE  memory[p][n] = F!Effective(n)
    BY DEF F!StaleOnlyIfMissed
  <2>1. F!Effective(n) \in F!Latest(n)
    BY DEF F!Quiet, F!Latest
  <2>2. F!Settles(inbox[p], memory[p][n], n, F!Effective(n))
    BY <2>1 DEF F!SettingsInv, F!HoldsTheLatest, F!Quiet
  <2>3. inbox[p] \in Seq(F!Message)
    BY DEF F!SettingsInv, F!TypeOK
  <2> QED
    BY <2>2, <2>3, QuietSettles DEF F!Quiet
<1> QED
  BY SettingsInvariance, <1>1, PTL

===============================================================================
