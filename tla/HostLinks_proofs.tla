--------------------------- MODULE HostLinks_proofs ---------------------------
(* Machine-checked proofs about HostLinks and, at the end, PlatformRow, for  *)
(* every value of their constants.                                           *)
EXTENDS HostLinks, FiniteSetTheorems, TLAPS

-----------------------------------------------------------------------------
(* Helpers *)

(* What is parsed and not written is one item or none. *)
LEMMA OneItem ==
  ASSUME NEW S, NEW x \in S
  PROVE  /\ {} \subseteq S /\ Cardinality({}) <= 1
         /\ {x} \subseteq S /\ Cardinality({x}) <= 1
<1>1. Cardinality({}) = 0 /\ Cardinality({x}) = 1
  BY FS_EmptySet, FS_Singleton
<1> QED
  BY <1>1

LEMMA NoItem ==
  ASSUME NEW S
  PROVE  {} \subseteq S /\ Cardinality({}) <= 1
BY FS_EmptySet

(* The lookup by name finds the one host whose row has the name. *)
LEMMA FoundOne ==
  ASSUME TypeOK, LookupIsUnambiguous, NEW h \in Host, Known(h)
  PROVE  Found({name[h]}) = {h}
BY DEF Found, Known, LookupIsUnambiguous

LEMMA FoundAll ==
  ASSUME TypeOK, LookupIsUnambiguous, NEW hs \in SUBSET Host, \A h \in hs : Known(h)
  PROVE  Found({name[h] : h \in hs}) = hs
BY DEF Found, Known, LookupIsUnambiguous

-----------------------------------------------------------------------------
(* The invariant *)

LEMMA InvInit == Init => HostLinksInv
<1> SUFFICES ASSUME Init PROVE HostLinksInv
  OBVIOUS
<1>1. 0 \in 0..MaxMoves
  BY BoundAssumption
<1> QED
  BY <1>1, NoItem, NoneAssumption DEF Init, HostLinksInv, TypeOK, Named, LookupIsUnambiguous,
     MountedHostsAreThere

(* Each action keeps the types. *)
LEMMA TypePreserved ==
  ASSUME HostLinksInv, Next
  PROVE  TypeOK'
<1> USE DEF HostLinksInv, TypeOK, Named
<1>1. ASSUME NEW h \in Host, ParseHost(h) PROVE TypeOK'
  <2>1. [host |-> h, name |-> name[h]] \in [host : Host, name : Name]
    BY <1>1 DEF ParseHost
  <2> QED
    BY <1>1, <2>1, OneItem DEF ParseHost
<1>2. ASSUME NEW v \in Vm, ParseVm(v) PROVE TypeOK'
  <2> DEFINE n == IF runs[v] = None THEN None ELSE name[runs[v]]
  <2>1. [vm |-> v, name |-> n] \in [vm : Vm, name : Named]
    OBVIOUS
  <2> QED
    BY <1>2, <2>1, OneItem DEF ParseVm
<1>3. ASSUME NEW d \in Store, ParseStore(d) PROVE TypeOK'
  <2>1. {name[h] : h \in mounts[d]} \subseteq Name
    BY DEF MountedHostsAreThere
  <2>2. [store |-> d, name |-> storeName[d], names |-> {name[h] : h \in mounts[d]}]
          \in [store : Store, name : StoreName, names : SUBSET Name]
    BY <2>1
  <2> QED
    BY <1>3, <2>2, OneItem DEF ParseStore
<1>4. CASE WriteHost
  BY <1>4, NoItem DEF WriteHost
<1>5. CASE WriteVm
  <2>1. PICK i \in vmItem : /\ link' \in [Vm -> Host \cup {None}]
                            /\ Marked(i.vm, VmCurrent(i))
    BY <1>5 DEF WriteVm, Found
  <2>2. right' \subseteq Vm \cup Store
    BY <2>1 DEF Marked
  <2> QED
    BY <1>5, <2>1, <2>2, NoItem DEF WriteVm
<1>6. CASE WriteStore
  <2>1. PICK i \in storeItem : shares' \in [StoreName -> SUBSET Host] /\ StoreMarked(i)
    BY <1>6 DEF WriteStore, Found
  <2>2. right' \subseteq Vm \cup Store
    BY <2>1 DEF StoreMarked
  <2> QED
    BY <1>6, <2>1, <2>2, NoItem DEF WriteStore
<1>m. moves < MaxMoves => moves + 1 \in 0..MaxMoves
  BY BoundAssumption
<1>7. ASSUME NEW h \in Host, HostChanges(h) PROVE TypeOK'
  BY <1>7, <1>m DEF HostChanges
<1>8. ASSUME NEW v \in Vm, VmMoves(v) PROVE TypeOK'
  BY <1>8, <1>m DEF VmMoves
<1>9. ASSUME NEW d \in Store, MountsChange(d) PROVE TypeOK'
  BY <1>9, <1>m DEF MountsChange
<1>10. ASSUME NEW d \in Store, StoreRenamed(d) PROVE TypeOK'
  BY <1>10, <1>m DEF StoreRenamed
<1> QED
  BY <1>1, <1>2, <1>3, <1>4, <1>5, <1>6, <1>7, <1>8, <1>9, <1>10 DEF Next

(* The unique names of virt_host keep the lookup unambiguous. *)
LEMMA LookupPreserved ==
  ASSUME HostLinksInv, Next
  PROVE  LookupIsUnambiguous'
<1>1. CASE WriteHost
  <2>1. PICK i \in hostItem :
          rows' = IF \E g \in Host \ {i.host} : rows[g] = i.name
                  THEN rows ELSE [rows EXCEPT ![i.host] = i.name]
    BY <1>1 DEF WriteHost
  <2> QED
    BY <2>1 DEF HostLinksInv, TypeOK, LookupIsUnambiguous
<1>2. CASE UNCHANGED rows
  BY <1>2 DEF HostLinksInv, LookupIsUnambiguous
<1> QED
  BY <1>1, <1>2 DEF Next, ParseHost, ParseVm, ParseStore, WriteVm, WriteStore,
                    HostChanges, VmMoves, MountsChange, StoreRenamed

(* A host is removed only when no datastore is mounted on it. *)
LEMMA MountsPreserved ==
  ASSUME HostLinksInv, Next
  PROVE  MountedHostsAreThere'
<1> USE DEF HostLinksInv, TypeOK, MountedHostsAreThere
<1>1. ASSUME NEW h \in Host, HostChanges(h) PROVE MountedHostsAreThere'
  BY <1>1 DEF HostChanges
<1>2. ASSUME NEW d \in Store, MountsChange(d) PROVE MountedHostsAreThere'
  BY <1>2 DEF MountsChange
<1>3. CASE UNCHANGED <<name, mounts>>
  BY <1>3
<1> QED
  BY <1>1, <1>2, <1>3 DEF Next, ParseHost, ParseVm, ParseStore, WriteHost, WriteVm, WriteStore,
                          VmMoves, StoreRenamed

LEMMA InvNext == HostLinksInv /\ [Next]_vars => HostLinksInv'
<1> SUFFICES ASSUME HostLinksInv, [Next]_vars PROVE HostLinksInv'
  OBVIOUS
<1>1. CASE Next
  BY <1>1, TypePreserved, LookupPreserved, MountsPreserved DEF HostLinksInv
<1>2. CASE UNCHANGED vars
  BY <1>2 DEF vars, HostLinksInv, TypeOK, LookupIsUnambiguous, MountedHostsAreThere
<1> QED
  BY <1>1, <1>2

(* Names of hosts stay unique in virt_host, whatever is renamed, replaced  *)
(* and written in between: Host.objects.get(platform, name) of             *)
(* sync_vm_to_db finds one row or none.                                    *)
THEOREM Invariance == Spec => []HostLinksInv
BY InvInit, InvNext, PTL DEF Spec

-----------------------------------------------------------------------------
(* Links of machines *)

LEMMA RightLinksNext ==
  ASSUME HostLinksInv, RightLinks, Next
  PROVE  RightLinks'
<1> USE DEF HostLinksInv, TypeOK, RightLinks
<1>1. CASE WriteVm
  <2>1. PICK i \in vmItem :
          /\ \/ i.name # None /\ \E h \in Found({i.name}) : link' = [link EXCEPT ![i.vm] = h]
             \/ (i.name = None \/ Found({i.name}) = {}) /\ link' = [link EXCEPT ![i.vm] = None]
          /\ right' = IF VmCurrent(i) THEN right \cup {i.vm} ELSE right \ {i.vm}
    BY <1>1 DEF WriteVm, Marked
  <2>2. i.vm \in Vm
    OBVIOUS
  <2>3. runs' = runs
    BY <1>1 DEF WriteVm
  <2>4. \A v \in Vm \ {i.vm} : link'[v] = link[v]
    BY <2>1
  <2>5. ASSUME VmCurrent(i) PROVE link'[i.vm] = runs[i.vm]
    <3>1. CASE runs[i.vm] = None
      BY <2>1, <2>2, <2>5, <3>1 DEF VmCurrent
    <3>2. CASE runs[i.vm] # None
      <4>1. PICK h \in Host : h = runs[i.vm]
        BY <2>2, <3>2
      <4>2. Known(h) /\ i.name = name[h] /\ i.name # None
        BY <2>5, <3>2, <4>1 DEF VmCurrent, Known
      <4>3. Found({i.name}) = {h}
        BY <4>2, FoundOne
      <4> QED
        BY <2>1, <2>2, <4>1, <4>2, <4>3
    <3> QED
      BY <3>1, <3>2
  <2> QED
    BY <2>1, <2>2, <2>3, <2>4, <2>5
<1>2. ASSUME NEW v \in Vm, VmMoves(v) PROVE RightLinks'
  BY <1>2 DEF VmMoves
<1>3. CASE WriteStore
  <2>1. PICK i \in storeItem : StoreMarked(i)
    BY <1>3 DEF WriteStore
  <2>2. right' \cap Vm \subseteq right
    BY <2>1, KindsAssumption DEF StoreMarked
  <2> QED
    BY <1>3, <2>2 DEF WriteStore
<1>4. ASSUME NEW d \in Store, MountsChange(d) PROVE RightLinks'
  BY <1>4 DEF MountsChange
<1>5. ASSUME NEW d \in Store, StoreRenamed(d) PROVE RightLinks'
  BY <1>5 DEF StoreRenamed
<1>6. CASE UNCHANGED <<link, runs, right>>
  BY <1>6
<1> QED
  BY <1>1, <1>2, <1>3, <1>4, <1>5, <1>6 DEF Next, ParseHost, ParseVm, ParseStore, WriteHost, HostChanges

(* A machine that was written from a host name the table knew is linked to *)
(* the host it runs on until it moves, whatever happens to names and rows. *)
THEOREM LinksAreRight == Spec => []RightLinks
<1>1. Init => RightLinks
  BY DEF Init, RightLinks
<1>2. HostLinksInv /\ RightLinks /\ [Next]_vars => RightLinks'
  BY RightLinksNext DEF vars, RightLinks
<1> QED
  BY <1>1, <1>2, Invariance, PTL DEF Spec

-----------------------------------------------------------------------------
(* Hosts of datastores *)

LEMMA RightSharesNext ==
  ASSUME HostLinksInv, RightShares, Next
  PROVE  RightShares'
<1> USE DEF HostLinksInv, TypeOK, RightShares
<1>1. CASE WriteStore
  <2>1. PICK i \in storeItem :
          /\ shares' = IF i.names = {} THEN shares
                       ELSE [shares EXCEPT ![i.name] = Found(i.names)]
          /\ StoreMarked(i)
    BY <1>1 DEF WriteStore
  <2>2. /\ i.store \in Store /\ i.name \in StoreName /\ mounts[i.store] \in SUBSET Host
        /\ mounts' = mounts /\ storeName' = storeName
    BY <1>1 DEF WriteStore
  <2>3. CASE i.names = {}
    BY <2>1, <2>2, <2>3 DEF StoreMarked
  <2>4. CASE i.names # {}
    <3>1. shares' = [shares EXCEPT ![i.name] = Found(i.names)]
      BY <2>1, <2>4
    <3>2. \A d \in Store \cap right' : d # i.store => d \in right /\ storeName[d] # i.name
      BY <2>1, <2>4, KindsAssumption DEF StoreMarked
    <3>3. ASSUME i.store \in right' PROVE shares'[storeName[i.store]] = mounts[i.store]
      <4>1. StoreCurrent(i)
        BY <2>1, <2>4, <3>3 DEF StoreMarked
      <4>2. Found(i.names) = mounts[i.store] /\ i.name = storeName[i.store]
        BY <2>2, <4>1, FoundAll DEF StoreCurrent
      <4> QED
        BY <2>2, <3>1, <4>2
    <3>4. ASSUME NEW d \in Store \cap right', d # i.store PROVE shares'[storeName[d]] = mounts[d]
      BY <3>1, <3>2, <3>4
    <3> QED
      BY <2>2, <3>3, <3>4
  <2> QED
    BY <2>3, <2>4
<1>2. ASSUME NEW d \in Store, MountsChange(d) PROVE RightShares'
  BY <1>2 DEF MountsChange
<1>3. CASE WriteVm
  <2>1. PICK i \in vmItem : Marked(i.vm, VmCurrent(i))
    BY <1>3 DEF WriteVm
  <2>2. right' \cap Store \subseteq right
    BY <2>1, KindsAssumption DEF Marked
  <2> QED
    BY <1>3, <2>2 DEF WriteVm
<1>4. ASSUME NEW v \in Vm, VmMoves(v) PROVE RightShares'
  BY <1>4 DEF VmMoves
<1>5. ASSUME NEW d \in Store, StoreRenamed(d) PROVE RightShares'
  BY <1>5 DEF StoreRenamed
<1>6. CASE UNCHANGED <<shares, mounts, storeName, right>>
  BY <1>6
<1> QED
  BY <1>1, <1>2, <1>3, <1>4, <1>5, <1>6 DEF Next, ParseHost, ParseVm, ParseStore, WriteHost, HostChanges

(* DataStore.hosts: a datastore written while the table knew all its hosts *)
(* has exactly these until its mounts or its name change or another one of *)
(* its name is written, which sync_datastore_to_db takes for the same.     *)
THEOREM SharesAreRight == Spec => []RightShares
<1>1. Init => RightShares
  BY DEF Init, RightShares
<1>2. HostLinksInv /\ RightShares /\ [Next]_vars => RightShares'
  BY RightSharesNext DEF vars, RightShares
<1> QED
  BY <1>1, <1>2, Invariance, PTL DEF Spec

-----------------------------------------------------------------------------
(* The platform record: machine-checked proofs about PlatformRow, for      *)
(* every value of its constants that meets its two assumptions.  MaxMoves  *)
(* and moves are renamed, since those of HostLinks are others.             *)

CONSTANTS
  Task, Probe, Patch, Label, Gone, MaxRetries, MaxChanges, MaxFaults

VARIABLES
  row, secret, up, task, probe, patch, changes, faults

P == INSTANCE PlatformRow WITH MaxMoves <- MaxChanges, moves <- changes

(* A task that runs has loaded the platform, and one that will be retried  *)
(* has a retry left.                                                       *)
SoundTask(s) ==
  /\ s \in P!TaskState
  /\ s.pc \in P!Attempt => s.copy \in P!Row
  /\ s.pc = "backoff" => s.retries < MaxRetries

PlatformRowInv == P!TypeOK /\ \A t \in Task : SoundTask(task[t])

LEMMA PlatformRowInit ==
  ASSUME P!BoundAssumption, P!GoneAssumption
  PROVE  P!Init => PlatformRowInv
<1> SUFFICES ASSUME P!Init PROVE PlatformRowInv
  OBVIOUS
<1>1. 0 \in 0..MaxRetries /\ 0 \in 0..MaxChanges /\ 0 \in 0..MaxFaults
  BY DEF P!BoundAssumption
<1>2. row \in P!Row
  BY DEF P!Init, P!Row, P!Status
<1>3. secret \in P!Secret
  BY DEF P!Init, P!Secret, P!Stored, P!Text
<1> QED
  BY <1>1, <1>2, <1>3
  DEF P!Init, PlatformRowInv, SoundTask, P!TypeOK, P!TaskState, P!Ended, P!Attempt

(* What a task puts in its record. *)
LEMMA SoundSteps ==
  ASSUME NEW s, SoundTask(s)
  PROVE  /\ \A pc \in P!Ended \cup {"backoff"} :
              (pc = "backoff" => s.retries < MaxRetries)
                => SoundTask([s EXCEPT !.pc = pc, !.copy = Gone])
         /\ \A pc \in P!Attempt, x \in P!Row : SoundTask([s EXCEPT !.pc = pc, !.copy = x])
         /\ s.pc \in P!Attempt => \A pc \in P!Attempt : SoundTask([s EXCEPT !.pc = pc])
         /\ s.retries + 1 \in 0..MaxRetries
              => SoundTask([s EXCEPT !.pc = "queued", !.retries = @ + 1])
<1>1. PICK pc0 \in P!Attempt \cup P!Ended \cup {"queued", "backoff"},
           x0 \in P!Row \cup {Gone}, n0 \in 0..MaxRetries :
        s = [pc |-> pc0, copy |-> x0, retries |-> n0]
  BY DEF SoundTask, P!TaskState
<1>2. ASSUME NEW pc
      PROVE  [s EXCEPT !.pc = pc] = [pc |-> pc, copy |-> x0, retries |-> n0]
  BY <1>1
<1>3. ASSUME NEW pc, NEW x
      PROVE  [s EXCEPT !.pc = pc, !.copy = x] = [pc |-> pc, copy |-> x, retries |-> n0]
  <2> DEFINE y == [s EXCEPT !.pc = pc]
  <2>1. y = [pc |-> pc, copy |-> x0, retries |-> n0]
    BY <1>2
  <2> HIDE DEF y
  <2>2. [y EXCEPT !.copy = x] = [pc |-> pc, copy |-> x, retries |-> n0]
    BY <2>1
  <2> QED
    BY <2>2 DEF y
<1>4. ASSUME NEW n
      PROVE  [s EXCEPT !.pc = "queued", !.retries = n]
               = [pc |-> "queued", copy |-> x0, retries |-> n]
  <2> DEFINE y == [s EXCEPT !.pc = "queued"]
  <2>1. y = [pc |-> "queued", copy |-> x0, retries |-> n0]
    BY <1>2
  <2> HIDE DEF y
  <2>2. [y EXCEPT !.retries = n] = [pc |-> "queued", copy |-> x0, retries |-> n]
    BY <2>1
  <2> QED
    BY <2>2 DEF y
<1>5. ASSUME NEW pc \in P!Attempt \cup P!Ended \cup {"queued", "backoff"},
             NEW x \in P!Row \cup {Gone}, NEW n \in 0..MaxRetries,
             pc \in P!Attempt => x \in P!Row, pc = "backoff" => n < MaxRetries
      PROVE  SoundTask([pc |-> pc, copy |-> x, retries |-> n])
  BY <1>5 DEF SoundTask, P!TaskState
<1>6. "queued" \notin P!Attempt /\ "backoff" \notin P!Attempt /\ P!Attempt \cap P!Ended = {}
  BY DEF P!Attempt, P!Ended
<1>7. ASSUME NEW pc \in P!Ended \cup {"backoff"}, pc = "backoff" => s.retries < MaxRetries
      PROVE  SoundTask([s EXCEPT !.pc = pc, !.copy = Gone])
  <2>1. pc \notin P!Attempt /\ s.retries = n0
    BY <1>1, <1>6
  <2>2. SoundTask([pc |-> pc, copy |-> Gone, retries |-> n0])
    BY <1>5, <1>7, <2>1
  <2> QED
    BY <1>3, <2>2
<1>8. ASSUME NEW pc \in P!Attempt, NEW x \in P!Row
      PROVE  SoundTask([s EXCEPT !.pc = pc, !.copy = x])
  <2>1. pc # "backoff"
    BY <1>6
  <2>2. SoundTask([pc |-> pc, copy |-> x, retries |-> n0])
    BY <1>5, <2>1
  <2> QED
    BY <1>3, <2>2
<1>9. s.pc \in P!Attempt => \A pc \in P!Attempt : SoundTask([s EXCEPT !.pc = pc])
  BY <1>1, <1>2, <1>5, <1>6 DEF SoundTask
<1>10. s.retries + 1 \in 0..MaxRetries
         => SoundTask([s EXCEPT !.pc = "queued", !.retries = @ + 1])
  <2> SUFFICES ASSUME s.retries + 1 \in 0..MaxRetries
               PROVE  SoundTask([s EXCEPT !.pc = "queued", !.retries = s.retries + 1])
    OBVIOUS
  <2> DEFINE n == s.retries + 1
  <2> HIDE DEF n
  <2>1. SoundTask([pc |-> "queued", copy |-> x0, retries |-> n])
    BY <1>5, <1>6 DEF n
  <2>2. SoundTask([s EXCEPT !.pc = "queued", !.retries = n])
    BY <1>4, <2>1
  <2> QED
    BY <2>2 DEF n
<1> QED
  BY <1>7, <1>8, <1>9, <1>10

(* Every step of a task leaves it sound. *)
LEMMA PlatformTaskNext ==
  ASSUME P!BoundAssumption, PlatformRowInv, NEW t \in Task,
         P!Trigger(t) \/ P!Step(t) \/ P!Crash(t)
  PROVE  /\ task' \in [Task -> P!TaskState]
         /\ \A u \in Task : SoundTask(task'[u])
<1>1. task \in [Task -> P!TaskState] /\ \A u \in Task : SoundTask(task[u])
  BY DEF PlatformRowInv, P!TypeOK
<1> DEFINE Leads == \E s : SoundTask(s) /\ task' = [task EXCEPT ![t] = s]
<1> HIDE DEF Leads
<1>2. ASSUME NEW pc \in P!Ended, P!Leave(t, pc) PROVE Leads
  <2>1. pc # "backoff"
    BY DEF P!Ended
  <2>2. task' = [task EXCEPT ![t] = [task[t] EXCEPT !.pc = pc, !.copy = Gone]]
    BY <1>1, <1>2 DEF P!Leave
  <2> QED
    BY <1>1, <2>1, <2>2, SoundSteps DEF Leads
<1>3. ASSUME P!Abort(t) PROVE Leads
  <2>1. CASE task[t].retries < MaxRetries
    <3>1. task' = [task EXCEPT ![t] = [task[t] EXCEPT !.pc = "backoff", !.copy = Gone]]
      BY <1>1, <1>3, <2>1 DEF P!Abort, P!Leave
    <3> QED
      BY <1>1, <2>1, <3>1, SoundSteps DEF Leads
  <2>2. CASE ~(task[t].retries < MaxRetries)
    <3>1. P!Leave(t, "failed") /\ "failed" \in P!Ended
      BY <1>3, <2>2 DEF P!Abort, P!Ended
    <3> QED
      BY <1>2, <3>1
  <2> QED
    BY <2>1, <2>2
<1>4. ASSUME NEW pc \in P!Attempt, task[t].pc \in P!Attempt, P!Goto(t, pc) PROVE Leads
  <2>1. task' = [task EXCEPT ![t] = [task[t] EXCEPT !.pc = pc]]
    BY <1>1, <1>4 DEF P!Goto
  <2> QED
    BY <1>1, <1>4, <2>1, SoundSteps DEF Leads
<1>5. Leads
  <2>1. CASE P!Trigger(t)
    <3>1. 0 \in 0..MaxRetries
      BY DEF P!BoundAssumption
    <3>2. SoundTask([pc |-> "queued", copy |-> Gone, retries |-> 0])
      BY <3>1 DEF SoundTask, P!TaskState, P!Attempt, P!Ended
    <3> QED
      BY <2>1, <3>2 DEF P!Trigger, Leads
  <2>2. CASE P!Begin(t)
    <3>1. CASE row # Gone /\ row.active
      <4>1. task' = [task EXCEPT ![t] = [task[t] EXCEPT !.pc = "client", !.copy = row]]
        BY <1>1, <2>2, <3>1 DEF P!Begin
      <4>2. row \in P!Row /\ "client" \in P!Attempt
        BY <3>1 DEF PlatformRowInv, P!TypeOK, P!Attempt
      <4> QED
        BY <1>1, <4>1, <4>2, SoundSteps DEF Leads
    <3>2. CASE ~(row # Gone /\ row.active)
      <4>1. P!Leave(t, "refused") /\ "refused" \in P!Ended
        BY <2>2, <3>2 DEF P!Begin, P!Ended
      <4> QED
        BY <1>2, <4>1
    <3> QED
      BY <3>1, <3>2
  <2>3. CASE P!MakeClient(t) \/ P!Collect(t) \/ P!MarkError(t)
    BY <1>3, <1>4, <2>3 DEF P!MakeClient, P!Collect, P!MarkError, P!Attempt
  <2>4. CASE P!SaveInfo(t) \/ P!Crash(t)
    BY <1>2, <2>4 DEF P!SaveInfo, P!Crash, P!Ended
  <2>5. CASE P!SaveInfoFails(t)
    <3> DEFINE x == [task[t].copy EXCEPT !.status = "connected"]
    <3>1. task[t].pc \in P!Attempt /\ "error" \in P!Attempt
      BY <2>5 DEF P!SaveInfoFails, P!Attempt
    <3>2. x \in P!Row
      BY <1>1, <3>1 DEF SoundTask, P!Row, P!Status
    <3>3. task' = [task EXCEPT ![t] = [task[t] EXCEPT !.pc = "error", !.copy = x]]
      BY <1>1, <2>5 DEF P!SaveInfoFails
    <3> QED
      BY <1>1, <3>1, <3>2, <3>3, SoundSteps DEF Leads
  <2>6. CASE P!MarkErrorFails(t) \/ P!Announce(t)
    BY <1>3, <2>6 DEF P!MarkErrorFails, P!Announce
  <2>7. CASE P!Retry(t)
    <3>1. task[t].retries \in 0..MaxRetries /\ task[t].retries < MaxRetries
      BY <1>1, <2>7 DEF P!Retry, SoundTask, P!TaskState
    <3>2. task[t].retries + 1 \in 0..MaxRetries
      BY <3>1 DEF P!BoundAssumption
    <3>3. task' = [task EXCEPT ![t] = [task[t] EXCEPT !.pc = "queued", !.retries = @ + 1]]
      BY <1>1, <2>7 DEF P!Retry
    <3> QED
      BY <1>1, <3>2, <3>3, SoundSteps DEF Leads
  <2> QED
    BY <2>1, <2>2, <2>3, <2>4, <2>5, <2>6, <2>7 DEF P!Step
<1>6. PICK s : SoundTask(s) /\ task' = [task EXCEPT ![t] = s]
  BY <1>5 DEF Leads
<1> QED
  BY <1>1, <1>6 DEF SoundTask

LEMMA PlatformRowNext ==
  ASSUME P!BoundAssumption, P!GoneAssumption, PlatformRowInv, [P!Next]_(P!vars)
  PROVE  PlatformRowInv'
<1> USE DEF PlatformRowInv, P!TypeOK
<1>1. ASSUME NEW x \in P!Row, NEW s \in P!Status
      PROVE  [x EXCEPT !.status = s] \in P!Row
  BY DEF P!Row
<1>2. faults < MaxFaults => faults + 1 \in 0..MaxFaults
  BY DEF P!BoundAssumption
<1>3. changes < MaxChanges => changes + 1 \in 0..MaxChanges
  BY DEF P!BoundAssumption
<1>4. ASSUME NEW t \in Task, P!Trigger(t) \/ P!Step(t) \/ P!Crash(t) PROVE PlatformRowInv'
  <2>1. row' \in P!Row \cup {Gone} /\ faults' \in 0..MaxFaults
    BY <1>1, <1>2, <1>4
    DEF P!Step, P!Trigger, P!Begin, P!MakeClient, P!Collect, P!SaveInfo, P!SaveInfoFails, P!MarkError,
      P!MarkErrorFails, P!Announce, P!Retry, P!Crash, P!Fault, P!SaveStatus, P!Status
  <2>2. UNCHANGED <<secret, up, probe, patch, changes>>
    BY <1>4
    DEF P!Step, P!Trigger, P!Begin, P!MakeClient, P!Collect, P!SaveInfo, P!SaveInfoFails, P!MarkError,
      P!MarkErrorFails, P!Announce, P!Retry, P!Crash
  <2> QED
    BY <1>4, <2>1, <2>2, PlatformTaskNext
<1>5. ASSUME NEW q \in Probe, P!StartProbe(q) \/ P!ProbeConnects(q) \/ P!EndProbe(q) PROVE PlatformRowInv'
  BY <1>1, <1>5 DEF P!StartProbe, P!ProbeConnects, P!EndProbe, P!Status
<1>6. ASSUME NEW r \in Patch, P!StartPatch(r) \/ P!EndPatch(r) PROVE PlatformRowInv'
  <2>1. ASSUME P!StartPatch(r) PROVE patch' \in [Patch -> P!Row \cup {Gone}]
    <3>1. PICK a \in BOOLEAN, l \in Label :
            patch' = [patch EXCEPT ![r] = [row EXCEPT !.active = a, !.label = l]]
      BY <2>1 DEF P!StartPatch
    <3>2. [row EXCEPT !.active = a, !.label = l] \in P!Row
      BY <2>1 DEF P!StartPatch, P!Row
    <3> QED
      BY <3>1, <3>2
  <2> QED
    BY <1>6, <2>1 DEF P!StartPatch, P!EndPatch
<1>7. CASE P!VCenterFlips \/ P!KeyChanges \/ P!Delete
  BY <1>3, <1>7 DEF P!VCenterFlips, P!KeyChanges, P!Delete, P!Secret, P!Text
<1>8. ASSUME NEW x \in P!Text, P!SetPassword(x) PROVE PlatformRowInv'
  BY <1>3, <1>8 DEF P!SetPassword, P!Secret, P!Text, P!Stored
<1>9. CASE UNCHANGED P!vars
  BY <1>9 DEF P!vars
<1> QED
  BY <1>4, <1>5, <1>6, <1>7, <1>8, <1>9 DEF P!Next

(* The columns of the platform row and the records of its writers keep     *)
(* their types, and a task counts its retries no further than max_retries, *)
(* whatever tasks, tests, edits and deletions interleave.                  *)
THEOREM PlatformRowTypes ==
  ASSUME P!BoundAssumption, P!GoneAssumption
  PROVE  P!Spec => []P!TypeOK
<1>1. P!Init => PlatformRowInv
  BY PlatformRowInit
<1>2. PlatformRowInv /\ [P!Next]_(P!vars) => PlatformRowInv'
  BY PlatformRowNext
<1>3. PlatformRowInv => P!TypeOK
  BY DEF PlatformRowInv
<1> QED
  BY <1>1, <1>2, <1>3, PTL DEF P!Spec

(* No step of a task or of a connection test undoes an edit: each saves    *)
(* the columns it owns, in the row as it is then.                          *)
LEMMA UserEditsStep ==
  ASSUME PlatformRowInv, [P!Next]_(P!vars)
  PROVE  \/ row' = row
         \/ row' = Gone
         \/ row # Gone /\ <<row'.active, row'.label>> = <<row.active, row.label>>
         \/ \E r \in Patch : patch[r] # Gone /\ patch'[r] = Gone
<1> USE DEF PlatformRowInv, P!TypeOK
<1>1. ASSUME NEW s, row # Gone, row' = [row EXCEPT !.status = s]
      PROVE  <<row'.active, row'.label>> = <<row.active, row.label>>
  BY <1>1 DEF P!Row
<1>2. ASSUME NEW t \in Task, P!SaveInfo(t) \/ P!MarkError(t)
      PROVE  row # Gone /\ <<row'.active, row'.label>> = <<row.active, row.label>>
  BY <1>1, <1>2 DEF P!SaveInfo, P!MarkError, P!SaveStatus
<1>3. ASSUME NEW t \in Task, P!Trigger(t) \/ P!Step(t) \/ P!Crash(t)
      PROVE  row' = row \/ P!SaveInfo(t) \/ P!MarkError(t)
  BY <1>3
  DEF P!Step, P!Trigger, P!Begin, P!MakeClient, P!Collect, P!SaveInfoFails,
    P!MarkErrorFails, P!Announce, P!Retry, P!Crash
<1>4. ASSUME NEW q \in Probe, P!StartProbe(q) \/ P!ProbeConnects(q) \/ P!EndProbe(q)
      PROVE  \/ row' = row
             \/ row # Gone /\ <<row'.active, row'.label>> = <<row.active, row.label>>
  BY <1>1, <1>4 DEF P!StartProbe, P!ProbeConnects, P!EndProbe
<1>5. ASSUME NEW r \in Patch, P!StartPatch(r) \/ P!EndPatch(r)
      PROVE  row' = row \/ (patch[r] # Gone /\ patch'[r] = Gone)
  BY <1>5 DEF P!StartPatch, P!EndPatch
<1>6. ASSUME P!VCenterFlips \/ P!KeyChanges \/ P!Delete \/ (\E x \in P!Text \ {"foreign"} : P!SetPassword(x))
      PROVE  row' = row \/ row' = Gone
  BY <1>6 DEF P!VCenterFlips, P!KeyChanges, P!Delete, P!SetPassword
<1>7. UNCHANGED P!vars => row' = row
  BY DEF P!vars
<1> QED
  BY <1>2, <1>3, <1>4, <1>5, <1>6, <1>7 DEF P!Next

(* An action property: whatever the tasks and the tests read before a user *)
(* changed or deleted the platform, saving their columns afterwards leaves *)
(* the user's columns as they are and does not bring the row back.         *)
THEOREM UserEditsSurvive ==
  ASSUME P!BoundAssumption, P!GoneAssumption
  PROVE  P!Spec => P!UserEditsSurviveSync
<1>1. P!Init => PlatformRowInv
  BY PlatformRowInit
<1>2. PlatformRowInv /\ [P!Next]_(P!vars) => PlatformRowInv'
  BY PlatformRowNext
<1>3. PlatformRowInv /\ [P!Next]_(P!vars) =>
        [\/ row' = Gone
         \/ row # Gone /\ <<row'.active, row'.label>> = <<row.active, row.label>>
         \/ \E r \in Patch : patch[r] # Gone /\ patch'[r] = Gone]_(P!vars)
  BY UserEditsStep DEF P!vars
<1> QED
  BY <1>1, <1>2, <1>3, PTL DEF P!Spec, P!UserEditsSurviveSync
=============================================================================
