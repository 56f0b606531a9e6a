------------------------ MODULE PermissionCache_proofs ------------------------
(* Machine-checked proofs about PermissionCache, for any set of callers and *)
(* any bounds, and, in the second half, about ConfigCache.                  *)
EXTENDS PermissionCache, Sequences, TLAPS

-----------------------------------------------------------------------------
(* Types *)

LEMMA InitInv == Init => PermissionCacheInv
<1> SUFFICES ASSUME Init PROVE PermissionCacheInv
  OBVIOUS
<1>1. TypeOK
  BY BoundAssumption DEF Init, TypeOK, CallState, Data, Entry
<1> QED
  BY <1>1, BoundAssumption
     DEF Init, PermissionCacheInv, Committed, OwnsLock, EntryCurrent, MadeCurrent,
         ReadCurrent, UnfinishedIsBeingMade, Finished, Holds, Makes

(* A change of the permissions leaves the calls where they are, and no call *)
(* unaware of it that has its data already.                                *)
LEMMA MadeRacedFacts ==
  ASSUME TypeOK, call' = MadeRaced
  PROVE  /\ call' \in [Caller -> CallState]
         /\ \A c \in Caller :
              /\ call'[c].pc = call[c].pc /\ call'[c].since = call[c].since
              /\ call'[c].res = call[c].res
              /\ call'[c].pc = "made" => call'[c].raced
<1>1. ASSUME NEW c \in Caller
      PROVE  /\ call'[c] \in CallState
             /\ call'[c].pc = call[c].pc /\ call'[c].since = call[c].since
             /\ call'[c].res = call[c].res
             /\ call'[c].pc = "made" => call'[c].raced
  <2>1. PICK r \in BOOLEAN : r = ((call[c].pc = "made") \/ call[c].raced)
    BY DEF TypeOK, CallState
  <2>2. call'[c] = [call[c] EXCEPT !.raced = r]
    BY <2>1 DEF MadeRaced
  <2>3. call[c] \in CallState
    BY DEF TypeOK
  <2>4. call'[c] \in CallState
    BY <2>2, <2>3 DEF CallState
  <2>5. call'[c].raced = r /\ call'[c].pc = call[c].pc
    BY <2>2, <2>3 DEF CallState
  <2>6. call'[c].since = call[c].since /\ call'[c].res = call[c].res
    BY <2>2, <2>3 DEF CallState
  <2>7. call[c].pc = "made" => r
    BY <2>1
  <2> QED
    BY <2>4, <2>5, <2>6, <2>7
<1>2. call' = [c \in Caller |-> call'[c]]
  BY DEF MadeRaced
<1> QED
  BY <1>1, <1>2

(* Every new value of an entry or of a call's variables has its type. *)
LEMMA StepType ==
  ASSUME TypeOK, Committed, Next
  PROVE  TypeOK'
<1> USE BoundAssumption DEF TypeOK, Committed
<1>1. \A c \in Caller : call[c] \in CallState
  OBVIOUS
<1>2. db \in Data
  BY DEF Data
<1>3. ASSUME NEW c \in Caller, Enter(c) PROVE TypeOK'
  <2>1. [call[c] EXCEPT !.since = db, !.res = IF Finished(entry) THEN entry ELSE Empty,
                        !.pc = IF entry = Empty \/ Finished(entry)
                               THEN "locking" ELSE "waiting"] \in CallState
    BY <1>1 DEF CallState, Finished
  <2> QED
    BY <1>3, <2>1 DEF Enter
<1>4. ASSUME NEW c \in Caller, Step(c) PROVE TypeOK'
  <2> USE <1>1
  <2>1. CASE Poll(c)
    <3>1. [call[c] EXCEPT !.pc = "locking", !.res = entry] \in CallState
      BY <2>1 DEF Poll, CallState, Finished
    <3> QED
      BY <2>1, <3>1 DEF Poll
  <2>2. \A pc \in {"done", "holding", "making", "published"} :
          [call[c] EXCEPT !.pc = pc] \in CallState
    BY DEF CallState, Holds, Makes
  <2>3. CASE Acquire(c)
    BY <2>2, <2>3 DEF Acquire, Goto
  <2>4. CASE ReturnCached(c)
    BY <2>2, <2>4 DEF ReturnCached, Goto
  <2>5. CASE MarkReady(c)
    BY <2>2, <2>5 DEF MarkReady, Goto, Unfinished, Entry, Data
  <2>6. CASE Query(c)
    <3> DEFINE r == open > 0
    <3>1. r \in BOOLEAN
      OBVIOUS
    <3>2. call' = [call EXCEPT ![c].pc = "made", ![c].data = db, ![c].raced = r]
      BY <2>6 DEF Query
    <3> HIDE DEF r
    <3>3. [call[c] EXCEPT !.pc = "made", !.data = db, !.raced = r] \in CallState
      BY <1>1, <1>2, <3>1 DEF CallState, Holds, Makes, Data
    <3> QED
      BY <2>6, <3>2, <3>3 DEF Query
  <2>7. CASE QueryFails(c)
    <3> DEFINE r == open > 0
    <3>1. r \in BOOLEAN
      OBVIOUS
    <3>2. call' = [call EXCEPT ![c].pc = "made", ![c].data = Failed, ![c].raced = r]
      BY <2>7 DEF QueryFails
    <3> HIDE DEF r
    <3>3. [call[c] EXCEPT !.pc = "made", !.data = Failed, !.raced = r] \in CallState
      BY <1>1, <1>2, <3>1 DEF CallState, Holds, Makes, Data
    <3> QED
      BY <2>7, <3>2, <3>3 DEF QueryFails
  <2>8. CASE Publish(c)
    <3>1. [status |-> "ok", data |-> call[c].data, aged |-> FALSE,
           raced |-> call[c].raced] \in Entry
      BY DEF CallState, Entry
    <3> QED
      BY <2>2, <2>8, <3>1 DEF Publish, Goto
  <2>9. CASE Release(c)
    BY <2>2, <2>9 DEF Release, Goto
  <2> QED
    BY <1>4, <2>1, <2>3, <2>4, <2>5, <2>6, <2>7, <2>8, <2>9 DEF Step
<1>5. ASSUME NEW c \in Caller, Crash(c) PROVE TypeOK'
  <2>1. [call[c] EXCEPT !.pc = "done"] \in CallState
    BY <1>1 DEF CallState
  <2> QED
    BY <1>5, <2>1 DEF Crash, Goto
<1>6. CASE BeginEdit
  <2>1. call' \in [Caller -> CallState]
    BY <1>6, MadeRacedFacts DEF BeginEdit
  <2>2. /\ moves' = moves + 1 /\ open' = open + 1 /\ moves < MaxMoves
        /\ entry' = Empty /\ UNCHANGED <<db, lock, crashes>>
    BY <1>6 DEF BeginEdit
  <2> QED
    BY <2>1, <2>2
<1>7. CASE EndEdit
  BY <1>7 DEF EndEdit
<1>8. CASE GrowOld
  <2>1. entry \in Entry
    BY <1>8 DEF GrowOld, Finished
  <2>2. [entry EXCEPT !.aged = TRUE] \in Entry
    BY <2>1 DEF Entry
  <2> QED
    BY <1>8, <2>2 DEF GrowOld
<1>9. CASE EntryExpires
  BY <1>9 DEF EntryExpires
<1>10. CASE LockExpires
  BY <1>10 DEF LockExpires
<1>11. CASE Empower
  <2>1. call' \in [Caller -> CallState]
    BY <1>11, MadeRacedFacts DEF Empower
  <2>2. /\ moves' = moves + 1 /\ db' = db + 1 /\ moves < MaxMoves
        /\ UNCHANGED <<open, lock, crashes>>
    BY <1>11 DEF Empower
  <2>3. entry' = Empty \/ entry' \in Entry
    BY <1>11 DEF Empower, Entry
  <2> QED
    BY <2>1, <2>2, <2>3
<1> QED
  BY <1>3, <1>4, <1>5, <1>6, <1>7, <1>8, <1>9, <1>10, <1>11 DEF Next

-----------------------------------------------------------------------------
(* The invariant *)

(* The parts of the invariant that follow from the types of a call and of *)
(* the entry, used in every case below.                                   *)
LEMMA CallType ==
  ASSUME TypeOK, NEW c \in Caller
  PROVE  /\ call[c].since \in Nat
         /\ call[c].data = Failed \/ call[c].data \in Nat
         /\ call[c].res = Empty \/ call[c].res.data = Failed \/ call[c].res.data \in Nat
         /\ db \in Nat /\ open \in Nat /\ moves \in Nat
BY BoundAssumption DEF TypeOK, CallState, Entry, Data

LEMMA CommittedStep ==
  ASSUME TypeOK, Committed, Next
  PROVE  Committed'
<1> USE BoundAssumption DEF TypeOK, Committed
<1>1. ASSUME NEW c \in Caller, Enter(c) \/ Step(c) \/ Crash(c) PROVE Committed'
  BY <1>1 DEF Enter, Step, Crash, Poll, Acquire, ReturnCached, MarkReady, Query,
              QueryFails, Publish, Release
<1>2. CASE BeginEdit \/ Empower
  BY <1>2 DEF BeginEdit, Empower
<1>3. CASE EndEdit
  <2>1. db' = db \/ db' = db + 1
    BY <1>3 DEF EndEdit
  <2>2. open' = open - 1 /\ moves' = moves
    BY <1>3 DEF EndEdit
  <2>3. db \in Nat /\ open \in Nat /\ moves \in Nat /\ db + open <= moves
    OBVIOUS
  <2>4. db' + open' <= moves'
    BY <2>1, <2>2, <2>3
  <2> QED
    BY <2>4
<1>4. CASE GrowOld \/ EntryExpires \/ LockExpires
  BY <1>4 DEF GrowOld, EntryExpires, LockExpires
<1> QED
  BY <1>1, <1>2, <1>3, <1>4 DEF Next

(* The lock is taken when it is free, and only its owner frees it; a dead  *)
(* owner leaves it to nobody who calls.                                    *)
LEMMA OwnsLockStep ==
  ASSUME TypeOK, OwnsLock, Next
  PROVE  OwnsLock'
<1> USE NamesAssumption DEF OwnsLock, Holds, Makes
<1>1. ASSUME NEW c \in Caller, Enter(c) PROVE OwnsLock'
  BY <1>1 DEF Enter, TypeOK, CallState
<1>2. ASSUME NEW c \in Caller, Step(c) PROVE OwnsLock'
  BY <1>2 DEF Step, Poll, Acquire, ReturnCached, MarkReady, Query, QueryFails, Publish,
              Release, Goto, TypeOK, CallState
<1>3. ASSUME NEW c \in Caller, Crash(c) PROVE OwnsLock'
  BY <1>3 DEF Crash, Goto, TypeOK, CallState
<1>4. CASE BeginEdit \/ Empower
  BY <1>4, MadeRacedFacts DEF BeginEdit, Empower
<1>5. CASE EndEdit \/ GrowOld \/ EntryExpires \/ LockExpires
  BY <1>5 DEF EndEdit, GrowOld, EntryExpires, LockExpires
<1> QED
  BY <1>1, <1>2, <1>3, <1>4, <1>5 DEF Next

(* What the cache says without an edit or a failure in its history is what *)
(* is committed: an edit that begins deletes it, and none that was already *)
(* open can be still unknown to it.                                        *)
LEMMA EntryCurrentStep ==
  ASSUME TypeOK, EntryCurrent, MadeCurrent, Next
  PROVE  EntryCurrent'
<1> USE NamesAssumption DEF EntryCurrent, Finished, Known
<1>1. ASSUME NEW c \in Caller, Enter(c) \/ Crash(c) PROVE EntryCurrent'
  BY <1>1 DEF Enter, Crash
<1>2. ASSUME NEW c \in Caller, Step(c) PROVE EntryCurrent'
  <2>1. CASE Publish(c)
    <3>1. call[c].pc = "made" /\ entry'.data = call[c].data /\ entry'.raced = call[c].raced
      BY <2>1 DEF Publish
    <3>2. UNCHANGED <<db, open>>
      BY <2>1 DEF Publish
    <3> QED
      BY <3>1, <3>2 DEF MadeCurrent
  <2>2. CASE ~Publish(c)
    BY <1>2, <2>2 DEF Step, Poll, Acquire, ReturnCached, MarkReady, Query, QueryFails,
                      Release, Unfinished
  <2> QED
    BY <2>1, <2>2
<1>3. CASE BeginEdit \/ Empower
  BY <1>3 DEF BeginEdit, Empower, TypeOK, Entry
<1>4. CASE EndEdit
  BY <1>4 DEF EndEdit, TypeOK
<1>5. CASE GrowOld
  BY <1>5 DEF GrowOld, TypeOK, Entry
<1>6. CASE EntryExpires \/ LockExpires
  BY <1>6 DEF EntryExpires, LockExpires
<1> QED
  BY <1>1, <1>2, <1>3, <1>4, <1>5, <1>6 DEF Next

(* The same for the data of a call between its query and their publication. *)
LEMMA MadeCurrentStep ==
  ASSUME TypeOK, MadeCurrent, Next
  PROVE  MadeCurrent'
<1> USE DEF MadeCurrent, Known
<1>0. /\ \A c \in Caller : call[c] \in CallState
      /\ open \in Nat
  BY BoundAssumption DEF TypeOK
<1>1. ASSUME NEW c \in Caller, Enter(c) PROVE MadeCurrent'
  BY <1>0, <1>1 DEF Enter, TypeOK, CallState
<1>2. ASSUME NEW c \in Caller, Step(c) PROVE MadeCurrent'
  <2>1. CASE Query(c)
    BY <1>0, <2>1 DEF Query, TypeOK, CallState
  <2>2. CASE QueryFails(c)
    BY <1>0, <2>2 DEF QueryFails, TypeOK, CallState
  <2>3. CASE Poll(c) \/ Acquire(c) \/ ReturnCached(c) \/ MarkReady(c) \/ Publish(c) \/ Release(c)
    BY <1>0, <2>3 DEF Poll, Acquire, ReturnCached, MarkReady, Publish, Release, Goto,
                      TypeOK, CallState
  <2> QED
    BY <1>2, <2>1, <2>2, <2>3 DEF Step
<1>3. ASSUME NEW c \in Caller, Crash(c) PROVE MadeCurrent'
  BY <1>0, <1>3 DEF Crash, Goto, TypeOK, CallState
<1>4. CASE BeginEdit \/ Empower
  BY <1>4, MadeRacedFacts DEF BeginEdit, Empower
<1>5. CASE EndEdit
  BY <1>0, <1>5 DEF EndEdit
<1>6. CASE GrowOld \/ EntryExpires \/ LockExpires
  BY <1>6 DEF GrowOld, EntryExpires, LockExpires
<1> QED
  BY <1>1, <1>2, <1>3, <1>4, <1>5, <1>6 DEF Next

(* A call reads only what is current at that moment, and what it has read  *)
(* does not change afterwards.                                             *)
LEMMA ReadCurrentStep ==
  ASSUME TypeOK, EntryCurrent, ReadCurrent, Next
  PROVE  ReadCurrent'
<1> USE DEF ReadCurrent, Known
<1>0. /\ \A c \in Caller : call[c] \in CallState
      /\ \A c \in Caller : call[c].since \in Nat
      /\ db \in Nat /\ open \in Nat
  BY BoundAssumption DEF TypeOK, CallState
<1>1. ASSUME NEW c \in Caller, Enter(c) PROVE ReadCurrent'
  <2>1. call'[c].since = db /\ db' = db
    BY <1>0, <1>1 DEF Enter, TypeOK, CallState
  <2>2. call'[c].res = Empty \/ (Finished(entry) /\ call'[c].res = entry)
    BY <1>0, <1>1 DEF Enter, TypeOK, CallState
  <2>3. \A d \in Caller \ {c} : call'[d] = call[d]
    BY <1>1 DEF Enter, TypeOK
  <2> QED
    BY <1>0, <2>1, <2>2, <2>3 DEF EntryCurrent
<1>2. ASSUME NEW c \in Caller, Poll(c) PROVE ReadCurrent'
  <2>1. call'[c].since = call[c].since /\ db' = db
    BY <1>0, <1>2 DEF Poll, TypeOK, CallState
  <2>2. Finished(entry) /\ call'[c].res = entry
    BY <1>0, <1>2 DEF Poll, TypeOK, CallState
  <2>3. \A d \in Caller \ {c} : call'[d] = call[d]
    BY <1>2 DEF Poll, TypeOK
  <2> QED
    BY <1>0, <2>1, <2>2, <2>3 DEF EntryCurrent
<1>3. ASSUME NEW c \in Caller, ~Poll(c), Step(c) \/ Crash(c) PROVE ReadCurrent'
  <2>1. /\ db' = db
        /\ \A d \in Caller : call'[d].since = call[d].since /\ call'[d].res = call[d].res
    BY <1>0, <1>3 DEF Step, Crash, Acquire, ReturnCached, MarkReady, Query, QueryFails,
                      Publish, Release, Goto, TypeOK, CallState
  <2> QED
    BY <2>1
<1>4. CASE BeginEdit \/ Empower
  <2>1. \A d \in Caller : call'[d].since = call[d].since /\ call'[d].res = call[d].res
    BY <1>4, MadeRacedFacts DEF BeginEdit, Empower
  <2>2. db' \in Nat /\ db <= db'
    BY <1>0, <1>4 DEF BeginEdit, Empower
  <2> QED
    BY <1>0, <2>1, <2>2
<1>5. CASE EndEdit
  <2>1. db' \in Nat /\ db <= db'
    BY <1>0, <1>5 DEF EndEdit
  <2>2. UNCHANGED call
    BY <1>5 DEF EndEdit
  <2> QED
    BY <1>0, <2>1, <2>2
<1>6. CASE GrowOld \/ EntryExpires \/ LockExpires
  BY <1>6 DEF GrowOld, EntryExpires, LockExpires
<1> QED
  BY <1>1, <1>2, <1>3, <1>4, <1>5, <1>6 DEF Next

(* Whoever marks the entry as unfinished stays at it until it is finished  *)
(* or deleted: not even a query that raises leaves it.                     *)
LEMMA UnfinishedStep ==
  ASSUME TypeOK, UnfinishedIsBeingMade, Next
  PROVE  UnfinishedIsBeingMade'
<1> USE BoundAssumption DEF UnfinishedIsBeingMade, Makes
<1>1. ASSUME NEW c \in Caller, Enter(c) PROVE UnfinishedIsBeingMade'
  BY <1>1 DEF Enter, TypeOK, CallState
<1>2. ASSUME NEW c \in Caller, Step(c) PROVE UnfinishedIsBeingMade'
  <2>1. CASE Poll(c) \/ Acquire(c) \/ ReturnCached(c) \/ Release(c)
    BY <2>1 DEF Poll, Acquire, ReturnCached, Release, Goto, TypeOK, CallState
  <2>2. CASE MarkReady(c) \/ Query(c) \/ QueryFails(c)
    <3>1. call'[c].pc \in Makes
      BY <2>2 DEF MarkReady, Query, QueryFails, Goto, TypeOK, CallState
    <3> QED
      BY <3>1
  <2>3. CASE Publish(c)
    BY <2>3 DEF Publish
  <2> QED
    BY <1>2, <2>1, <2>2, <2>3 DEF Step
<1>3. ASSUME NEW c \in Caller, Crash(c) PROVE UnfinishedIsBeingMade'
  <2>1. crashes' = crashes + 1 /\ crashes \in Nat
    BY <1>3 DEF Crash, TypeOK
  <2> QED
    BY <2>1
<1>4. CASE BeginEdit
  BY <1>4 DEF BeginEdit
<1>5. CASE GrowOld
  BY <1>5 DEF GrowOld, Finished, TypeOK, Entry
<1>6. CASE EndEdit \/ EntryExpires \/ LockExpires
  BY <1>6 DEF EndEdit, EntryExpires, LockExpires
<1>7. CASE Empower
  <2>1. entry' # Empty => entry # Empty /\ entry'.status = entry.status
    BY <1>7 DEF Empower, TypeOK, Entry
  <2> QED
    BY <1>7, <2>1, MadeRacedFacts DEF Empower
<1> QED
  BY <1>1, <1>2, <1>3, <1>4, <1>5, <1>6, <1>7 DEF Next

LEMMA StepInv == PermissionCacheInv /\ [Next]_vars => PermissionCacheInv'
<1> SUFFICES ASSUME PermissionCacheInv, [Next]_vars PROVE PermissionCacheInv'
  OBVIOUS
<1>1. CASE Next
  BY <1>1, StepType, CommittedStep, OwnsLockStep, EntryCurrentStep, MadeCurrentStep,
     ReadCurrentStep, UnfinishedStep DEF PermissionCacheInv
<1>2. CASE UNCHANGED vars
  BY <1>2 DEF vars, PermissionCacheInv, TypeOK, Committed, OwnsLock, EntryCurrent,
              MadeCurrent, ReadCurrent, UnfinishedIsBeingMade, Finished, Known
<1> QED
  BY <1>1, <1>2

-----------------------------------------------------------------------------
(* Theorems *)

(* The inductive invariant, for any callers and bounds: it holds of every  *)
(* interleaving of calls, edits, failures, expiries and deaths.            *)
THEOREM Invariance == Spec => []PermissionCacheInv
BY InitInv, StepInv, PTL DEF Spec

(* The cache holds nothing but entries with their four parts: a query that *)
(* raises leaves the empty text, never None or a missing field.            *)
THEOREM TypeCorrectness == Spec => []TypeOK
<1>1. PermissionCacheInv => TypeOK
  BY DEF PermissionCacheInv
<1> QED
  BY Invariance, <1>1, PTL

(* The lock of make_cache does its work: two calls never make the          *)
(* permissions of a user at the same time, also after a holder has died.   *)
THEOREM OneAtATime == Spec => []OneMaker
<1>1. PermissionCacheInv => OneMaker
  BY DEF PermissionCacheInv, OwnsLock, OneMaker
<1> QED
  BY Invariance, <1>1, PTL

(* Deleting the entry in the signal is enough but for the edits that were  *)
(* open while the entry was made, or began before it was published.        *)
THEOREM CurrentAnswers == Spec => []AnswersAreCurrent
<1>1. PermissionCacheInv => AnswersAreCurrent
  BY DEF PermissionCacheInv, ReadCurrent, Known, AnswersAreCurrent, Usable
<1> QED
  BY Invariance, <1>1, PTL

(* Without a death, the calls that poll an unfinished entry have someone   *)
(* to wait for.                                                            *)
THEOREM UnfinishedHasMaker == Spec => []UnfinishedIsBeingMade
<1>1. PermissionCacheInv => UnfinishedIsBeingMade
  BY DEF PermissionCacheInv
<1> QED
  BY Invariance, <1>1, PTL

-----------------------------------------------------------------------------
(* The configuration cache: machine-checked proofs about ConfigCache, for   *)
(* every value of its constants that meets its first assumption.  Empty is  *)
(* renamed, since that of PermissionCache is another.                       *)

CONSTANTS
  User, Request, Value, Template, Other, Rows, Default, NoDefault, System, None

VARIABLES
  row, cache, other, req, raced

C == INSTANCE ConfigCache WITH Empty <- NoDefault

(* The plans that a request can have left, and whether it has begun to     *)
(* edit a row and has written it by then.                                  *)
Stage(q, kinds, plan, edits, wrote) ==
  q.kind \in kinds /\ q.plan = plan /\ q.edits = edits /\ q.wrote = wrote

SoundPlan(q) ==
  \/ Stage(q, {"get", "use"}, <<"read">>, FALSE, FALSE)
  \/ Stage(q, {"patch"}, <<"read", "save", "drop", "read", "commit">>, FALSE, FALSE)
  \/ Stage(q, {"patch", "destroy", "store"}, <<"save", "drop", "read", "commit">>, FALSE, FALSE)
  \/ Stage(q, {"patch", "destroy", "store"}, <<"drop", "read", "commit">>, TRUE, TRUE)
  \/ Stage(q, {"patch", "destroy", "store", "assign"}, <<"read", "commit">>, TRUE, TRUE)
  \/ Stage(q, {"patch", "destroy", "store", "assign", "remove", "revoke"}, <<"commit">>, TRUE, TRUE)
  \/ Stage(q, {"remove"}, <<"drop", "save", "commit">>, FALSE, FALSE)
  \/ Stage(q, {"remove"}, <<"save", "commit">>, TRUE, FALSE)
  \/ Stage(q, {"assign"}, <<"save", "read", "commit">>, FALSE, FALSE)
  \/ Stage(q, {"revoke"}, <<"save", "commit">>, FALSE, FALSE)
  \/ Stage(q, {"invalid"}, <<"drop", "drop_all">>, FALSE, FALSE)
  \/ Stage(q, {"invalid"}, <<"drop_all">>, FALSE, FALSE)
  \/ Stage(q, {"invalid_user"}, <<"drop">>, FALSE, FALSE)

IsRequest(q) ==
  q = [kind |-> q.kind, plan |-> q.plan, key |-> q.key, k |-> q.k, at |-> q.at,
       default |-> q.default, data |-> q.data, edits |-> q.edits, wrote |-> q.wrote,
       new |-> q.new]

SoundRequest(q) ==
  /\ IsRequest(q)
  /\ q # C!New =>
       /\ q.key \in C!Key /\ q.k \in {q.key, System} /\ q.default \in Default
       /\ SoundPlan(q)

Shapes ==
  /\ row = [k \in C!Key |-> row[k]] /\ cache = [k \in C!Key |-> cache[k]]
  /\ other \in Other
  /\ req = [r \in Request |-> req[r]]
  /\ \A r \in Request : SoundRequest(req[r])

OneWriter ==
  \A r, t \in Request : req[r].wrote /\ req[t].wrote /\ req[r].key = req[t].key => r = t

(* What a read of row x of key k gives, with s the row of the system and   *)
(* the template rendered to o.                                             *)
Rendered(o, x) == C!Entry(IF x.value = Template THEN o ELSE x.value, x.access, x.inherit)

Defaults == {C!OfDefault(d) : d \in Default}

OfSystem(o, s) == IF C!Active(s) THEN {Rendered(o, s)} ELSE Defaults

Given(o, s, k, x) ==
  IF C!Active(x) THEN {Rendered(o, x)}
  ELSE IF k = System THEN Defaults
  ELSE {C!Inherited(e) : e \in OfSystem(o, s)}

(* The row of k as request q sees it, x being the committed one. *)
View(q, k, x) == IF q.edits /\ q.key = k THEN q.new ELSE x

Edited(k) == \E r \in Request : C!Edits(r, k)

(* The keys whose entries are claimed to be what the rows say. *)
Claimed(k) == k \notin raced /\ (k = System \/ ~Edited(System))

HeldIsUnedited ==
  \A r, t \in Request, k \in C!Key : k \notin raced /\ C!Holds(r, k) /\ C!Edits(t, k) => r = t

HeldIsCurrent ==
  \A r \in Request, k \in C!Key : C!Reads(r, "fill") /\ req[r].k = k /\ Claimed(k) =>
    req[r].data \in Given(other, row[System], k, View(req[r], k, row[k]))

HeirsHaveNoRow ==
  \A r \in Request, k \in C!Key :
    C!Does(r, "read") /\ req[r].k # k /\ req[r].key = k /\ k \notin raced =>
      ~C!Active(View(req[r], k, row[k]))

HasDropped(r, k) == C!Edits(r, k) /\ Head(req[r].plan) # "drop"

EntriesFollowEdits ==
  \A k \in C!Key : Claimed(k) /\ cache[k] # None =>
    /\ ~Edited(k) => cache[k] \in Given(other, row[System], k, row[k])
    /\ \A r \in Request : HasDropped(r, k) =>
         req[r].wrote /\ cache[k] \in Given(other, row[System], k, req[r].new)

ConfigCacheInv ==
  /\ Shapes /\ OneWriter /\ HeldIsUnedited /\ HeldIsCurrent
  /\ HeirsHaveNoRow /\ EntriesFollowEdits

LEMMA InvShowsCurrent == ConfigCacheInv => C!EntriesAreCurrent
<1> SUFFICES ASSUME ConfigCacheInv, NEW k \in C!Key \ raced, cache[k] # None, C!Settled(k)
             PROVE  cache[k] \in C!Data(k)
  BY DEF C!EntriesAreCurrent
<1>1. Claimed(k) /\ ~Edited(k)
  BY DEF C!Settled, Claimed, Edited
<1>2. cache[k] \in Given(other, row[System], k, row[k])
  BY <1>1 DEF ConfigCacheInv, EntriesFollowEdits
<1> QED
  BY <1>2 DEF C!Data, C!SystemData, Given, OfSystem, Defaults, Rendered, C!OfRow

(* The plans that can be left, taken apart. *)
LEMMA PlanEnds ==
  /\ Head(<<"read">>) = "read" /\ Tail(<<"read">>) = <<>>
  /\ <<"read">> # <<>>
  /\ Head(<<"read", "save", "drop", "read", "commit">>) = "read"
  /\ Tail(<<"read", "save", "drop", "read", "commit">>) = <<"save", "drop", "read", "commit">>
  /\ <<"read", "save", "drop", "read", "commit">> # <<>>
  /\ Head(<<"save", "drop", "read", "commit">>) = "save"
  /\ Tail(<<"save", "drop", "read", "commit">>) = <<"drop", "read", "commit">>
  /\ <<"save", "drop", "read", "commit">> # <<>>
  /\ Head(<<"drop", "read", "commit">>) = "drop"
  /\ Tail(<<"drop", "read", "commit">>) = <<"read", "commit">>
  /\ <<"drop", "read", "commit">> # <<>>
  /\ Head(<<"read", "commit">>) = "read" /\ Tail(<<"read", "commit">>) = <<"commit">>
  /\ <<"read", "commit">> # <<>>
  /\ Head(<<"commit">>) = "commit" /\ Tail(<<"commit">>) = <<>>
  /\ <<"commit">> # <<>>
  /\ Head(<<"drop", "save", "commit">>) = "drop"
  /\ Tail(<<"drop", "save", "commit">>) = <<"save", "commit">>
  /\ <<"drop", "save", "commit">> # <<>>
  /\ Head(<<"save", "commit">>) = "save" /\ Tail(<<"save", "commit">>) = <<"commit">>
  /\ <<"save", "commit">> # <<>>
  /\ Head(<<"save", "read", "commit">>) = "save"
  /\ Tail(<<"save", "read", "commit">>) = <<"read", "commit">>
  /\ <<"save", "read", "commit">> # <<>>
  /\ Head(<<"drop", "drop_all">>) = "drop" /\ Tail(<<"drop", "drop_all">>) = <<"drop_all">>
  /\ <<"drop", "drop_all">> # <<>>
  /\ Head(<<"drop_all">>) = "drop_all" /\ Tail(<<"drop_all">>) = <<>>
  /\ <<"drop_all">> # <<>>
  /\ Head(<<"drop">>) = "drop" /\ Tail(<<"drop">>) = <<>>
  /\ <<"drop">> # <<>>
<1>1. Head(<<"read">>) = "read" /\ Tail(<<"read">>) = <<>> /\ <<"read">> # <<>>
  OBVIOUS
<1>2. Head(<<"read", "save", "drop", "read", "commit">>) = "read" /\ Tail(<<"read", "save", "drop", "read", "commit">>) = <<"save", "drop", "read", "commit">> /\ <<"read", "save", "drop", "read", "commit">> # <<>>
  OBVIOUS
<1>3. Head(<<"save", "drop", "read", "commit">>) = "save" /\ Tail(<<"save", "drop", "read", "commit">>) = <<"drop", "read", "commit">> /\ <<"save", "drop", "read", "commit">> # <<>>
  OBVIOUS
<1>4. Head(<<"drop", "read", "commit">>) = "drop" /\ Tail(<<"drop", "read", "commit">>) = <<"read", "commit">> /\ <<"drop", "read", "commit">> # <<>>
  OBVIOUS
<1>5. Head(<<"read", "commit">>) = "read" /\ Tail(<<"read", "commit">>) = <<"commit">> /\ <<"read", "commit">> # <<>>
  OBVIOUS
<1>6. Head(<<"commit">>) = "commit" /\ Tail(<<"commit">>) = <<>> /\ <<"commit">> # <<>>
  OBVIOUS
<1>7. Head(<<"drop", "save", "commit">>) = "drop" /\ Tail(<<"drop", "save", "commit">>) = <<"save", "commit">> /\ <<"drop", "save", "commit">> # <<>>
  OBVIOUS
<1>8. Head(<<"save", "commit">>) = "save" /\ Tail(<<"save", "commit">>) = <<"commit">> /\ <<"save", "commit">> # <<>>
  OBVIOUS
<1>9. Head(<<"save", "read", "commit">>) = "save" /\ Tail(<<"save", "read", "commit">>) = <<"read", "commit">> /\ <<"save", "read", "commit">> # <<>>
  OBVIOUS
<1>10. Head(<<"drop", "drop_all">>) = "drop" /\ Tail(<<"drop", "drop_all">>) = <<"drop_all">> /\ <<"drop", "drop_all">> # <<>>
  OBVIOUS
<1>11. Head(<<"drop_all">>) = "drop_all" /\ Tail(<<"drop_all">>) = <<>> /\ <<"drop_all">> # <<>>
  OBVIOUS
<1>12. Head(<<"drop">>) = "drop" /\ Tail(<<"drop">>) = <<>> /\ <<"drop">> # <<>>
  OBVIOUS
<1> QED
  BY <1>1, <1>2, <1>3, <1>4, <1>5, <1>6, <1>7, <1>8, <1>9, <1>10, <1>11, <1>12

(* What may come first in a plan, and how far its request is by then. *)
PlanFacts(q) ==
  /\ q.plan # <<>> /\ q.edits \in BOOLEAN /\ q.wrote \in BOOLEAN /\ (q.wrote => q.edits)
  /\ Head(q.plan) = "read" =>
       /\ q.edits => q.wrote
       /\ Tail(q.plan) = <<>> => ~q.edits
       /\ q.edits => Head(Tail(q.plan)) # "drop"
  /\ Head(q.plan) = "save" =>
       /\ Tail(q.plan) # <<>> /\ ~q.wrote
       /\ q.edits <=> q.kind = "remove"
       /\ Head(Tail(q.plan)) = "drop" \/ q.kind \in {"assign", "revoke", "remove"}
  /\ Head(q.plan) = "drop" =>
       /\ q.edits <=> q.wrote
       /\ q.kind = "remove" => ~q.edits /\ Tail(q.plan) # <<>>
       /\ Tail(q.plan) = <<>> => ~q.edits
  /\ Head(q.plan) = "drop_all" => Tail(q.plan) = <<>> /\ ~q.edits
  /\ Head(q.plan) = "commit" => q.edits /\ q.wrote

LEMMA PlanHeads == ASSUME NEW q, SoundPlan(q) PROVE PlanFacts(q)
<1>1. CASE Stage(q, {"get", "use"}, <<"read">>, FALSE, FALSE)
  BY <1>1, PlanEnds DEF Stage, PlanFacts
<1>2. CASE Stage(q, {"patch"}, <<"read", "save", "drop", "read", "commit">>, FALSE, FALSE)
  BY <1>2, PlanEnds DEF Stage, PlanFacts
<1>3. CASE Stage(q, {"patch", "destroy", "store"}, <<"save", "drop", "read", "commit">>, FALSE, FALSE)
  BY <1>3, PlanEnds DEF Stage, PlanFacts
<1>4. CASE Stage(q, {"patch", "destroy", "store"}, <<"drop", "read", "commit">>, TRUE, TRUE)
  BY <1>4, PlanEnds DEF Stage, PlanFacts
<1>5. CASE Stage(q, {"patch", "destroy", "store", "assign"}, <<"read", "commit">>, TRUE, TRUE)
  BY <1>5, PlanEnds DEF Stage, PlanFacts
<1>6. CASE Stage(q, {"patch", "destroy", "store", "assign", "remove", "revoke"}, <<"commit">>, TRUE, TRUE)
  BY <1>6, PlanEnds DEF Stage, PlanFacts
<1>7. CASE Stage(q, {"remove"}, <<"drop", "save", "commit">>, FALSE, FALSE)
  BY <1>7, PlanEnds DEF Stage, PlanFacts
<1>8. CASE Stage(q, {"remove"}, <<"save", "commit">>, TRUE, FALSE)
  BY <1>8, PlanEnds DEF Stage, PlanFacts
<1>9. CASE Stage(q, {"assign"}, <<"save", "read", "commit">>, FALSE, FALSE)
  BY <1>9, PlanEnds DEF Stage, PlanFacts
<1>10. CASE Stage(q, {"revoke"}, <<"save", "commit">>, FALSE, FALSE)
  BY <1>10, PlanEnds DEF Stage, PlanFacts
<1>11. CASE Stage(q, {"invalid"}, <<"drop", "drop_all">>, FALSE, FALSE)
  BY <1>11, PlanEnds DEF Stage, PlanFacts
<1>12. CASE Stage(q, {"invalid"}, <<"drop_all">>, FALSE, FALSE)
  BY <1>12, PlanEnds DEF Stage, PlanFacts
<1>13. CASE Stage(q, {"invalid_user"}, <<"drop">>, FALSE, FALSE)
  BY <1>13, PlanEnds DEF Stage, PlanFacts
<1> QED
  BY <1>1, <1>2, <1>3, <1>4, <1>5, <1>6, <1>7, <1>8, <1>9, <1>10, <1>11, <1>12, <1>13 DEF SoundPlan

(* The rest of a plan is one that can be left, when its request has done   *)
(* what came first.                                                        *)
Follows(q, p) ==
  /\ p.kind = q.kind /\ p.plan = Tail(q.plan) /\ Tail(q.plan) # <<>>
  /\ Head(q.plan) = "save" => p.edits = TRUE /\ p.wrote = TRUE
  /\ Head(q.plan) # "save" =>
       /\ p.wrote = q.wrote
       /\ p.edits = (q.edits \/ (Head(q.plan) = "drop" /\ q.kind = "remove"))

LEMMA PlanTails == ASSUME NEW q, SoundPlan(q), NEW p, Follows(q, p) PROVE SoundPlan(p)
<1>1. CASE Stage(q, {"get", "use"}, <<"read">>, FALSE, FALSE)
  BY <1>1, PlanEnds DEF Stage, Follows
<1>2. CASE Stage(q, {"patch"}, <<"read", "save", "drop", "read", "commit">>, FALSE, FALSE)
  <2>1. Stage(p, {"patch", "destroy", "store"}, <<"save", "drop", "read", "commit">>, FALSE, FALSE)
    BY <1>2, PlanEnds DEF Stage, Follows
  <2> QED
    BY <2>1 DEF SoundPlan
<1>3. CASE Stage(q, {"patch", "destroy", "store"}, <<"save", "drop", "read", "commit">>, FALSE, FALSE)
  <2>1. Stage(p, {"patch", "destroy", "store"}, <<"drop", "read", "commit">>, TRUE, TRUE)
    BY <1>3, PlanEnds DEF Stage, Follows
  <2> QED
    BY <2>1 DEF SoundPlan
<1>4. CASE Stage(q, {"patch", "destroy", "store"}, <<"drop", "read", "commit">>, TRUE, TRUE)
  <2>1. Stage(p, {"patch", "destroy", "store", "assign"}, <<"read", "commit">>, TRUE, TRUE)
    BY <1>4, PlanEnds DEF Stage, Follows
  <2> QED
    BY <2>1 DEF SoundPlan
<1>5. CASE Stage(q, {"patch", "destroy", "store", "assign"}, <<"read", "commit">>, TRUE, TRUE)
  <2>1. Stage(p, {"patch", "destroy", "store", "assign", "remove", "revoke"}, <<"commit">>, TRUE, TRUE)
    BY <1>5, PlanEnds DEF Stage, Follows
  <2> QED
    BY <2>1 DEF SoundPlan
<1>6. CASE Stage(q, {"patch", "destroy", "store", "assign", "remove", "revoke"}, <<"commit">>, TRUE, TRUE)
  BY <1>6, PlanEnds DEF Stage, Follows
<1>7. CASE Stage(q, {"remove"}, <<"drop", "save", "commit">>, FALSE, FALSE)
  <2>1. Stage(p, {"remove"}, <<"save", "commit">>, TRUE, FALSE)
    BY <1>7, PlanEnds DEF Stage, Follows
  <2> QED
    BY <2>1 DEF SoundPlan
<1>8. CASE Stage(q, {"remove"}, <<"save", "commit">>, TRUE, FALSE)
  <2>1. Stage(p, {"patch", "destroy", "store", "assign", "remove", "revoke"}, <<"commit">>, TRUE, TRUE)
    BY <1>8, PlanEnds DEF Stage, Follows
  <2> QED
    BY <2>1 DEF SoundPlan
<1>9. CASE Stage(q, {"assign"}, <<"save", "read", "commit">>, FALSE, FALSE)
  <2>1. Stage(p, {"patch", "destroy", "store", "assign"}, <<"read", "commit">>, TRUE, TRUE)
    BY <1>9, PlanEnds DEF Stage, Follows
  <2> QED
    BY <2>1 DEF SoundPlan
<1>10. CASE Stage(q, {"revoke"}, <<"save", "commit">>, FALSE, FALSE)
  <2>1. Stage(p, {"patch", "destroy", "store", "assign", "remove", "revoke"}, <<"commit">>, TRUE, TRUE)
    BY <1>10, PlanEnds DEF Stage, Follows
  <2> QED
    BY <2>1 DEF SoundPlan
<1>11. CASE Stage(q, {"invalid"}, <<"drop", "drop_all">>, FALSE, FALSE)
  <2>1. Stage(p, {"invalid"}, <<"drop_all">>, FALSE, FALSE)
    BY <1>11, PlanEnds DEF Stage, Follows
  <2> QED
    BY <2>1 DEF SoundPlan
<1>12. CASE Stage(q, {"invalid"}, <<"drop_all">>, FALSE, FALSE)
  BY <1>12, PlanEnds DEF Stage, Follows
<1>13. CASE Stage(q, {"invalid_user"}, <<"drop">>, FALSE, FALSE)
  BY <1>13, PlanEnds DEF Stage, Follows
<1> QED
  BY <1>1, <1>2, <1>3, <1>4, <1>5, <1>6, <1>7, <1>8, <1>9, <1>10, <1>11, <1>12, <1>13 DEF SoundPlan

LEMMA PlansAreSound ==
  ASSUME NEW k \in C!Key, NEW kind \in C!Kinds(k), NEW q, q.kind = kind, q.plan = C!Plan(kind),
         q.edits = FALSE, q.wrote = FALSE
  PROVE  SoundPlan(q)
<1>1. kind \in {"get", "use", "store", "remove", "invalid", "patch", "destroy", "assign", "revoke", "invalid_user"}
  BY DEF C!Kinds
<1> QED
  BY <1>1 DEF SoundPlan, Stage, C!Plan

(* The records that the actions leave, field by field. *)
LEMMA NewIs ==
  /\ IsRequest(C!New) /\ C!New.plan = <<>> /\ C!New.edits = FALSE /\ C!New.wrote = FALSE
  /\ C!New.key = None /\ C!New.kind = None
BY DEF C!New, IsRequest

Kept(q, p) ==
  /\ IsRequest(p) /\ p.kind = q.kind /\ p.plan = q.plan /\ p.key = q.key
  /\ p.default = q.default /\ p.edits = q.edits /\ p.wrote = q.wrote /\ p.new = q.new

(* What an update of a field leaves. *)
LEMMA Set_kind ==
  ASSUME NEW q, IsRequest(q), NEW x
  PROVE  LET p == [q EXCEPT !.kind = x]
         IN  /\ IsRequest(p) /\ p.kind = x
             /\ p.plan = q.plan /\ p.key = q.key /\ p.k = q.k /\ p.at = q.at
             /\ p.default = q.default /\ p.data = q.data /\ p.edits = q.edits
             /\ p.wrote = q.wrote /\ p.new = q.new
BY DEF IsRequest

LEMMA Set_plan ==
  ASSUME NEW q, IsRequest(q), NEW x
  PROVE  LET p == [q EXCEPT !.plan = x]
         IN  /\ IsRequest(p) /\ p.plan = x
             /\ p.kind = q.kind /\ p.key = q.key /\ p.k = q.k /\ p.at = q.at
             /\ p.default = q.default /\ p.data = q.data /\ p.edits = q.edits
             /\ p.wrote = q.wrote /\ p.new = q.new
BY DEF IsRequest

LEMMA Set_key ==
  ASSUME NEW q, IsRequest(q), NEW x
  PROVE  LET p == [q EXCEPT !.key = x]
         IN  /\ IsRequest(p) /\ p.key = x
             /\ p.kind = q.kind /\ p.plan = q.plan /\ p.k = q.k /\ p.at = q.at
             /\ p.default = q.default /\ p.data = q.data /\ p.edits = q.edits
             /\ p.wrote = q.wrote /\ p.new = q.new
BY DEF IsRequest

LEMMA Set_k ==
  ASSUME NEW q, IsRequest(q), NEW x
  PROVE  LET p == [q EXCEPT !.k = x]
         IN  /\ IsRequest(p) /\ p.k = x
             /\ p.kind = q.kind /\ p.plan = q.plan /\ p.key = q.key /\ p.at = q.at
             /\ p.default = q.default /\ p.data = q.data /\ p.edits = q.edits
             /\ p.wrote = q.wrote /\ p.new = q.new
BY DEF IsRequest

LEMMA Set_at ==
  ASSUME NEW q, IsRequest(q), NEW x
  PROVE  LET p == [q EXCEPT !.at = x]
         IN  /\ IsRequest(p) /\ p.at = x
             /\ p.kind = q.kind /\ p.plan = q.plan /\ p.key = q.key /\ p.k = q.k
             /\ p.default = q.default /\ p.data = q.data /\ p.edits = q.edits
             /\ p.wrote = q.wrote /\ p.new = q.new
BY DEF IsRequest

LEMMA Set_default ==
  ASSUME NEW q, IsRequest(q), NEW x
  PROVE  LET p == [q EXCEPT !.default = x]
         IN  /\ IsRequest(p) /\ p.default = x
             /\ p.kind = q.kind /\ p.plan = q.plan /\ p.key = q.key /\ p.k = q.k
             /\ p.at = q.at /\ p.data = q.data /\ p.edits = q.edits
             /\ p.wrote = q.wrote /\ p.new = q.new
BY DEF IsRequest

LEMMA Set_data ==
  ASSUME NEW q, IsRequest(q), NEW x
  PROVE  LET p == [q EXCEPT !.data = x]
         IN  /\ IsRequest(p) /\ p.data = x
             /\ p.kind = q.kind /\ p.plan = q.plan /\ p.key = q.key /\ p.k = q.k
             /\ p.at = q.at /\ p.default = q.default /\ p.edits = q.edits
             /\ p.wrote = q.wrote /\ p.new = q.new
BY DEF IsRequest

LEMMA Set_edits ==
  ASSUME NEW q, IsRequest(q), NEW x
  PROVE  LET p == [q EXCEPT !.edits = x]
         IN  /\ IsRequest(p) /\ p.edits = x
             /\ p.kind = q.kind /\ p.plan = q.plan /\ p.key = q.key /\ p.k = q.k
             /\ p.at = q.at /\ p.default = q.default /\ p.data = q.data
             /\ p.wrote = q.wrote /\ p.new = q.new
BY DEF IsRequest

LEMMA Set_wrote ==
  ASSUME NEW q, IsRequest(q), NEW x
  PROVE  LET p == [q EXCEPT !.wrote = x]
         IN  /\ IsRequest(p) /\ p.wrote = x
             /\ p.kind = q.kind /\ p.plan = q.plan /\ p.key = q.key /\ p.k = q.k
             /\ p.at = q.at /\ p.default = q.default /\ p.data = q.data
             /\ p.edits = q.edits /\ p.new = q.new
BY DEF IsRequest

LEMMA Set_new ==
  ASSUME NEW q, IsRequest(q), NEW x
  PROVE  LET p == [q EXCEPT !.new = x]
         IN  /\ IsRequest(p) /\ p.new = x
             /\ p.kind = q.kind /\ p.plan = q.plan /\ p.key = q.key /\ p.k = q.k
             /\ p.at = q.at /\ p.default = q.default /\ p.data = q.data
             /\ p.edits = q.edits /\ p.wrote = q.wrote
BY DEF IsRequest

RestCopy(q, a, b, c, d) ==
  [q EXCEPT !.plan = a, !.k = b, !.at = c, !.data = d]

LEMMA SetRest ==
  ASSUME NEW q, IsRequest(q), NEW a, NEW b, NEW c, NEW d
  PROVE  LET p == RestCopy(q, a, b, c, d)
         IN  /\ IsRequest(p)
             /\ p.kind = q.kind /\ p.plan = a /\ p.key = q.key /\ p.k = b /\ p.at = c
             /\ p.default = q.default /\ p.data = d /\ p.edits = q.edits
             /\ p.wrote = q.wrote /\ p.new = q.new
<1> DEFINE p1 == [q EXCEPT !.plan = a]
           p2 == [p1 EXCEPT !.k = b]
           p3 == [p2 EXCEPT !.at = c]
           p4 == [p3 EXCEPT !.data = d]
<1> HIDE DEF p1, p2, p3, p4
<1>1. /\ IsRequest(p1)
      /\ p1.kind = q.kind /\ p1.plan = a /\ p1.key = q.key /\ p1.k = q.k /\ p1.at = q.at
      /\ p1.default = q.default /\ p1.data = q.data /\ p1.edits = q.edits
      /\ p1.wrote = q.wrote /\ p1.new = q.new
  BY Set_plan DEF p1
<1>2. /\ IsRequest(p2)
      /\ p2.kind = q.kind /\ p2.plan = a /\ p2.key = q.key /\ p2.k = b /\ p2.at = q.at
      /\ p2.default = q.default /\ p2.data = q.data /\ p2.edits = q.edits
      /\ p2.wrote = q.wrote /\ p2.new = q.new
  BY <1>1, Set_k DEF p2
<1>3. /\ IsRequest(p3)
      /\ p3.kind = q.kind /\ p3.plan = a /\ p3.key = q.key /\ p3.k = b /\ p3.at = c
      /\ p3.default = q.default /\ p3.data = q.data /\ p3.edits = q.edits
      /\ p3.wrote = q.wrote /\ p3.new = q.new
  BY <1>2, Set_at DEF p3
<1>4. /\ IsRequest(p4)
      /\ p4.kind = q.kind /\ p4.plan = a /\ p4.key = q.key /\ p4.k = b /\ p4.at = c
      /\ p4.default = q.default /\ p4.data = d /\ p4.edits = q.edits
      /\ p4.wrote = q.wrote /\ p4.new = q.new
  BY <1>3, Set_data DEF p4
<1> QED
  BY <1>4 DEF p1, p2, p3, p4, RestCopy

EditCopy(q, a, b, c) ==
  [q EXCEPT !.edits = a, !.wrote = b, !.new = c]

LEMMA SetEdit ==
  ASSUME NEW q, IsRequest(q), NEW a, NEW b, NEW c
  PROVE  LET p == EditCopy(q, a, b, c)
         IN  /\ IsRequest(p)
             /\ p.kind = q.kind /\ p.plan = q.plan /\ p.key = q.key /\ p.k = q.k
             /\ p.at = q.at
             /\ p.default = q.default /\ p.data = q.data /\ p.edits = a /\ p.wrote = b
             /\ p.new = c
<1> DEFINE p1 == [q EXCEPT !.edits = a]
           p2 == [p1 EXCEPT !.wrote = b]
           p3 == [p2 EXCEPT !.new = c]
<1> HIDE DEF p1, p2, p3
<1>1. /\ IsRequest(p1)
      /\ p1.kind = q.kind /\ p1.plan = q.plan /\ p1.key = q.key /\ p1.k = q.k
      /\ p1.at = q.at
      /\ p1.default = q.default /\ p1.data = q.data /\ p1.edits = a
      /\ p1.wrote = q.wrote /\ p1.new = q.new
  BY Set_edits DEF p1
<1>2. /\ IsRequest(p2)
      /\ p2.kind = q.kind /\ p2.plan = q.plan /\ p2.key = q.key /\ p2.k = q.k
      /\ p2.at = q.at
      /\ p2.default = q.default /\ p2.data = q.data /\ p2.edits = a /\ p2.wrote = b
      /\ p2.new = q.new
  BY <1>1, Set_wrote DEF p2
<1>3. /\ IsRequest(p3)
      /\ p3.kind = q.kind /\ p3.plan = q.plan /\ p3.key = q.key /\ p3.k = q.k
      /\ p3.at = q.at
      /\ p3.default = q.default /\ p3.data = q.data /\ p3.edits = a /\ p3.wrote = b
      /\ p3.new = c
  BY <1>2, Set_new DEF p3
<1> QED
  BY <1>3 DEF p1, p2, p3, EditCopy

FoundCopy(q, a, b, c) ==
  [q EXCEPT !.k = a, !.at = b, !.data = c]

LEMMA SetFound ==
  ASSUME NEW q, IsRequest(q), NEW a, NEW b, NEW c
  PROVE  LET p == FoundCopy(q, a, b, c)
         IN  /\ IsRequest(p)
             /\ p.kind = q.kind /\ p.plan = q.plan /\ p.key = q.key /\ p.k = a /\ p.at = b
             /\ p.default = q.default /\ p.data = c /\ p.edits = q.edits
             /\ p.wrote = q.wrote /\ p.new = q.new
<1> DEFINE p1 == [q EXCEPT !.k = a]
           p2 == [p1 EXCEPT !.at = b]
           p3 == [p2 EXCEPT !.data = c]
<1> HIDE DEF p1, p2, p3
<1>1. /\ IsRequest(p1)
      /\ p1.kind = q.kind /\ p1.plan = q.plan /\ p1.key = q.key /\ p1.k = a /\ p1.at = q.at
      /\ p1.default = q.default /\ p1.data = q.data /\ p1.edits = q.edits
      /\ p1.wrote = q.wrote /\ p1.new = q.new
  BY Set_k DEF p1
<1>2. /\ IsRequest(p2)
      /\ p2.kind = q.kind /\ p2.plan = q.plan /\ p2.key = q.key /\ p2.k = a /\ p2.at = b
      /\ p2.default = q.default /\ p2.data = q.data /\ p2.edits = q.edits
      /\ p2.wrote = q.wrote /\ p2.new = q.new
  BY <1>1, Set_at DEF p2
<1>3. /\ IsRequest(p3)
      /\ p3.kind = q.kind /\ p3.plan = q.plan /\ p3.key = q.key /\ p3.k = a /\ p3.at = b
      /\ p3.default = q.default /\ p3.data = c /\ p3.edits = q.edits
      /\ p3.wrote = q.wrote /\ p3.new = q.new
  BY <1>2, Set_data DEF p3
<1> QED
  BY <1>3 DEF p1, p2, p3, FoundCopy

LoadedCopy(q, a, b) ==
  [q EXCEPT !.at = a, !.data = b]

LEMMA SetLoaded ==
  ASSUME NEW q, IsRequest(q), NEW a, NEW b
  PROVE  LET p == LoadedCopy(q, a, b)
         IN  /\ IsRequest(p)
             /\ p.kind = q.kind /\ p.plan = q.plan /\ p.key = q.key /\ p.k = q.k /\ p.at = a
             /\ p.default = q.default /\ p.data = b /\ p.edits = q.edits
             /\ p.wrote = q.wrote /\ p.new = q.new
<1> DEFINE p1 == [q EXCEPT !.at = a]
           p2 == [p1 EXCEPT !.data = b]
<1> HIDE DEF p1, p2
<1>1. /\ IsRequest(p1)
      /\ p1.kind = q.kind /\ p1.plan = q.plan /\ p1.key = q.key /\ p1.k = q.k /\ p1.at = a
      /\ p1.default = q.default /\ p1.data = q.data /\ p1.edits = q.edits
      /\ p1.wrote = q.wrote /\ p1.new = q.new
  BY Set_at DEF p1
<1>2. /\ IsRequest(p2)
      /\ p2.kind = q.kind /\ p2.plan = q.plan /\ p2.key = q.key /\ p2.k = q.k /\ p2.at = a
      /\ p2.default = q.default /\ p2.data = b /\ p2.edits = q.edits
      /\ p2.wrote = q.wrote /\ p2.new = q.new
  BY <1>1, Set_data DEF p2
<1> QED
  BY <1>2 DEF p1, p2, LoadedCopy

HeirCopy(q, a, b) ==
  [q EXCEPT !.at = a, !.k = b]

LEMMA SetHeir ==
  ASSUME NEW q, IsRequest(q), NEW a, NEW b
  PROVE  LET p == HeirCopy(q, a, b)
         IN  /\ IsRequest(p)
             /\ p.kind = q.kind /\ p.plan = q.plan /\ p.key = q.key /\ p.k = b /\ p.at = a
             /\ p.default = q.default /\ p.data = q.data /\ p.edits = q.edits
             /\ p.wrote = q.wrote /\ p.new = q.new
<1> DEFINE p1 == [q EXCEPT !.at = a]
           p2 == [p1 EXCEPT !.k = b]
<1> HIDE DEF p1, p2
<1>1. /\ IsRequest(p1)
      /\ p1.kind = q.kind /\ p1.plan = q.plan /\ p1.key = q.key /\ p1.k = q.k /\ p1.at = a
      /\ p1.default = q.default /\ p1.data = q.data /\ p1.edits = q.edits
      /\ p1.wrote = q.wrote /\ p1.new = q.new
  BY Set_at DEF p1
<1>2. /\ IsRequest(p2)
      /\ p2.kind = q.kind /\ p2.plan = q.plan /\ p2.key = q.key /\ p2.k = b /\ p2.at = a
      /\ p2.default = q.default /\ p2.data = q.data /\ p2.edits = q.edits
      /\ p2.wrote = q.wrote /\ p2.new = q.new
  BY <1>1, Set_k DEF p2
<1> QED
  BY <1>2 DEF p1, p2, HeirCopy

BegunCopy(q, a, b, c, d, e) ==
  [q EXCEPT !.kind = a, !.plan = b, !.key = c, !.k = d, !.default = e]

LEMMA SetBegun ==
  ASSUME NEW q, IsRequest(q), NEW a, NEW b, NEW c, NEW d, NEW e
  PROVE  LET p == BegunCopy(q, a, b, c, d, e)
         IN  /\ IsRequest(p)
             /\ p.kind = a /\ p.plan = b /\ p.key = c /\ p.k = d /\ p.at = q.at
             /\ p.default = e /\ p.data = q.data /\ p.edits = q.edits
             /\ p.wrote = q.wrote /\ p.new = q.new
<1> DEFINE p1 == [q EXCEPT !.kind = a]
           p2 == [p1 EXCEPT !.plan = b]
           p3 == [p2 EXCEPT !.key = c]
           p4 == [p3 EXCEPT !.k = d]
           p5 == [p4 EXCEPT !.default = e]
<1> HIDE DEF p1, p2, p3, p4, p5
<1>1. /\ IsRequest(p1)
      /\ p1.kind = a /\ p1.plan = q.plan /\ p1.key = q.key /\ p1.k = q.k /\ p1.at = q.at
      /\ p1.default = q.default /\ p1.data = q.data /\ p1.edits = q.edits
      /\ p1.wrote = q.wrote /\ p1.new = q.new
  BY Set_kind DEF p1
<1>2. /\ IsRequest(p2)
      /\ p2.kind = a /\ p2.plan = b /\ p2.key = q.key /\ p2.k = q.k /\ p2.at = q.at
      /\ p2.default = q.default /\ p2.data = q.data /\ p2.edits = q.edits
      /\ p2.wrote = q.wrote /\ p2.new = q.new
  BY <1>1, Set_plan DEF p2
<1>3. /\ IsRequest(p3)
      /\ p3.kind = a /\ p3.plan = b /\ p3.key = c /\ p3.k = q.k /\ p3.at = q.at
      /\ p3.default = q.default /\ p3.data = q.data /\ p3.edits = q.edits
      /\ p3.wrote = q.wrote /\ p3.new = q.new
  BY <1>2, Set_key DEF p3
<1>4. /\ IsRequest(p4)
      /\ p4.kind = a /\ p4.plan = b /\ p4.key = c /\ p4.k = d /\ p4.at = q.at
      /\ p4.default = q.default /\ p4.data = q.data /\ p4.edits = q.edits
      /\ p4.wrote = q.wrote /\ p4.new = q.new
  BY <1>3, Set_k DEF p4
<1>5. /\ IsRequest(p5)
      /\ p5.kind = a /\ p5.plan = b /\ p5.key = c /\ p5.k = d /\ p5.at = q.at
      /\ p5.default = e /\ p5.data = q.data /\ p5.edits = q.edits
      /\ p5.wrote = q.wrote /\ p5.new = q.new
  BY <1>4, Set_default DEF p5
<1> QED
  BY <1>5 DEF p1, p2, p3, p4, p5, BegunCopy

(* A request that is under way. *)
LEMMA Underway ==
  ASSUME Shapes, NEW r \in Request
  PROVE  /\ IsRequest(req[r]) /\ req[r].edits \in BOOLEAN /\ req[r].wrote \in BOOLEAN
         /\ req[r].wrote => req[r].edits
         /\ req[r].edits \/ req[r].plan # <<>> => req[r] # C!New
         /\ req[r] # C!New => /\ SoundPlan(req[r]) /\ PlanFacts(req[r]) /\ req[r].key \in C!Key
                              /\ req[r].k \in C!Key /\ req[r].k \in {req[r].key, System}
                              /\ req[r].default \in Default
<1>1. SoundRequest(req[r])
  BY DEF Shapes
<1>2. CASE req[r] = C!New
  BY <1>1, <1>2, NewIs DEF SoundRequest
<1>3. CASE req[r] # C!New
  <2>1. PlanFacts(req[r])
    BY <1>1, <1>3, PlanHeads DEF SoundRequest
  <2> QED
    BY <1>1, <1>3, <2>1 DEF SoundRequest, PlanFacts, C!Key
<1> QED
  BY <1>2, <1>3

(* A step of request r leaves the others alone. *)
Turns(r) ==
  req' = [t \in Request |-> req'[t]] /\ \A t \in Request \ {r} : req'[t] = req[t]

LEMMA TurnOf ==
  ASSUME Shapes, NEW r \in Request, NEW p, req' = [req EXCEPT ![r] = p]
  PROVE  Turns(r) /\ req'[r] = p
BY DEF Shapes, Turns

(* The request goes on with its plan, or ends. *)
Rests(q, p) ==
  IF Tail(q.plan) = <<>> THEN p = C!New
  ELSE /\ IsRequest(p) /\ p.kind = q.kind /\ p.plan = Tail(q.plan) /\ p.key = q.key
       /\ p.k = q.key /\ p.at = "look" /\ p.default = q.default

Same(q, p) == p.edits = q.edits /\ p.wrote = q.wrote /\ p.new = q.new

LEMMA RestOf ==
  ASSUME NEW q, IsRequest(q)
  PROVE  Rests(q, C!Rest(q)) /\ (Tail(q.plan) # <<>> => IsRequest(C!Rest(q)) /\ Same(q, C!Rest(q)))
<1>1. CASE Tail(q.plan) = <<>>
  BY <1>1 DEF C!Rest, Rests
<1>2. CASE Tail(q.plan) # <<>>
  <2> DEFINE p == RestCopy(q, Tail(q.plan), q.key, "look", None)
  <2>1. C!Rest(q) = p
    BY <1>2 DEF C!Rest, RestCopy
  <2>2. /\ IsRequest(p)
        /\ p.kind = q.kind /\ p.plan = Tail(q.plan) /\ p.key = q.key /\ p.k = q.key
        /\ p.at = "look" /\ p.default = q.default
        /\ p.edits = q.edits /\ p.wrote = q.wrote /\ p.new = q.new
    BY SetRest
  <2> HIDE DEF p
  <2> QED
    BY <1>2, <2>1, <2>2 DEF Rests, Same
<1> QED
  BY <1>1, <1>2

(* What follows a step of a sound request is sound. *)
LEMMA SoundRest ==
  ASSUME NEW q, SoundRequest(q), q # C!New, NEW p, Rests(q, p), Tail(q.plan) # <<>> => Follows(q, p)
  PROVE  SoundRequest(p)
<1>1. CASE Tail(q.plan) = <<>>
  BY <1>1, NewIs DEF Rests, SoundRequest
<1>2. CASE Tail(q.plan) # <<>>
  <2>1. SoundPlan(p)
    BY <1>2, PlanTails DEF SoundRequest
  <2> QED
    BY <1>2, <2>1 DEF Rests, SoundRequest
<1> QED
  BY <1>1, <1>2

(* The steps of a request, field by field. *)
LEMMA BeginStep ==
  ASSUME C!ConfigCacheAssumption, Shapes, NEW r \in Request, C!Begin(r)
  PROVE  /\ Turns(r) /\ req[r] = C!New /\ req'[r].edits = FALSE /\ req'[r].wrote = FALSE
         /\ req'[r].at = "look" /\ req'[r].k = req'[r].key /\ SoundRequest(req'[r])
<1>0. PICK k \in C!Key : \E kind \in C!Kinds(k), d \in Default :
        req' = [req EXCEPT ![r] = [C!New EXCEPT !.kind = kind, !.plan = C!Plan(kind),
                                              !.key = k, !.k = k, !.default = d]]
  BY DEF C!Begin
<1>1. PICK kind \in C!Kinds(k), d \in Default :
        req' = [req EXCEPT ![r] = [C!New EXCEPT !.kind = kind, !.plan = C!Plan(kind),
                                              !.key = k, !.k = k, !.default = d]]
  BY <1>0
<1> DEFINE p == BegunCopy(C!New, kind, C!Plan(kind), k, k, d)
<1>2. req' = [req EXCEPT ![r] = p]
  BY <1>1 DEF BegunCopy
<1>3. /\ IsRequest(p) /\ p.kind = kind /\ p.plan = C!Plan(kind) /\ p.key = k /\ p.k = k
      /\ p.at = C!New.at /\ p.default = d /\ p.edits = C!New.edits /\ p.wrote = C!New.wrote
  BY SetBegun, NewIs
<1> HIDE DEF p
<1>4. C!New.at = "look"
  BY DEF C!New
<1>5. SoundPlan(p)
  BY <1>3, NewIs, PlansAreSound
<1>6. Turns(r) /\ req'[r] = p
  BY <1>2, TurnOf
<1> QED
  BY <1>3, <1>4, <1>5, <1>6, NewIs DEF C!Begin, SoundRequest

LEMMA FoundStep ==
  ASSUME Shapes, NEW r \in Request, C!Does(r, "read"), NEW e, C!Found(r, e)
  PROVE  /\ Turns(r)
         /\ IF req[r].k # req[r].key
            THEN /\ Kept(req[r], req'[r]) /\ req'[r].k = req[r].key /\ req'[r].at = "fill"
                 /\ req'[r].data = C!Inherited(e)
                 /\ raced' = raced \cup (IF System \in raced THEN {req[r].key} ELSE {})
            ELSE /\ Rests(req[r], req'[r]) /\ raced' = raced
                 /\ Tail(req[r].plan) # <<>> => Same(req[r], req'[r])
         /\ SoundRequest(req'[r])
<1> DEFINE q == req[r]
<1>1. IsRequest(q) /\ q # C!New /\ SoundRequest(q) /\ SoundPlan(q) /\ PlanFacts(q)
  BY Underway DEF Shapes, C!Does
<1> HIDE DEF q
<1>2. CASE q.k # q.key
  <2> DEFINE p == FoundCopy(q, q.key, "fill", C!Inherited(e))
  <2>1. req' = [req EXCEPT ![r] = p]
    BY <1>2 DEF C!Found, FoundCopy, q, Shapes
  <2>2. /\ IsRequest(p) /\ p.kind = q.kind /\ p.plan = q.plan /\ p.key = q.key
        /\ p.k = q.key
        /\ p.at = "fill" /\ p.default = q.default /\ p.data = C!Inherited(e)
        /\ p.edits = q.edits /\ p.wrote = q.wrote /\ p.new = q.new
    BY <1>1, SetFound
  <2> HIDE DEF p
  <2>3. Kept(q, p)
    BY <2>2 DEF Kept
  <2>4. SoundPlan(p)
    BY <1>1, <2>2 DEF SoundPlan, Stage
  <2>5. SoundRequest(p)
    BY <1>1, <2>2, <2>4 DEF SoundRequest
  <2> QED
    BY <1>2, <2>1, <2>2, <2>3, <2>5, TurnOf DEF C!Found, q
<1>3. CASE q.k = q.key
  <2>1. req' = [req EXCEPT ![r] = C!Rest(q)] /\ raced' = raced
    BY <1>3 DEF C!Found, q
  <2>2. Turns(r) /\ req'[r] = C!Rest(q)
    BY <2>1, TurnOf
  <2>3. Rests(q, C!Rest(q)) /\ (Tail(q.plan) # <<>> => Same(q, C!Rest(q)))
    BY <1>1, RestOf
  <2>4. Tail(q.plan) # <<>> => Follows(q, C!Rest(q))
    BY <1>1, <2>3 DEF Rests, Same, Follows, C!Does, q, PlanFacts
  <2>5. SoundRequest(C!Rest(q))
    BY <1>1, <2>3, <2>4, SoundRest
  <2> QED
    BY <1>3, <2>1, <2>2, <2>3, <2>5 DEF q
<1> QED
  BY <1>2, <1>3

LEMMA LoadStep ==
  ASSUME C!ConfigCacheAssumption, Shapes, NEW r \in Request, C!Load(r)
  PROVE  /\ Turns(r) /\ Kept(req[r], req'[r]) /\ SoundRequest(req'[r])
         /\ LET q == req[r]
                p == req'[r]
                x == C!Seen(r, q.k)
            IN  IF C!Active(x) \/ q.k = System
                THEN /\ p.k = q.k /\ p.at = "fill"
                     /\ p.data = IF C!Active(x) THEN C!OfRow(x) ELSE C!OfDefault(q.default)
                ELSE p.k = System /\ p.at = "look"
<1> DEFINE q == req[r]
           x == C!Seen(r, q.k)
<1>1. IsRequest(q) /\ q # C!New /\ SoundRequest(q)
  BY Underway DEF Shapes, C!Load, C!Reads, C!Does
<1>2. ASSUME NEW p, req' = [req EXCEPT ![r] = p], IsRequest(p), Kept(q, p), p.k \in {q.k, System}
      PROVE  Turns(r) /\ req'[r] = p /\ SoundRequest(p)
  <2>1. SoundPlan(p)
    BY <1>1, <1>2 DEF SoundRequest, SoundPlan, Stage, Kept
  <2> QED
    BY <1>1, <1>2, <2>1, TurnOf DEF SoundRequest, Kept
<1> HIDE DEF q, x
<1>3. CASE C!Active(x) \/ q.k = System
  <2> DEFINE d == IF C!Active(x) THEN C!OfRow(x) ELSE C!OfDefault(q.default)
             p == LoadedCopy(q, "fill", d)
  <2>1. req' = [req EXCEPT ![r] = p]
    BY <1>3 DEF C!Load, LoadedCopy, q, x, Shapes
  <2> HIDE DEF d
  <2>2. /\ IsRequest(p) /\ p.kind = q.kind /\ p.plan = q.plan /\ p.key = q.key /\ p.k = q.k
        /\ p.at = "fill" /\ p.default = q.default /\ p.data = d
        /\ p.edits = q.edits /\ p.wrote = q.wrote /\ p.new = q.new
    BY <1>1, SetLoaded
  <2> HIDE DEF p
  <2>3. Kept(q, p)
    BY <2>2 DEF Kept
  <2> QED
    BY <1>2, <1>3, <2>1, <2>2, <2>3 DEF q, x, d
<1>4. CASE ~(C!Active(x) \/ q.k = System)
  <2> DEFINE p == HeirCopy(q, "look", System)
  <2>1. req' = [req EXCEPT ![r] = p]
    BY <1>4 DEF C!Load, HeirCopy, q, x, Shapes
  <2>2. /\ IsRequest(p) /\ p.kind = q.kind /\ p.plan = q.plan /\ p.key = q.key
        /\ p.k = System
        /\ p.at = "look" /\ p.default = q.default
        /\ p.edits = q.edits /\ p.wrote = q.wrote /\ p.new = q.new
    BY <1>1, SetHeir
  <2> HIDE DEF p
  <2>3. Kept(q, p)
    BY <2>2 DEF Kept
  <2> QED
    BY <1>2, <1>4, <2>1, <2>2, <2>3 DEF q, x
<1> QED
  BY <1>3, <1>4

LEMMA SaveStep ==
  ASSUME Shapes, NEW r \in Request, C!Save(r)
  PROVE  /\ Turns(r) /\ Rests(req[r], req'[r]) /\ Tail(req[r].plan) # <<>>
         /\ req'[r].edits = TRUE /\ req'[r].wrote = TRUE
         /\ SoundRequest(req'[r])
<1> DEFINE q == req[r]
           y == C!Rest(q)
<1>1. IsRequest(q) /\ q # C!New /\ SoundRequest(q) /\ PlanFacts(q) /\ Head(q.plan) = "save"
  BY Underway DEF Shapes, C!Save, C!Does
<1> DEFINE yes == TRUE
<1>2. PICK x : req' = [req EXCEPT ![r] = EditCopy(y, yes, yes, x)]
  BY DEF C!Save, EditCopy, Shapes
<1> DEFINE p == EditCopy(y, yes, yes, x)
<1>3. Tail(q.plan) # <<>> /\ IsRequest(y) /\ Rests(q, y)
  BY <1>1, RestOf DEF PlanFacts
<1> HIDE DEF q, y, yes
<1>4. /\ IsRequest(p) /\ p.kind = y.kind /\ p.plan = y.plan /\ p.key = y.key /\ p.k = y.k
      /\ p.at = y.at /\ p.default = y.default /\ p.edits = yes /\ p.wrote = yes
  BY <1>3, SetEdit
<1>5. Turns(r) /\ req'[r] = p
  BY <1>2, TurnOf
<1> HIDE DEF p
<1>6. Rests(q, p)
  BY <1>3, <1>4 DEF Rests
<1>7. Follows(q, p)
  BY <1>1, <1>3, <1>4, <1>6 DEF Rests, Follows, yes
<1>8. SoundRequest(p)
  BY <1>1, <1>6, <1>7, SoundRest
<1> QED
  BY <1>3, <1>4, <1>5, <1>6, <1>8 DEF q, yes

LEMMA DropStep ==
  ASSUME Shapes, NEW r \in Request, C!Drop(r)
  PROVE  /\ Turns(r) /\ Rests(req[r], req'[r])
         /\ Tail(req[r].plan) # <<>> =>
              /\ req'[r].edits = (req[r].edits \/ req[r].kind = "remove")
              /\ req'[r].wrote = req[r].wrote /\ req'[r].new = req[r].new
         /\ SoundRequest(req'[r])
<1> DEFINE q == req[r]
           y == C!Rest(q)
<1>1. IsRequest(q) /\ q # C!New /\ SoundRequest(q) /\ SoundPlan(q) /\ PlanFacts(q) /\ Head(q.plan) = "drop"
  BY Underway DEF Shapes, C!Drop, C!Does
<1> DEFINE e == y.edits \/ q.kind = "remove"
           p == [y EXCEPT !.edits = e]
<1>2. req' = [req EXCEPT ![r] = p]
  BY DEF C!Drop
<1>3. Rests(q, y) /\ (Tail(q.plan) # <<>> => IsRequest(y) /\ Same(q, y))
  BY <1>1, RestOf
<1>4. IsRequest(y)
  BY <1>3, NewIs DEF Rests
<1> HIDE DEF y, e
<1>5. /\ IsRequest(p) /\ p.kind = y.kind /\ p.plan = y.plan /\ p.key = y.key /\ p.k = y.k
      /\ p.at = y.at /\ p.default = y.default /\ p.edits = e /\ p.wrote = y.wrote
      /\ p.new = y.new
      /\ p.data = y.data
  BY <1>4, Set_edits
<1>6. Turns(r) /\ req'[r] = p
  BY <1>2, TurnOf
<1> HIDE DEF p
<1>7. CASE Tail(q.plan) = <<>>
  <2>1. y = C!New /\ q.kind # "remove"
    BY <1>1, <1>3, <1>7 DEF Rests, PlanFacts
  <2>2. e = y.edits
    BY <2>1, NewIs DEF e
  <2>3. p = y
    BY <1>4, <1>5, <2>2 DEF IsRequest
  <2> QED
    BY <1>3, <1>6, <1>7, <2>1, <2>3, NewIs DEF q, SoundRequest
<1>8. CASE Tail(q.plan) # <<>>
  <2>1. Rests(q, p)
    BY <1>3, <1>5, <1>8 DEF Rests
  <2>2. p.edits = (q.edits \/ q.kind = "remove") /\ p.wrote = q.wrote /\ p.new = q.new
    BY <1>3, <1>5, <1>8 DEF e, Same
  <2>3. Follows(q, p)
    BY <1>1, <1>8, <2>1, <2>2 DEF Rests, Follows
  <2>4. SoundRequest(p)
    BY <1>1, <2>1, <2>3, SoundRest
  <2> QED
    BY <1>6, <1>8, <2>1, <2>2, <2>4 DEF q
<1> QED
  BY <1>7, <1>8

LEMMA DropAllStep ==
  ASSUME Shapes, NEW r \in Request, C!DropAll(r)
  PROVE  /\ Turns(r) /\ req'[r] = C!New /\ SoundRequest(req'[r]) /\ ~req[r].edits
         /\ ~req[r].wrote
<1>1. IsRequest(req[r]) /\ req[r] # C!New /\ PlanFacts(req[r]) /\ Head(req[r].plan) = "drop_all"
  BY Underway DEF Shapes, C!DropAll, C!Does
<1>2. req' = [req EXCEPT ![r] = C!Rest(req[r])]
  BY DEF C!DropAll
<1>3. C!Rest(req[r]) = C!New
  BY <1>1 DEF PlanFacts, C!Rest
<1> QED
  BY <1>1, <1>2, <1>3, TurnOf, NewIs DEF SoundRequest, PlanFacts

LEMMA EndStep ==
  ASSUME Shapes, NEW r \in Request, C!Commit(r) \/ C!Abort(r)
  PROVE  Turns(r) /\ req'[r] = C!New /\ SoundRequest(req'[r])
<1>1. req' = [req EXCEPT ![r] = C!New]
  BY DEF C!Commit, C!Abort
<1> QED
  BY <1>1, TurnOf, NewIs DEF SoundRequest

LEMMA LookStep ==
  ASSUME C!ConfigCacheAssumption, Shapes, NEW r \in Request, C!Look(r)
  PROVE  /\ Turns(r)
         /\ \/ /\ Kept(req[r], req'[r]) /\ req'[r].k = req[r].k /\ req'[r].at = "load"
               /\ SoundRequest(req'[r]) /\ raced' = raced
            \/ /\ cache[req[r].k] # None
               /\ C!Found(r, cache[req[r].k])
<1> DEFINE q == req[r]
           x == cache[q.k]
<1>1. IsRequest(q) /\ q # C!New /\ SoundRequest(q)
  BY Underway DEF Shapes, C!Look, C!Reads, C!Does
<1>2. CASE IF q.k = q.key THEN C!Usable(r, x) ELSE x # None
  <2>1. C!Found(r, x) /\ x # None
    BY <1>2 DEF C!Look, C!Usable
  <2>2. Turns(r)
    BY <2>1, FoundStep DEF C!Look, C!Reads
  <2> QED
    BY <2>1, <2>2
<1>3. CASE ~(IF q.k = q.key THEN C!Usable(r, x) ELSE x # None)
  <2> DEFINE p == [q EXCEPT !.at = "load"]
  <2>1. req' = [req EXCEPT ![r] = p] /\ raced' = raced
    BY <1>3 DEF C!Look, Shapes
  <2> HIDE DEF q
  <2>2. /\ IsRequest(p) /\ p.kind = q.kind /\ p.plan = q.plan /\ p.key = q.key /\ p.k = q.k
        /\ p.at = "load" /\ p.default = q.default /\ p.edits = q.edits /\ p.wrote = q.wrote
        /\ p.new = q.new
    BY <1>1, Set_at
  <2> HIDE DEF p
  <2>3. Kept(q, p)
    BY <2>2 DEF Kept
  <2>4. SoundPlan(p)
    BY <1>1, <2>2 DEF SoundRequest, SoundPlan, Stage
  <2>5. SoundRequest(p)
    BY <1>1, <2>2, <2>4 DEF SoundRequest
  <2> QED
    BY <2>1, <2>2, <2>3, <2>5, TurnOf DEF q
<1> QED
  BY <1>2, <1>3

(* A step that neither begins nor ends an edit. *)
Quiet(r) ==
  /\ Turns(r)
  /\ req'[r].edits = req[r].edits /\ req'[r].wrote = req[r].wrote
  /\ req[r].edits => req'[r].key = req[r].key /\ req'[r].new = req[r].new

LEMMA QuietSteps ==
  ASSUME Shapes, NEW r \in Request, Quiet(r)
  PROVE  /\ \A t \in Request, k \in C!Key : C!Edits(t, k)' <=> C!Edits(t, k)
         /\ \A k \in C!Key : Edited(k)' <=> Edited(k)
         /\ \A x : \A t \in Request, k \in C!Key : View(req'[t], k, x) = View(req[t], k, x)
         /\ \A t \in Request : /\ req'[t].wrote = req[t].wrote
                               /\ req[t].edits => req'[t].new = req[t].new
         /\ OneWriter => OneWriter'
<1>1. \A t \in Request : /\ req'[t].edits = req[t].edits /\ req'[t].wrote = req[t].wrote
                         /\ req[t].edits => req'[t].key = req[t].key /\ req'[t].new = req[t].new
  BY DEF Quiet, Turns
<1>2. \A t \in Request, k \in C!Key : C!Edits(t, k)' <=> C!Edits(t, k)
  BY <1>1 DEF C!Edits
<1>3. \A k \in C!Key : Edited(k)' <=> Edited(k)
  BY <1>2 DEF Edited
<1>4. \A x : \A t \in Request, k \in C!Key : View(req'[t], k, x) = View(req[t], k, x)
  BY <1>1 DEF View
<1>5. OneWriter => OneWriter'
  BY <1>1, Underway DEF OneWriter
<1> QED
  BY <1>1, <1>2, <1>3, <1>4, <1>5

LEMMA ShapesOfTurn ==
  ASSUME Shapes, NEW r \in Request, Turns(r), SoundRequest(req'[r]),
         row' = [k \in C!Key |-> row'[k]], cache' = [k \in C!Key |-> cache'[k]], other' \in Other
  PROVE  Shapes'
BY DEF Shapes, Turns

LEMMA OthersHold ==
  ASSUME NEW r \in Request, Turns(r)
  PROVE  \A t \in Request \ {r}, k \in C!Key :
           /\ C!Holds(t, k)' <=> C!Holds(t, k)
           /\ C!Edits(t, k)' <=> C!Edits(t, k)
           /\ C!Reads(t, "fill")' <=> C!Reads(t, "fill")
           /\ C!Does(t, "read")' <=> C!Does(t, "read")
           /\ HasDropped(t, k)' <=> HasDropped(t, k)
BY DEF Turns, C!Holds, C!Edits, C!Reads, C!Does, HasDropped

(* Whoever has the data of a key holds it. *)
LEMMA Holders ==
  ASSUME C!ConfigCacheAssumption, Shapes, NEW r \in Request, NEW k \in C!Key
  PROVE  /\ C!Reads(r, "fill") /\ req[r].k = k => C!Holds(r, k)
         /\ C!Does(r, "read") /\ req[r].k # k /\ req[r].key = k => req[r].k = System /\ C!Holds(r, k)
         /\ req[r].at # "fill" /\ req[r].k = req[r].key => ~C!Holds(r, k)
         /\ req[r].plan = <<>> => ~C!Holds(r, k)
<1>1. C!Does(r, "read") => req[r].k \in {req[r].key, System}
  BY Underway DEF C!Does
<1> QED
  BY <1>1 DEF C!Holds, C!Reads, C!Does

(* The invariant while request r reads: what it finds is as the rows say.  *)
LEMMA FoundKeeps ==
  ASSUME C!ConfigCacheAssumption, ConfigCacheInv, NEW r \in Request, C!Does(r, "read"), NEW e, C!Found(r, e),
         UNCHANGED <<row, other>>,
         req[r].k # req[r].key /\ System \notin raced /\ ~Edited(System)
           => e \in OfSystem(other, row[System])
  PROVE  /\ Quiet(r) /\ SoundRequest(req'[r]) /\ raced \subseteq raced'
         /\ OneWriter' /\ HeldIsUnedited' /\ HeldIsCurrent' /\ HeirsHaveNoRow'
         /\ \A t \in Request, k \in C!Key : HasDropped(t, k)' => HasDropped(t, k)
<1> DEFINE q == req[r]
           p == req'[r]
<1>0. Shapes
  BY DEF ConfigCacheInv
<1>1. /\ q # C!New /\ PlanFacts(q) /\ q.key \in C!Key /\ q.k \in C!Key /\ q.k \in {q.key, System}
      /\ Head(q.plan) = "read" /\ q.edits \in BOOLEAN /\ q.wrote \in BOOLEAN
      /\ q.wrote => q.edits
  BY <1>0, Underway DEF C!Does
<1>2. /\ Turns(r) /\ SoundRequest(p)
      /\ IF q.k # q.key
         THEN /\ Kept(q, p) /\ p.k = q.key /\ p.at = "fill" /\ p.data = C!Inherited(e)
              /\ raced' = raced \cup (IF System \in raced THEN {q.key} ELSE {})
         ELSE /\ Rests(q, p) /\ raced' = raced
              /\ Tail(q.plan) # <<>> => Same(q, p)
  BY <1>0, FoundStep
<1>3. raced \subseteq raced'
  BY <1>2
<1>4. Quiet(r)
  <2>1. CASE q.k # q.key
    BY <1>2, <2>1 DEF Quiet, Kept
  <2>2. CASE q.k = q.key /\ Tail(q.plan) = <<>>
    BY <1>1, <1>2, <2>2, NewIs DEF Quiet, Rests, PlanFacts
  <2>3. CASE q.k = q.key /\ Tail(q.plan) # <<>>
    BY <1>2, <2>3 DEF Quiet, Rests, Same
  <2> QED
    BY <2>1, <2>2, <2>3
<1>5. OneWriter'
  BY <1>0, <1>4, QuietSteps DEF ConfigCacheInv
<1>6. /\ \A t \in Request, k \in C!Key : C!Edits(t, k)' <=> C!Edits(t, k)
      /\ \A k \in C!Key : Edited(k)' <=> Edited(k)
      /\ \A x : \A t \in Request, k \in C!Key : View(req'[t], k, x) = View(req[t], k, x)
  BY <1>0, <1>4, QuietSteps
<1>7. System \in C!Key
  BY DEF C!Key
<1>8. \A k \in C!Key : Claimed(k)' => Claimed(k)
  BY <1>3, <1>6, <1>7 DEF Claimed
<1>9. ASSUME NEW k \in C!Key, C!Holds(r, k)' PROVE q.k = System /\ q.key = k /\ k # System /\ C!Holds(r, k)
  <2>1. CASE q.k # q.key
    BY <1>1, <1>2, <1>9, <2>1 DEF C!Holds, C!Does, Kept
  <2>2. CASE q.k = q.key /\ Tail(q.plan) = <<>>
    BY <1>2, <1>9, <2>2, NewIs DEF C!Holds, C!Does, Rests
  <2>3. CASE q.k = q.key /\ Tail(q.plan) # <<>>
    BY <1>2, <1>9, <2>3 DEF C!Holds, C!Does, Rests
  <2> QED
    BY <2>1, <2>2, <2>3
<1>10. HeldIsUnedited'
  <2> SUFFICES ASSUME NEW s \in Request, NEW t \in Request, NEW k \in C!Key, k \notin raced',
                      C!Holds(s, k)', C!Edits(t, k)'
               PROVE  s = t
    BY DEF HeldIsUnedited
  <2>1. C!Holds(s, k)
    BY <1>2, <1>9, OthersHold
  <2> QED
    BY <1>3, <1>6, <2>1 DEF ConfigCacheInv, HeldIsUnedited
<1>11. HeldIsCurrent'
  <2> SUFFICES ASSUME NEW t \in Request, NEW k \in C!Key, C!Reads(t, "fill")', req'[t].k = k, Claimed(k)'
               PROVE  req'[t].data \in Given(other, row[System], k, View(req'[t], k, row[k]))
    BY DEF HeldIsCurrent
  <2>1. Claimed(k)
    BY <1>8
  <2>2. CASE t # r
    <3>1. C!Reads(t, "fill") /\ req[t] = req'[t]
      BY <1>2, <2>2, OthersHold DEF Turns
    <3> QED
      BY <2>1, <3>1 DEF ConfigCacheInv, HeldIsCurrent
  <2>3. CASE t = r
    <3>1. q.k # q.key
      BY <1>2, <2>3, NewIs DEF C!Reads, C!Does, Rests
    <3>2. q.k = System /\ k = q.key /\ k # System
      BY <1>1, <1>2, <2>3, <3>1
    <3>3. k \notin raced /\ System \notin raced /\ ~Edited(System)
      BY <1>2, <1>3, <1>6, <1>7, <3>1, <3>2 DEF Claimed
    <3>4. e \in OfSystem(other, row[System])
      BY <3>1, <3>3
    <3>5. ~C!Active(View(q, k, row[k]))
      BY <3>1, <3>2, <3>3 DEF ConfigCacheInv, HeirsHaveNoRow
    <3>6. View(p, k, row[k]) = View(q, k, row[k])
      BY <1>6
    <3> QED
      BY <1>2, <2>3, <3>1, <3>2, <3>4, <3>5, <3>6 DEF Given
  <2> QED
    BY <2>2, <2>3
<1>12. HeirsHaveNoRow'
  <2> SUFFICES ASSUME NEW t \in Request, NEW k \in C!Key, C!Does(t, "read")', req'[t].k # k,
                      req'[t].key = k, k \notin raced'
               PROVE  ~C!Active(View(req'[t], k, row[k]))
    BY DEF HeirsHaveNoRow
  <2>1. t # r
    BY <1>2, NewIs DEF Kept, Rests, C!Does
  <2>2. C!Does(t, "read") /\ req[t] = req'[t]
    BY <1>2, <2>1, OthersHold DEF Turns
  <2> QED
    BY <1>3, <2>2 DEF ConfigCacheInv, HeirsHaveNoRow
<1>13. \A t \in Request, k \in C!Key : HasDropped(t, k)' => HasDropped(t, k)
  <2> SUFFICES ASSUME NEW t \in Request, NEW k \in C!Key, HasDropped(t, k)' PROVE HasDropped(t, k)
    OBVIOUS
  <2>1. CASE t = r
    BY <1>1, <1>6, <2>1 DEF HasDropped
  <2>2. CASE t # r
    BY <1>2, <2>2, OthersHold
  <2> QED
    BY <2>1, <2>2
<1> QED
  BY <1>2, <1>3, <1>4, <1>5, <1>10, <1>11, <1>12, <1>13

(* The writers after a step of r, if it does not begin to write.           *)
LEMMA WritersStay ==
  ASSUME OneWriter, NEW r \in Request, Turns(r),
         req'[r].wrote => req[r].wrote /\ req'[r].key = req[r].key
  PROVE  OneWriter'
BY DEF OneWriter, Turns

(* Entries that a step leaves, of keys that nobody edits in another way    *)
(* than before.                                                            *)
LEMMA EntriesStay ==
  ASSUME EntriesFollowEdits,
         \A k \in C!Key : Claimed(k)' /\ cache'[k] # None =>
           /\ Claimed(k) /\ cache'[k] = cache[k]
           /\ other' = other /\ row'[k] = row[k] /\ row'[System] = row[System]
           /\ ~Edited(k)' => ~Edited(k)
           /\ \A t \in Request : HasDropped(t, k)' =>
                HasDropped(t, k) /\ req'[t].wrote = req[t].wrote /\ req'[t].new = req[t].new
  PROVE  EntriesFollowEdits'
<1> SUFFICES ASSUME NEW k \in C!Key, Claimed(k)', cache'[k] # None
             PROVE  /\ ~Edited(k)' => cache'[k] \in Given(other', row'[System], k, row'[k])
                    /\ \A t \in Request : HasDropped(t, k)' =>
                         req'[t].wrote /\ cache'[k] \in Given(other', row'[System], k, req'[t].new)
  BY DEF EntriesFollowEdits
<1>1. /\ ~Edited(k) => cache[k] \in Given(other, row[System], k, row[k])
      /\ \A t \in Request : HasDropped(t, k) =>
           req[t].wrote /\ cache[k] \in Given(other, row[System], k, req[t].new)
  BY DEF EntriesFollowEdits
<1> QED
  BY <1>1

(* What is held after a step of r that leaves r holding nothing.           *)
LEMMA HoldersStay ==
  ASSUME C!ConfigCacheAssumption, ConfigCacheInv, Shapes', NEW r \in Request, Turns(r), other' = other,
         \A k \in C!Key : ~C!Holds(r, k)',
         \A k \in C!Key \ raced', t \in Request \ {r} : C!Holds(t, k) =>
           /\ k \notin raced /\ (C!Edits(r, k)' => C!Edits(r, k)) /\ (Claimed(k)' => Claimed(k))
           /\ row'[k] = row[k] /\ row'[System] = row[System]
  PROVE  HeldIsUnedited' /\ HeldIsCurrent' /\ HeirsHaveNoRow'
<1>0. Shapes
  BY DEF ConfigCacheInv
<1>1. HeldIsUnedited'
  <2> SUFFICES ASSUME NEW s \in Request, NEW t \in Request, NEW k \in C!Key, k \notin raced',
                      C!Holds(s, k)', C!Edits(t, k)'
               PROVE  s = t
    BY DEF HeldIsUnedited
  <2>1. s # r
    OBVIOUS
  <2>2. C!Holds(s, k)
    BY <2>1, OthersHold
  <2>3. k \notin raced /\ C!Edits(t, k)
    BY <2>1, <2>2, OthersHold
  <2> QED
    BY <2>2, <2>3 DEF ConfigCacheInv, HeldIsUnedited
<1>2. HeldIsCurrent'
  <2> SUFFICES ASSUME NEW t \in Request, NEW k \in C!Key, C!Reads(t, "fill")', req'[t].k = k, Claimed(k)'
               PROVE  req'[t].data \in Given(other', row'[System], k, View(req'[t], k, row'[k]))
    BY DEF HeldIsCurrent
  <2>1. C!Holds(t, k)'
    BY DEF C!Holds, C!Reads
  <2>2. t # r
    BY <2>1
  <2>3. C!Reads(t, "fill") /\ req[t] = req'[t] /\ C!Holds(t, k) /\ k \notin raced'
    BY <2>1, <2>2, OthersHold DEF Turns, Claimed
  <2>4. Claimed(k) /\ row'[k] = row[k] /\ row'[System] = row[System]
    BY <2>2, <2>3
  <2> QED
    BY <2>3, <2>4 DEF ConfigCacheInv, HeldIsCurrent
<1>3. HeirsHaveNoRow'
  <2> SUFFICES ASSUME NEW t \in Request, NEW k \in C!Key, C!Does(t, "read")', req'[t].k # k,
                      req'[t].key = k, k \notin raced'
               PROVE  ~C!Active(View(req'[t], k, row'[k]))
    BY DEF HeirsHaveNoRow
  <2>1. CASE t = r
    <3>1. req'[r].k = System
      BY <2>1, NewIs DEF C!Does, Shapes, SoundRequest
    <3> QED
      BY <2>1, <3>1 DEF C!Holds
  <2>2. CASE t # r
    <3>1. C!Does(t, "read") /\ req[t] = req'[t]
      BY <2>2, OthersHold DEF Turns
    <3>2. C!Holds(t, k)
      BY <1>0, <3>1, Holders
    <3>3. k \notin raced /\ row'[k] = row[k]
      BY <2>2, <3>2
    <3> QED
      BY <3>1, <3>3 DEF ConfigCacheInv, HeirsHaveNoRow
  <2> QED
    BY <2>1, <2>2
<1> QED
  BY <1>1, <1>2, <1>3

(* A request that holds nothing. *)
LEMMA Idle ==
  ASSUME NEW r \in Request, \/ req'[r] = C!New
                            \/ req'[r].at = "look" /\ req'[r].k = req'[r].key
  PROVE  \A k \in C!Key : ~C!Holds(r, k)'
BY NewIs DEF C!Holds, C!Does

LEMMA LookKeeps == ASSUME C!ConfigCacheAssumption, ConfigCacheInv, NEW r \in Request, C!Look(r) PROVE ConfigCacheInv'
<1> DEFINE q == req[r]
           p == req'[r]
<1>0. Shapes /\ UNCHANGED <<row, cache, other>>
  BY DEF ConfigCacheInv, C!Look
<1>1. /\ Turns(r) /\ q # C!New /\ q.k \in C!Key /\ q.k \in {q.key, System} /\ C!Does(r, "read")
      /\ System \in C!Key
  BY <1>0, LookStep, Underway DEF C!Look, C!Reads, C!Does, C!Key
<1>2. CASE cache[q.k] # None /\ C!Found(r, cache[q.k])
  <2>1. ASSUME q.k # q.key, System \notin raced, ~Edited(System)
        PROVE  cache[q.k] \in OfSystem(other, row[System])
    <3>1. q.k = System
      BY <1>1, <2>1
    <3>2. cache[System] \in Given(other, row[System], System, row[System])
      BY <1>1, <1>2, <2>1, <3>1 DEF ConfigCacheInv, EntriesFollowEdits, Claimed
    <3> QED
      BY <3>1, <3>2 DEF Given, OfSystem
  <2>2. /\ Quiet(r) /\ SoundRequest(p) /\ raced \subseteq raced'
        /\ OneWriter' /\ HeldIsUnedited' /\ HeldIsCurrent' /\ HeirsHaveNoRow'
        /\ \A t \in Request, k \in C!Key : HasDropped(t, k)' => HasDropped(t, k)
    BY <1>0, <1>1, <1>2, <2>1, FoundKeeps
  <2>3. Shapes'
    BY <1>0, <1>1, <2>2, ShapesOfTurn DEF Shapes
  <2>4. EntriesFollowEdits'
    BY <1>0, <1>1, <2>2, QuietSteps, EntriesStay DEF ConfigCacheInv, Claimed, HasDropped, C!Edits
  <2> QED
    BY <2>2, <2>3, <2>4 DEF ConfigCacheInv
<1>3. CASE /\ Kept(q, p) /\ p.k = q.k /\ p.at = "load" /\ SoundRequest(p) /\ raced' = raced
  <2>1. Quiet(r)
    BY <1>1, <1>3 DEF Quiet, Kept
  <2>2. Shapes'
    BY <1>0, <1>1, <1>3, ShapesOfTurn DEF Shapes
  <2>3. /\ \A t \in Request, k \in C!Key : C!Edits(t, k)' <=> C!Edits(t, k)
        /\ \A k \in C!Key : Edited(k)' <=> Edited(k)
        /\ \A x : \A t \in Request, k \in C!Key : View(req'[t], k, x) = View(req[t], k, x)
        /\ OneWriter'
    BY <1>0, <2>1, QuietSteps DEF ConfigCacheInv
  <2>4. \A t \in Request, k \in C!Key : HasDropped(t, k)' => HasDropped(t, k)
    BY <1>1, <1>3, OthersHold DEF HasDropped, C!Edits, Kept
  <2>5. EntriesFollowEdits'
    BY <1>0, <1>1, <1>3, <2>1, <2>4, QuietSteps, EntriesStay DEF ConfigCacheInv, Claimed, HasDropped, C!Edits
  <2>6. \A t \in Request, k \in C!Key :
          /\ C!Holds(t, k)' => C!Holds(t, k)
          /\ C!Does(t, "read")' => C!Does(t, "read") /\ req'[t].k = req[t].k /\ req'[t].key = req[t].key
          /\ C!Reads(t, "fill")' => C!Reads(t, "fill") /\ req'[t] = req[t]
    BY <1>1, <1>3, OthersHold DEF C!Holds, C!Does, C!Reads, Kept, Turns
  <2>7. HeldIsUnedited'
    BY <1>3, <2>3, <2>6 DEF ConfigCacheInv, HeldIsUnedited
  <2>8. HeldIsCurrent'
    <3> SUFFICES ASSUME NEW t \in Request, NEW k \in C!Key, C!Reads(t, "fill")', req'[t].k = k, Claimed(k)'
                 PROVE  req'[t].data \in Given(other, row[System], k, View(req'[t], k, row[k]))
      BY <1>0 DEF HeldIsCurrent
    <3> QED
      BY <1>1, <1>3, <2>3, <2>6 DEF ConfigCacheInv, HeldIsCurrent, Claimed
  <2>9. HeirsHaveNoRow'
    <3> SUFFICES ASSUME NEW t \in Request, NEW k \in C!Key, C!Does(t, "read")', req'[t].k # k,
                        req'[t].key = k, k \notin raced'
                 PROVE  ~C!Active(View(req'[t], k, row[k]))
      BY <1>0 DEF HeirsHaveNoRow
    <3> QED
      BY <1>3, <2>3, <2>6 DEF ConfigCacheInv, HeirsHaveNoRow
  <2> QED
    BY <2>2, <2>3, <2>5, <2>7, <2>8, <2>9 DEF ConfigCacheInv
<1> QED
  BY <1>0, <1>2, <1>3, LookStep

LEMMA FillKeeps == ASSUME C!ConfigCacheAssumption, ConfigCacheInv, NEW r \in Request, C!Fill(r) PROVE ConfigCacheInv'
<1> DEFINE q == req[r]
           p == req'[r]
<1>0. Shapes /\ UNCHANGED <<row, other>> /\ cache' = [cache EXCEPT ![q.k] = q.data]
  BY DEF ConfigCacheInv, C!Fill
<1>1. /\ q # C!New /\ q.k \in C!Key /\ q.k \in {q.key, System} /\ C!Does(r, "read")
      /\ PlanFacts(q)
      /\ System \in C!Key /\ C!Reads(r, "fill") /\ C!Found(r, q.data)
  BY <1>0, Underway DEF C!Fill, C!Reads, C!Does, C!Key
<1>2. ASSUME q.k # q.key, System \notin raced, ~Edited(System)
      PROVE  q.data \in OfSystem(other, row[System])
  <2>1. q.k = System
    BY <1>1, <1>2
  <2>2. q.data \in Given(other, row[System], System, View(q, System, row[System]))
    BY <1>1, <1>2, <2>1 DEF ConfigCacheInv, HeldIsCurrent, Claimed
  <2> QED
    BY <1>2, <2>1, <2>2 DEF Given, OfSystem, View
<1>3. /\ Quiet(r) /\ SoundRequest(p) /\ raced \subseteq raced'
      /\ OneWriter' /\ HeldIsUnedited' /\ HeldIsCurrent' /\ HeirsHaveNoRow'
      /\ \A t \in Request, k \in C!Key : HasDropped(t, k)' => HasDropped(t, k)
  BY <1>0, <1>1, <1>2, FoundKeeps
<1>4. Turns(r) /\ Shapes'
  BY <1>0, <1>1, <1>3, ShapesOfTurn DEF Shapes, Quiet
<1>5. /\ \A k \in C!Key : Edited(k)' <=> Edited(k)
      /\ \A t \in Request : /\ req'[t].wrote = req[t].wrote
                            /\ req[t].edits => req'[t].new = req[t].new
  BY <1>0, <1>3, QuietSteps
<1>6. \A k \in C!Key : Claimed(k)' => Claimed(k)
  BY <1>1, <1>3, <1>5 DEF Claimed
<1>7. EntriesFollowEdits'
  <2> SUFFICES ASSUME NEW k \in C!Key, Claimed(k)', cache'[k] # None
               PROVE  /\ ~Edited(k)' => cache'[k] \in Given(other, row[System], k, row[k])
                      /\ \A t \in Request : HasDropped(t, k)' =>
                           req'[t].wrote /\ cache'[k] \in Given(other, row[System], k, req'[t].new)
    BY <1>0 DEF EntriesFollowEdits
  <2>1. CASE k # q.k
    <3>1. cache'[k] = cache[k]
      BY <1>0, <2>1 DEF Shapes
    <3>2. /\ ~Edited(k) => cache[k] \in Given(other, row[System], k, row[k])
          /\ \A t \in Request : HasDropped(t, k) =>
               req[t].wrote /\ cache[k] \in Given(other, row[System], k, req[t].new)
      BY <1>6, <3>1 DEF ConfigCacheInv, EntriesFollowEdits
    <3> QED
      BY <1>3, <1>5, <3>1, <3>2 DEF HasDropped, C!Edits
  <2>2. CASE k = q.k
    <3>1. cache'[k] = q.data
      BY <1>0, <2>2 DEF Shapes
    <3>2. q.data \in Given(other, row[System], k, View(q, k, row[k]))
      BY <1>1, <1>6, <2>2 DEF ConfigCacheInv, HeldIsCurrent
    <3>3. ~Edited(k)' => View(q, k, row[k]) = row[k]
      BY <1>5 DEF View, Edited, C!Edits
    <3>4. ASSUME NEW t \in Request, HasDropped(t, k)' PROVE t = r /\ q.wrote /\ View(q, k, row[k]) = p.new
      <4>1. HasDropped(t, k) /\ C!Edits(t, k)
        BY <1>3, <3>4 DEF HasDropped
      <4>2. C!Holds(r, k) /\ k \notin raced
        BY <1>0, <1>1, <1>6, <2>2, Holders DEF Claimed
      <4>3. t = r
        BY <4>1, <4>2 DEF ConfigCacheInv, HeldIsUnedited
      <4> QED
        BY <1>1, <1>5, <4>1, <4>3 DEF C!Edits, View, PlanFacts, C!Does
    <3> QED
      BY <1>5, <3>1, <3>2, <3>3, <3>4
  <2> QED
    BY <2>1, <2>2
<1> QED
  BY <1>3, <1>4, <1>7 DEF ConfigCacheInv

LEMMA LoadKeeps == ASSUME C!ConfigCacheAssumption, ConfigCacheInv, NEW r \in Request, C!Load(r) PROVE ConfigCacheInv'
<1> DEFINE q == req[r]
           p == req'[r]
           x == C!Seen(r, q.k)
<1>0. /\ Shapes /\ UNCHANGED <<row, cache, other>>
      /\ raced' = raced \cup (IF C!EditedByOther(r, q.k) THEN {q.k} ELSE {})
  BY DEF ConfigCacheInv, C!Load
<1>1. /\ q # C!New /\ q.key \in C!Key /\ q.k \in C!Key /\ q.k \in {q.key, System}
      /\ C!Does(r, "read")
      /\ PlanFacts(q) /\ q.default \in Default /\ q.at = "load" /\ System \in C!Key
  BY <1>0, Underway DEF C!Load, C!Reads, C!Does, C!Key
<1>2. /\ Turns(r) /\ Kept(q, p) /\ SoundRequest(p)
      /\ IF C!Active(x) \/ q.k = System
         THEN /\ p.k = q.k /\ p.at = "fill"
              /\ p.data = IF C!Active(x) THEN C!OfRow(x) ELSE C!OfDefault(q.default)
         ELSE p.k = System /\ p.at = "look"
  BY <1>0, LoadStep
<1>3. Quiet(r) /\ Shapes'
  BY <1>0, <1>2, ShapesOfTurn DEF Quiet, Kept, Shapes
<1>4. /\ \A t \in Request, k \in C!Key : C!Edits(t, k)' <=> C!Edits(t, k)
      /\ \A k \in C!Key : Edited(k)' <=> Edited(k)
      /\ \A y : \A t \in Request, k \in C!Key : View(req'[t], k, y) = View(req[t], k, y)
      /\ \A t \in Request : /\ req'[t].wrote = req[t].wrote
                            /\ req[t].edits => req'[t].new = req[t].new
      /\ OneWriter'
  BY <1>0, <1>3, QuietSteps DEF ConfigCacheInv
<1>5. \A k \in C!Key : Claimed(k)' => Claimed(k)
  BY <1>0, <1>1, <1>4 DEF Claimed
<1>6. \A t \in Request, k \in C!Key : HasDropped(t, k)' => HasDropped(t, k)
  BY <1>2, OthersHold DEF HasDropped, C!Edits, Kept
<1>7. EntriesFollowEdits'
  BY <1>0, <1>1, <1>4, <1>5, <1>6, EntriesStay DEF ConfigCacheInv, HasDropped, C!Edits
<1>8. x = View(q, q.k, row[q.k])
  BY <1>1 DEF C!Seen, View, PlanFacts, C!Does
<1>9. HeldIsUnedited'
  <2> SUFFICES ASSUME NEW s \in Request, NEW t \in Request, NEW k \in C!Key, k \notin raced',
                      C!Holds(s, k)', C!Edits(t, k)'
               PROVE  s = t
    BY DEF HeldIsUnedited
  <2>1. CASE C!Holds(s, k)
    BY <1>0, <1>4, <2>1 DEF ConfigCacheInv, HeldIsUnedited
  <2>2. CASE ~C!Holds(s, k)
    <3>1. s = r
      BY <1>2, <2>2, OthersHold
    <3>2. k = q.k
      BY <1>1, <1>2, <2>2, <3>1 DEF C!Holds, C!Does, Kept
    <3> QED
      BY <1>0, <1>4, <3>1, <3>2 DEF C!EditedByOther
  <2> QED
    BY <2>1, <2>2
<1>10. HeldIsCurrent'
  <2> SUFFICES ASSUME NEW t \in Request, NEW k \in C!Key, C!Reads(t, "fill")', req'[t].k = k, Claimed(k)'
               PROVE  req'[t].data \in Given(other, row[System], k, View(req'[t], k, row[k]))
    BY <1>0 DEF HeldIsCurrent
  <2>1. CASE t # r
    <3>1. C!Reads(t, "fill") /\ req[t] = req'[t]
      BY <1>2, <2>1, OthersHold DEF Turns
    <3> QED
      BY <1>5, <3>1 DEF ConfigCacheInv, HeldIsCurrent
  <2>2. CASE t = r
    <3>1. C!Active(x) \/ q.k = System
      BY <1>2, <2>2 DEF C!Reads
    <3>2. k = q.k /\ View(p, k, row[k]) = x
      BY <1>2, <1>4, <1>8, <2>2, <3>1
    <3>3. p.data = IF C!Active(x) THEN C!OfRow(x) ELSE C!OfDefault(q.default)
      BY <1>2, <3>1
    <3> QED
      BY <1>1, <2>2, <3>1, <3>2, <3>3 DEF Given, C!OfRow, Rendered, Defaults
  <2> QED
    BY <2>1, <2>2
<1>11. HeirsHaveNoRow'
  <2> SUFFICES ASSUME NEW t \in Request, NEW k \in C!Key, C!Does(t, "read")', req'[t].k # k,
                      req'[t].key = k, k \notin raced'
               PROVE  ~C!Active(View(req'[t], k, row[k]))
    BY <1>0 DEF HeirsHaveNoRow
  <2>1. CASE t # r
    <3>1. C!Does(t, "read") /\ req[t] = req'[t]
      BY <1>2, <2>1, OthersHold DEF Turns
    <3> QED
      BY <1>0, <3>1 DEF ConfigCacheInv, HeirsHaveNoRow
  <2>2. CASE t = r /\ q.k = k
    BY <1>2, <1>4, <1>8, <2>2
  <2>3. CASE t = r /\ q.k # k
    <3>1. q.key = k
      BY <1>2, <2>3 DEF Kept
    <3> QED
      BY <1>0, <1>1, <1>4, <2>3, <3>1 DEF ConfigCacheInv, HeirsHaveNoRow
  <2> QED
    BY <2>1, <2>2, <2>3
<1> QED
  BY <1>3, <1>4, <1>7, <1>9, <1>10, <1>11 DEF ConfigCacheInv

LEMMA BeginKeeps == ASSUME C!ConfigCacheAssumption, ConfigCacheInv, NEW r \in Request, C!Begin(r) PROVE ConfigCacheInv'
<1>0. Shapes /\ UNCHANGED <<row, cache, other, raced>>
  BY DEF ConfigCacheInv, C!Begin
<1>1. /\ Turns(r) /\ req[r] = C!New /\ req'[r].edits = FALSE /\ req'[r].wrote = FALSE
      /\ req'[r].at = "look" /\ req'[r].k = req'[r].key /\ SoundRequest(req'[r])
  BY <1>0, BeginStep
<1>2. Shapes' /\ OneWriter'
  BY <1>0, <1>1, ShapesOfTurn, WritersStay DEF Shapes, ConfigCacheInv
<1>3. \A k \in C!Key : Edited(k)' <=> Edited(k)
  BY <1>1, OthersHold, NewIs DEF Edited, C!Edits
<1>4. \A k \in C!Key : Claimed(k)' <=> Claimed(k)
  BY <1>0, <1>3 DEF Claimed, C!Key
<1>5. \A k \in C!Key : ~C!Holds(r, k)' /\ ~C!Edits(r, k)'
  BY <1>1, Idle DEF C!Edits
<1>6. HeldIsUnedited' /\ HeldIsCurrent' /\ HeirsHaveNoRow'
  BY <1>0, <1>1, <1>2, <1>4, <1>5, HoldersStay
<1>7. \A t \in Request, k \in C!Key : HasDropped(t, k)' =>
        HasDropped(t, k) /\ req'[t].wrote = req[t].wrote /\ req'[t].new = req[t].new
  BY <1>1, <1>5, OthersHold DEF HasDropped, Turns
<1>8. EntriesFollowEdits'
  BY <1>0, <1>3, <1>4, <1>7, EntriesStay DEF ConfigCacheInv
<1> QED
  BY <1>2, <1>6, <1>8 DEF ConfigCacheInv

LEMMA SaveKeeps == ASSUME C!ConfigCacheAssumption, ConfigCacheInv, NEW r \in Request, C!Save(r) PROVE ConfigCacheInv'
<1> DEFINE q == req[r]
           p == req'[r]
<1>0. /\ Shapes /\ UNCHANGED <<row, cache, other>>
      /\ \A t \in Request \ {r} : req[t].wrote => req[t].key # q.key
      /\ raced \subseteq raced'
      /\ C!HeldByOther(r, q.key) => q.key \in raced'
      /\ q.kind \in {"assign", "revoke"} /\ cache[q.key] # None => q.key \in raced'
  BY DEF ConfigCacheInv, C!Save, C!Begun
<1>1. q # C!New /\ PlanFacts(q) /\ q.key \in C!Key /\ Head(q.plan) = "save" /\ System \in C!Key
  BY <1>0, Underway DEF C!Save, C!Does, C!Key
<1>2. /\ Turns(r) /\ Rests(q, p) /\ Tail(q.plan) # <<>>
      /\ p.edits = TRUE /\ p.wrote = TRUE /\ SoundRequest(p)
  BY <1>0, SaveStep
<1>3. Shapes' /\ p.plan = Tail(q.plan) /\ p.key = q.key /\ p.k = p.key /\ p.at = "look"
  BY <1>0, <1>2, ShapesOfTurn DEF Shapes, Rests
<1>4. OneWriter'
  BY <1>0, <1>2, <1>3 DEF ConfigCacheInv, OneWriter, Turns
<1>5. \A k \in C!Key : Edited(k)' <=> Edited(k) \/ k = q.key
  BY <1>1, <1>2, <1>3, OthersHold DEF Edited, C!Edits, PlanFacts
<1>6. \A k \in C!Key : Claimed(k)' => Claimed(k) /\ (k = System \/ q.key # System)
  BY <1>0, <1>1, <1>5 DEF Claimed
<1>7. \A k \in C!Key : ~C!Holds(r, k)' /\ (C!Edits(r, k)' <=> k = q.key)
  BY <1>2, <1>3, Idle DEF C!Edits
<1>8. HeldIsUnedited' /\ HeldIsCurrent' /\ HeirsHaveNoRow'
  BY <1>0, <1>2, <1>3, <1>6, <1>7, HoldersStay DEF C!HeldByOther
<1>9. ASSUME NEW k \in C!Key, Claimed(k)', cache[k] # None, NEW t \in Request, HasDropped(t, k)'
      PROVE  t # r
  <2> SUFFICES ASSUME t = r PROVE FALSE
    OBVIOUS
  <2>1. k = q.key /\ Head(Tail(q.plan)) # "drop"
    BY <1>3, <1>7, <1>9 DEF HasDropped
  <2>2. q.kind = "remove"
    BY <1>0, <1>1, <1>9, <2>1 DEF PlanFacts, Claimed
  <2>3. HasDropped(r, k) /\ ~q.wrote
    BY <1>1, <2>1, <2>2 DEF PlanFacts, HasDropped, C!Edits
  <2> QED
    BY <1>6, <1>9, <2>3 DEF ConfigCacheInv, EntriesFollowEdits
<1>10. \A k \in C!Key, t \in Request : Claimed(k)' /\ cache[k] # None /\ HasDropped(t, k)' =>
         HasDropped(t, k) /\ req'[t] = req[t]
  BY <1>2, <1>9, OthersHold DEF Turns
<1>11. EntriesFollowEdits'
  BY <1>0, <1>5, <1>6, <1>10, EntriesStay DEF ConfigCacheInv
<1> QED
  BY <1>3, <1>4, <1>8, <1>11 DEF ConfigCacheInv

LEMMA DropKeeps == ASSUME C!ConfigCacheAssumption, ConfigCacheInv, NEW r \in Request, C!Drop(r) PROVE ConfigCacheInv'
<1> DEFINE q == req[r]
           p == req'[r]
<1>0. /\ Shapes /\ UNCHANGED <<row, other>>
      /\ cache' = [cache EXCEPT ![q.key] = None]
      /\ raced' = IF C!Clean(r, q.key) THEN raced \ {q.key} ELSE C!Begun(r, q.key)
  BY DEF ConfigCacheInv, C!Drop
<1>1. q # C!New /\ PlanFacts(q) /\ q.key \in C!Key /\ Head(q.plan) = "drop" /\ System \in C!Key
  BY <1>0, Underway DEF C!Drop, C!Does, C!Key
<1>2. /\ Turns(r) /\ Rests(q, p) /\ SoundRequest(p)
      /\ Tail(q.plan) # <<>> =>
           /\ p.edits = (q.edits \/ q.kind = "remove") /\ p.wrote = q.wrote /\ p.new = q.new
  BY <1>0, DropStep
<1>3. /\ p = C!New \/ (p.at = "look" /\ p.k = p.key)
      /\ q.edits => p.edits
      /\ p.edits => p.key = q.key
      /\ p.wrote => q.wrote /\ p.key = q.key
  <2>1. CASE Tail(q.plan) = <<>>
    <3>1. ~q.edits
      BY <1>1, <2>1 DEF PlanFacts
    <3>2. p = C!New
      BY <1>2, <2>1 DEF Rests
    <3> QED
      BY <3>1, <3>2, NewIs
  <2>2. CASE Tail(q.plan) # <<>>
    <3>1. /\ p.edits = (q.edits \/ q.kind = "remove") /\ p.wrote = q.wrote
          /\ p.key = q.key /\ p.at = "look" /\ p.k = q.key
      BY <1>2, <2>2 DEF Rests
    <3>2. q.edits => p.edits
      BY <3>1
    <3> QED
      BY <3>1, <3>2
  <2> QED
    BY <2>1, <2>2
<1>4. Shapes' /\ OneWriter'
  BY <1>0, <1>2, <1>3, ShapesOfTurn, WritersStay DEF Shapes, ConfigCacheInv
<1>5. \A k \in C!Key : /\ ~C!Holds(r, k)' /\ (C!Edits(r, k)' => k = q.key)
                       /\ (C!Edits(r, k) => C!Edits(r, k)')
  BY <1>3, Idle DEF C!Edits
<1>6. \A k \in C!Key : Edited(k) => Edited(k)'
  BY <1>2, <1>5, OthersHold DEF Edited
<1>7. \A k \in C!Key : k # q.key /\ k \notin raced' => k \notin raced
  BY <1>0 DEF C!Begun
<1>8. \A k \in C!Key : Claimed(k)' /\ k # q.key => Claimed(k)
  BY <1>1, <1>6, <1>7 DEF Claimed
<1>9. q.key \notin raced' => ~C!HeldByOther(r, q.key)
  BY <1>0 DEF C!Clean, C!Begun
<1>10. HeldIsUnedited' /\ HeldIsCurrent' /\ HeirsHaveNoRow'
  BY <1>0, <1>2, <1>4, <1>5, <1>7, <1>8, <1>9, HoldersStay DEF C!HeldByOther
<1>11. \A k \in C!Key : cache'[k] = IF k = q.key THEN None ELSE cache[k]
  BY <1>0 DEF Shapes
<1>12. \A k \in C!Key : k # q.key /\ ~Edited(k)' => ~Edited(k)
  BY <1>6
<1>13. \A k \in C!Key, t \in Request : k # q.key /\ HasDropped(t, k)' =>
         HasDropped(t, k) /\ req'[t] = req[t]
  BY <1>2, <1>5, OthersHold DEF HasDropped, Turns
<1>14. EntriesFollowEdits'
  BY <1>0, <1>8, <1>11, <1>12, <1>13, EntriesStay DEF ConfigCacheInv
<1> QED
  BY <1>4, <1>10, <1>14 DEF ConfigCacheInv

LEMMA DropAllKeeps == ASSUME C!ConfigCacheAssumption, ConfigCacheInv, NEW r \in Request, C!DropAll(r) PROVE ConfigCacheInv'
<1> DEFINE q == req[r]
           p == req'[r]
<1>0. /\ Shapes /\ UNCHANGED <<row, other>>
      /\ cache' = [k \in C!Key |-> IF k = System THEN cache[k] ELSE None]
      /\ raced' = raced \ {u \in User : C!Clean(r, u)}
  BY DEF ConfigCacheInv, C!DropAll
<1>1. Turns(r) /\ p = C!New /\ SoundRequest(p) /\ ~q.edits /\ ~q.wrote
  BY <1>0, DropAllStep
<1>2. Shapes' /\ OneWriter'
  BY <1>0, <1>1, ShapesOfTurn, WritersStay, NewIs DEF Shapes, ConfigCacheInv
<1>3. \A k \in C!Key : ~C!Holds(r, k)' /\ ~C!Edits(r, k)' /\ ~C!Edits(r, k)
  BY <1>1, Idle, NewIs DEF C!Edits
<1>4. \A k \in C!Key : Edited(k)' <=> Edited(k)
  BY <1>1, <1>3, OthersHold DEF Edited
<1>5. System \in C!Key /\ System \notin User
  BY DEF C!Key, C!ConfigCacheAssumption
<1>6. \A k \in C!Key \ raced' : k \notin raced \/ (k \in User /\ C!Clean(r, k))
  BY <1>0
<1>7. \A k \in C!Key \ raced', t \in Request \ {r} : C!Holds(t, k) => k \notin raced
  BY <1>6 DEF C!Clean, C!HeldByOther
<1>8. \A k \in C!Key : Claimed(k)' /\ k \notin raced => Claimed(k)
  BY <1>4, <1>5 DEF Claimed
<1>9. HeldIsUnedited' /\ HeldIsCurrent' /\ HeirsHaveNoRow'
  BY <1>0, <1>1, <1>2, <1>3, <1>7, <1>8, HoldersStay
<1>10. \A k \in C!Key : cache'[k] # None => k = System /\ cache'[k] = cache[k]
  BY <1>0
<1>11. Claimed(System)' => Claimed(System)
  BY <1>5, <1>6, <1>8 DEF Claimed
<1>12. \A k \in C!Key, t \in Request : HasDropped(t, k)' => HasDropped(t, k) /\ req'[t] = req[t]
  BY <1>1, <1>3, OthersHold DEF HasDropped, Turns
<1>13. EntriesFollowEdits'
  BY <1>0, <1>4, <1>10, <1>11, <1>12, EntriesStay DEF ConfigCacheInv
<1> QED
  BY <1>2, <1>9, <1>13 DEF ConfigCacheInv

LEMMA CommitKeeps == ASSUME C!ConfigCacheAssumption, ConfigCacheInv, NEW r \in Request, C!Commit(r) PROVE ConfigCacheInv'
<1> DEFINE q == req[r]
<1>0. /\ Shapes /\ UNCHANGED <<cache, other>>
      /\ row' = [row EXCEPT ![q.key] = q.new]
      /\ raced' = raced \cup (IF q.key = System THEN C!Heirs ELSE {})
  BY DEF ConfigCacheInv, C!Commit
<1>1. /\ q # C!New /\ PlanFacts(q) /\ q.key \in C!Key /\ Head(q.plan) = "commit"
      /\ System \in C!Key
      /\ q.edits /\ q.wrote /\ HasDropped(r, q.key)
  BY <1>0, Underway DEF C!Commit, C!Does, C!Key, PlanFacts, HasDropped, C!Edits
<1>2. Turns(r) /\ req'[r] = C!New /\ SoundRequest(req'[r])
  BY <1>0, EndStep
<1>3. Shapes' /\ OneWriter'
  BY <1>0, <1>2, ShapesOfTurn, WritersStay, NewIs DEF Shapes, ConfigCacheInv
<1>4. \A k \in C!Key : ~C!Holds(r, k)' /\ ~C!Edits(r, k)' /\ (k # q.key => ~C!Edits(r, k))
  BY <1>2, Idle, NewIs DEF C!Edits
<1>5. /\ \A k \in C!Key : k # q.key => (Edited(k)' <=> Edited(k)) /\ row'[k] = row[k]
      /\ row'[q.key] = q.new
  BY <1>0, <1>1, <1>2, <1>4, OthersHold DEF Edited, Shapes
<1>6. \A k \in C!Key \ raced' : q.key = System /\ k # System =>
        cache[k] = None /\ \A t \in Request : ~C!Holds(t, k)
  BY <1>0 DEF C!Heirs, C!Key
<1>7. \A k \in C!Key : Claimed(k)' /\ (k # q.key \/ k = System => q.key # System) => Claimed(k)
  BY <1>0, <1>1, <1>5 DEF Claimed
<1>8. ASSUME NEW k \in C!Key \ raced', NEW t \in Request \ {r}, C!Holds(t, k)
      PROVE  /\ k \notin raced /\ (Claimed(k)' => Claimed(k))
             /\ row'[k] = row[k] /\ row'[System] = row[System]
  <2>1. k # q.key
    BY <1>0, <1>1, <1>8 DEF ConfigCacheInv, HeldIsUnedited, HasDropped
  <2>2. q.key # System
    BY <1>6, <1>8, <2>1
  <2> QED
    BY <1>0, <1>1, <1>5, <1>7, <2>1, <2>2
<1>9. HeldIsUnedited' /\ HeldIsCurrent' /\ HeirsHaveNoRow'
  BY <1>0, <1>2, <1>3, <1>4, <1>8, HoldersStay
<1>10. \A k \in C!Key, t \in Request : HasDropped(t, k)' => t # r /\ HasDropped(t, k) /\ req'[t] = req[t]
  BY <1>2, <1>4, OthersHold DEF HasDropped, Turns
<1>11. EntriesFollowEdits'
  <2> SUFFICES ASSUME NEW k \in C!Key, Claimed(k)', cache[k] # None
               PROVE  /\ ~Edited(k)' => cache[k] \in Given(other, row'[System], k, row'[k])
                      /\ \A t \in Request : HasDropped(t, k)' =>
                           req'[t].wrote /\ cache[k] \in Given(other, row'[System], k, req'[t].new)
    BY <1>0 DEF EntriesFollowEdits
  <2>1. k = System \/ q.key # System
    BY <1>6 DEF Claimed
  <2>2. Claimed(k)
    BY <1>0, <1>1, <1>5, <2>1 DEF Claimed
  <2>3. /\ ~Edited(k) => cache[k] \in Given(other, row[System], k, row[k])
        /\ \A t \in Request : HasDropped(t, k) =>
             req[t].wrote /\ cache[k] \in Given(other, row[System], k, req[t].new)
    BY <2>2 DEF ConfigCacheInv, EntriesFollowEdits
  <2>4. \A x : Given(other, row'[System], k, x) = Given(other, row[System], k, x)
    <3>1. CASE k = System
      BY <3>1 DEF Given
    <3>2. CASE q.key # System
      BY <1>1, <1>5, <3>2
    <3> QED
      BY <2>1, <3>1, <3>2
  <2>5. CASE k = q.key
    <3>1. cache[k] \in Given(other, row[System], k, q.new)
      BY <1>1, <2>3, <2>5
    <3>2. ASSUME NEW t \in Request, HasDropped(t, k)' PROVE FALSE
      <4>1. t # r /\ HasDropped(t, k)
        BY <1>10, <3>2
      <4>2. req[t].wrote /\ req[t].key = k
        BY <2>3, <4>1 DEF HasDropped, C!Edits
      <4> QED
        BY <1>1, <2>5, <4>1, <4>2 DEF ConfigCacheInv, OneWriter
    <3> QED
      BY <1>5, <2>4, <2>5, <3>1, <3>2
  <2>6. CASE k # q.key
    BY <1>5, <1>10, <2>3, <2>4, <2>6
  <2> QED
    BY <2>5, <2>6
<1> QED
  BY <1>3, <1>9, <1>11 DEF ConfigCacheInv

LEMMA AbortKeeps == ASSUME C!ConfigCacheAssumption, ConfigCacheInv, NEW r \in Request, C!Abort(r) PROVE ConfigCacheInv'
<1> DEFINE q == req[r]
<1>0. /\ Shapes /\ UNCHANGED <<row, cache, other>>
      /\ raced' = raced \cup (IF q.edits
                              THEN {q.key} \cup (IF q.key = System THEN C!Heirs ELSE {})
                              ELSE {})
  BY DEF ConfigCacheInv, C!Abort
<1>1. q # C!New /\ PlanFacts(q) /\ q.key \in C!Key /\ System \in C!Key /\ q.edits \in BOOLEAN
  BY <1>0, Underway DEF C!Abort, C!Key
<1>2. Turns(r) /\ req'[r] = C!New /\ SoundRequest(req'[r])
  BY <1>0, EndStep
<1>3. Shapes' /\ OneWriter'
  BY <1>0, <1>2, ShapesOfTurn, WritersStay, NewIs DEF Shapes, ConfigCacheInv
<1>4. \A k \in C!Key : ~C!Holds(r, k)' /\ ~C!Edits(r, k)' /\ (C!Edits(r, k) => q.edits /\ k = q.key)
  BY <1>2, Idle, NewIs DEF C!Edits
<1>5. \A k \in C!Key : k \notin raced' => k \notin raced /\ ~C!Edits(r, k) /\ (Edited(k)' <=> Edited(k))
  BY <1>0, <1>2, <1>4, OthersHold DEF Edited
<1>6. \A k \in C!Key \ raced' : q.edits /\ q.key = System =>
        k # System /\ cache[k] = None /\ \A t \in Request : ~C!Holds(t, k)
  BY <1>0 DEF C!Heirs, C!Key
<1>7. \A k \in C!Key : (q.edits => q.key # System) /\ Claimed(k)' => Claimed(k)
  <2> SUFFICES ASSUME NEW k \in C!Key, q.edits => q.key # System, Claimed(k)' PROVE Claimed(k)
    OBVIOUS
  <2>1. Edited(System)' <=> Edited(System)
    BY <1>1, <1>2, <1>4, OthersHold DEF Edited
  <2> QED
    BY <1>5, <2>1 DEF Claimed
<1>8. \A k \in C!Key \ raced', t \in Request \ {r} : C!Holds(t, k) => k \notin raced /\ (Claimed(k)' => Claimed(k))
  BY <1>5, <1>6, <1>7
<1>9. HeldIsUnedited' /\ HeldIsCurrent' /\ HeirsHaveNoRow'
  BY <1>0, <1>2, <1>3, <1>4, <1>8, HoldersStay
<1>10. \A k \in C!Key, t \in Request : HasDropped(t, k)' => HasDropped(t, k) /\ req'[t] = req[t]
  BY <1>2, <1>4, OthersHold DEF HasDropped, Turns
<1>11. \A k \in C!Key : Claimed(k)' /\ cache[k] # None => Claimed(k) /\ (~Edited(k)' => ~Edited(k))
  BY <1>5, <1>6, <1>7 DEF Claimed
<1>12. EntriesFollowEdits'
  BY <1>0, <1>10, <1>11, EntriesStay DEF ConfigCacheInv
<1> QED
  BY <1>3, <1>9, <1>12 DEF ConfigCacheInv

(* What does not show how the template is rendered does not depend on it.  *)
LEMMA GivenOfOther ==
  ASSUME NEW o \in Other, NEW p, NEW s, NEW k, NEW x, NEW e \in Given(o, s, k, x), e.value \notin Other
  PROVE  e \in Given(p, s, k, x)
<1>1. ASSUME NEW y, Rendered(o, y).value \notin Other PROVE Rendered(o, y) = Rendered(p, y)
  BY <1>1 DEF Rendered, C!Entry
<1>2. CASE C!Active(x)
  BY <1>1, <1>2 DEF Given
<1>3. CASE ~C!Active(x) /\ k = System
  BY <1>3 DEF Given
<1>4. CASE ~C!Active(x) /\ k # System
  <2>1. PICK y \in OfSystem(o, s) : e = C!Inherited(y)
    BY <1>4 DEF Given
  <2>2. CASE ~C!Active(s)
    BY <1>4, <2>1, <2>2 DEF Given, OfSystem
  <2>3. CASE C!Active(s)
    <3>1. e = C!Inherited(Rendered(o, s))
      BY <2>1, <2>3 DEF OfSystem
    <3>2. C!Inherited(Rendered(o, s)) = C!Inherited(Rendered(p, s))
      <4>1. CASE s.inherit
        <5>1. e.value = Rendered(o, s).value
          BY <3>1, <4>1 DEF C!Inherited, C!OfDefault, Rendered, C!Entry
        <5> QED
          BY <1>1, <5>1
      <4>2. CASE ~s.inherit
        BY <4>2 DEF C!Inherited, C!OfDefault, Rendered, C!Entry
      <4> QED
        BY <4>1, <4>2
    <3> QED
      BY <1>4, <2>3, <3>1, <3>2 DEF Given, OfSystem
  <2> QED
    BY <2>2, <2>3
<1> QED
  BY <1>2, <1>3, <1>4

LEMMA EditOtherKeeps == ASSUME C!ConfigCacheAssumption, ConfigCacheInv, C!EditOther PROVE ConfigCacheInv'
<1>0. /\ Shapes /\ UNCHANGED <<row, cache, req>> /\ other' \in Other /\ other \in Other
      /\ raced' = raced \cup {k \in C!Key : cache[k] # None /\ cache[k].value \in Other}
                        \cup {k \in C!Key : \E r \in Request : C!Holds(r, k)}
  BY DEF ConfigCacheInv, C!EditOther, Shapes
<1>1. Shapes' /\ OneWriter'
  BY <1>0 DEF Shapes, ConfigCacheInv, OneWriter
<1>2. /\ \A r \in Request, k \in C!Key : /\ C!Holds(r, k)' <=> C!Holds(r, k)
                                         /\ C!Edits(r, k)' <=> C!Edits(r, k)
                                         /\ HasDropped(r, k)' <=> HasDropped(r, k)
      /\ \A k \in C!Key : Edited(k)' <=> Edited(k)
  BY <1>0 DEF C!Holds, C!Edits, HasDropped, Edited, C!Does
<1>3. \A r \in Request, k \in C!Key \ raced' : ~C!Holds(r, k)
  BY <1>0
<1>4. HeldIsUnedited'
  BY <1>2, <1>3 DEF HeldIsUnedited
<1>5. HeldIsCurrent'
  BY <1>0, <1>3, Holders DEF HeldIsCurrent, Claimed, C!Reads, C!Does
<1>6. HeirsHaveNoRow'
  BY <1>0, <1>3, Holders DEF HeirsHaveNoRow, C!Does
<1>7. EntriesFollowEdits'
  <2> SUFFICES ASSUME NEW k \in C!Key, Claimed(k)', cache[k] # None
               PROVE  /\ ~Edited(k) => cache[k] \in Given(other', row[System], k, row[k])
                      /\ \A t \in Request : HasDropped(t, k) =>
                           req[t].wrote /\ cache[k] \in Given(other', row[System], k, req[t].new)
    BY <1>0, <1>2 DEF EntriesFollowEdits
  <2>1. Claimed(k) /\ cache[k].value \notin Other
    BY <1>0, <1>2 DEF Claimed, C!Key
  <2>2. /\ ~Edited(k) => cache[k] \in Given(other, row[System], k, row[k])
        /\ \A t \in Request : HasDropped(t, k) =>
             req[t].wrote /\ cache[k] \in Given(other, row[System], k, req[t].new)
    BY <2>1 DEF ConfigCacheInv, EntriesFollowEdits
  <2> QED
    BY <1>0, <2>1, <2>2, GivenOfOther
<1> QED
  BY <1>1, <1>4, <1>5, <1>6, <1>7 DEF ConfigCacheInv

LEMMA ExpireKeeps == ASSUME C!ConfigCacheAssumption, ConfigCacheInv, NEW k \in C!Key, C!Expire(k) PROVE ConfigCacheInv'
<1>0. /\ Shapes /\ UNCHANGED <<row, other, req, raced>>
      /\ cache' = [cache EXCEPT ![k] = None]
  BY DEF ConfigCacheInv, C!Expire
<1>1. Shapes' /\ OneWriter' /\ HeldIsUnedited' /\ HeldIsCurrent' /\ HeirsHaveNoRow'
  <2>1. Shapes' /\ OneWriter'
    BY <1>0 DEF Shapes, ConfigCacheInv, OneWriter
  <2>2. HeldIsUnedited'
    BY <1>0 DEF ConfigCacheInv, HeldIsUnedited, C!Holds, C!Edits, C!Does
  <2>3. HeldIsCurrent'
    BY <1>0 DEF ConfigCacheInv, HeldIsCurrent, C!Reads, C!Does, Claimed, Edited, C!Edits
  <2>4. HeirsHaveNoRow'
    BY <1>0 DEF ConfigCacheInv, HeirsHaveNoRow, C!Does
  <2> QED
    BY <2>1, <2>2, <2>3, <2>4
<1>2. \A j \in C!Key : cache'[j] # None => cache'[j] = cache[j]
  BY <1>0 DEF Shapes
<1>3. EntriesFollowEdits'
  BY <1>0, <1>2, EntriesStay DEF ConfigCacheInv, Claimed, Edited, C!Edits, HasDropped
<1> QED
  BY <1>1, <1>3 DEF ConfigCacheInv

LEMMA ConfigCacheInvInit == ASSUME C!ConfigCacheAssumption, C!Init PROVE ConfigCacheInv
<1>1. \A r \in Request : /\ req[r] = C!New /\ ~req[r].edits /\ ~req[r].wrote
                         /\ req[r].plan = <<>>
  BY NewIs DEF C!Init
<1>2. Shapes
  BY <1>1, NewIs DEF C!Init, Shapes, SoundRequest
<1>3. \A k \in C!Key : cache[k] = None
  BY DEF C!Init
<1> QED
  BY <1>1, <1>2, <1>3 DEF ConfigCacheInv, OneWriter, HeldIsUnedited, HeldIsCurrent, HeirsHaveNoRow,
     EntriesFollowEdits, C!Edits, C!Does, C!Reads

LEMMA ConfigCacheInvNext == ASSUME C!ConfigCacheAssumption, ConfigCacheInv, [C!Next]_(C!vars) PROVE ConfigCacheInv'
<1>1. ASSUME NEW r \in Request, C!Begin(r) PROVE ConfigCacheInv'
  BY <1>1, BeginKeeps
<1>2. ASSUME NEW r \in Request, C!Look(r) PROVE ConfigCacheInv'
  BY <1>2, LookKeeps
<1>3. ASSUME NEW r \in Request, C!Load(r) PROVE ConfigCacheInv'
  BY <1>3, LoadKeeps
<1>4. ASSUME NEW r \in Request, C!Fill(r) PROVE ConfigCacheInv'
  BY <1>4, FillKeeps
<1>5. ASSUME NEW r \in Request, C!Save(r) PROVE ConfigCacheInv'
  BY <1>5, SaveKeeps
<1>6. ASSUME NEW r \in Request, C!Drop(r) PROVE ConfigCacheInv'
  BY <1>6, DropKeeps
<1>7. ASSUME NEW r \in Request, C!DropAll(r) PROVE ConfigCacheInv'
  BY <1>7, DropAllKeeps
<1>8. ASSUME NEW r \in Request, C!Commit(r) PROVE ConfigCacheInv'
  BY <1>8, CommitKeeps
<1>9. ASSUME NEW r \in Request, C!Abort(r) PROVE ConfigCacheInv'
  BY <1>9, AbortKeeps
<1>10. CASE C!EditOther
  BY <1>10, EditOtherKeeps
<1>11. ASSUME NEW k \in C!Key, C!Expire(k) PROVE ConfigCacheInv'
  BY <1>11, ExpireKeeps
<1>12. CASE UNCHANGED C!vars
  BY <1>12 DEF C!vars, ConfigCacheInv, Shapes, OneWriter, HeldIsUnedited, HeldIsCurrent, HeirsHaveNoRow,
     EntriesFollowEdits, C!Holds, C!Edits, C!Reads, C!Does, Claimed, Edited, HasDropped
<1> QED
  BY <1>1, <1>2, <1>3, <1>4, <1>5, <1>6, <1>7, <1>8, <1>9, <1>10, <1>11, <1>12 DEF C!Next

(* ConfigCacheBase.get_data, set_value, del_value and the signal handlers: *)
(* an entry is what the rows say.                                          *)
THEOREM CurrentEntries ==
  ASSUME C!ConfigCacheAssumption PROVE C!Spec => []C!EntriesAreCurrent
<1>1. C!Init => ConfigCacheInv
  BY ConfigCacheInvInit
<1>2. ConfigCacheInv /\ [C!Next]_(C!vars) => ConfigCacheInv'
  BY ConfigCacheInvNext
<1> QED
  BY <1>1, <1>2, InvShowsCurrent, PTL DEF C!Spec

===============================================================================
