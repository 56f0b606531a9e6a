--------------------------- MODULE PermissionCache ---------------------------
(***************************************************************************)
(* The cached permissions of one user for one HTTP method: calls of        *)
(* get_user_permission through MagicCacheData.make_cache, and the edits of *)
(* roles, menus, departments and users whose signals delete the entry.     *)
(*                                                                         *)
(* The permissions in the database are a version number.  A signal is sent *)
(* by save(), before the many-to-many rows are written and before the      *)
(* transaction of the request commits, so an edit stays open for a while   *)
(* after it has deleted the entry.                                         *)
(***************************************************************************)
EXTENDS Naturals

CONSTANTS
  Caller,       \* calls of get_user_permission; each happens once
  Empty,        \* "no entry", "no caller"
  Dead,         \* a holder of the lock that no longer exists
  Failed,       \* the empty text that stands for a query that raised
  MaxMoves,     \* bound: edits begun, entries grown old
  MaxCrashes    \* bound: callers that die

ASSUME BoundAssumption == MaxMoves \in Nat /\ MaxCrashes \in Nat
ASSUME NamesAssumption ==
  Empty \notin Caller /\ Dead \notin Caller /\ Empty # Dead /\ Failed \notin Nat

VARIABLES
  db,           \* the version of the permissions that is committed
  open,         \* edits that have deleted the entry and not yet ended
  entry,        \* the cache entry, or Empty
  lock,         \* who holds the Redis lock: a caller, Dead or Empty
  call,         \* call[c]: program counter and local variables of a call
  moves, crashes

vars == <<db, open, entry, lock, call, moves, crashes>>

-----------------------------------------------------------------------------
(* Types *)

Data == (0..MaxMoves) \cup {Failed}

(* raced is history: an edit was open when the data were read, or began    *)
(* before they were published, or one that deletes no entry came later.    *)
Entry == [status : {"ready", "ok"}, data : Data, aged : BOOLEAN, raced : BOOLEAN]

Makes == {"making", "made"}

Holds == {"holding", "published"} \cup Makes

(* res: the entry as the call read it; since: the version at its start. *)
CallState ==
  [pc : {"idle", "waiting", "locking", "done"} \cup Holds, since : 0..MaxMoves,
   res : {Empty} \cup Entry, data : Data, raced : BOOLEAN]

ASSUME EmptyAssumption == Empty \notin Entry

TypeOK ==
  /\ db \in 0..MaxMoves
  /\ open \in 0..MaxMoves
  /\ entry \in {Empty} \cup Entry
  /\ lock \in Caller \cup {Empty, Dead}
  /\ call \in [Caller -> CallState]
  /\ moves \in 0..MaxMoves
  /\ crashes \in 0..MaxCrashes

-----------------------------------------------------------------------------
(* Helpers *)

(* res = {"c_time": n_time, "data": "", "status": "ready"} *)
Unfinished == [status |-> "ready", data |-> Failed, aged |-> FALSE, raced |-> FALSE]

(* res["status"] == "ok" *)
Finished(e) == e # Empty /\ e.status = "ok"

(* res, and n_time - c_time < cache_time *)
Usable(e) == e # Empty /\ ~e.aged

(* What is made but not published is out of date. *)
MadeRaced == [c \in Caller |-> [call[c] EXCEPT !.raced = (call[c].pc = "made") \/ @]]

Goto(c, pc) == call' = [call EXCEPT ![c].pc = pc]

-----------------------------------------------------------------------------
(* The call *)

(* cache.get(cache_key); an unfinished entry is waited for. *)
Enter(c) ==
  /\ call[c].pc = "idle"
  /\ call' = [call EXCEPT ![c].since = db,
                          ![c].res = IF Finished(entry) THEN entry ELSE Empty,
                          ![c].pc = IF entry = Empty \/ Finished(entry)
                                    THEN "locking" ELSE "waiting"]
  /\ UNCHANGED <<db, open, entry, lock, moves, crashes>>

(* The poll every half second that ends the waiting. *)
Poll(c) ==
  /\ call[c].pc = "waiting"
  /\ Finished(entry)
  /\ call' = [call EXCEPT ![c].pc = "locking", ![c].res = entry]
  /\ UNCHANGED <<db, open, entry, lock, moves, crashes>>

(* Mutant: whoever found no entry makes one without the lock. *)
AcquireUnlocked(c) ==
  /\ call[c].pc = "locking"
  /\ lock = Empty \/ call[c].res = Empty
  /\ lock' = c
  /\ Goto(c, "holding")
  /\ UNCHANGED <<db, open, entry, moves, crashes>>

(* with cache.lock(...): every call takes it, also to return what it has. *)
Acquire(c) ==
  /\ call[c].pc = "locking"
  /\ lock = Empty
  /\ lock' = c
  /\ Goto(c, "holding")
  /\ UNCHANGED <<db, open, entry, moves, crashes>>

(* return res["data"] *)
ReturnCached(c) ==
  /\ call[c].pc = "holding"
  /\ Usable(call[c].res)
  /\ lock' = Empty
  /\ Goto(c, "done")
  /\ UNCHANGED <<db, open, entry, moves, crashes>>

(* Mutant: the data are made outside of the with block. *)
MarkReadyUnlocked(c) ==
  /\ call[c].pc = "holding"
  /\ ~Usable(call[c].res)
  /\ entry' = Unfinished
  /\ lock' = Empty
  /\ Goto(c, "making")
  /\ UNCHANGED <<db, open, moves, crashes>>

(* The entry is not read again: what another call has just made is made    *)
(* once more.                                                              *)
MarkReady(c) ==
  /\ call[c].pc = "holding"
  /\ ~Usable(call[c].res)
  /\ entry' = Unfinished
  /\ Goto(c, "making")
  /\ UNCHANGED <<db, open, lock, moves, crashes>>

(* func(...): the query sees what is committed. *)
Query(c) ==
  /\ call[c].pc = "making"
  /\ call' = [call EXCEPT ![c].pc = "made", ![c].data = db, ![c].raced = open > 0]
  /\ UNCHANGED <<db, open, entry, lock, moves, crashes>>

(* func raises: the data remain the empty text. *)
QueryFails(c) ==
  /\ call[c].pc = "making"
  /\ call' = [call EXCEPT ![c].pc = "made", ![c].data = Failed, ![c].raced = open > 0]
  /\ UNCHANGED <<db, open, entry, lock, moves, crashes>>

Publish(c) ==
  /\ call[c].pc = "made"
  /\ entry' = [status |-> "ok", data |-> call[c].data, aged |-> FALSE, raced |-> call[c].raced]
  /\ Goto(c, "published")
  /\ UNCHANGED <<db, open, lock, moves, crashes>>

(* Mutant: the lock is left to expire. *)
ReleaseForgets(c) ==
  /\ call[c].pc = "published"
  /\ Goto(c, "done")
  /\ UNCHANGED <<db, open, entry, lock, moves, crashes>>

(* The end of the with block: the lock is given back, the data returned. *)
Release(c) ==
  /\ call[c].pc = "published"
  /\ lock' = Empty
  /\ Goto(c, "done")
  /\ UNCHANGED <<db, open, entry, moves, crashes>>

(* The process dies; its lock stays until it expires. *)
Crash(c) ==
  /\ crashes < MaxCrashes
  /\ crashes' = crashes + 1
  /\ call[c].pc \notin {"idle", "done"}
  /\ Goto(c, "done")
  /\ lock' = IF lock = c THEN Dead ELSE lock
  /\ UNCHANGED <<db, open, entry, moves>>

-----------------------------------------------------------------------------
(* The environment *)

(* Mutant: the edit sends no signal that deletes the entry. *)
EditKeepsEntry ==
  /\ moves < MaxMoves
  /\ moves' = moves + 1
  /\ open' = open + 1
  /\ call' = MadeRaced
  /\ UNCHANGED <<db, entry, lock, crashes>>

(* post_save or pre_delete of a role, menu, department or user, or a       *)
(* logout: batch_invalid_cache deletes the entry.                          *)
BeginEdit ==
  /\ moves < MaxMoves
  /\ moves' = moves + 1
  /\ open' = open + 1
  /\ entry' = Empty
  /\ call' = MadeRaced
  /\ UNCHANGED <<db, lock, crashes>>

(* The request commits, or rolls back: then the permissions are the old.   *)
EndEdit ==
  /\ open > 0
  /\ open' = open - 1
  /\ db' \in {db, db + 1}
  /\ UNCHANGED <<entry, lock, call, moves, crashes>>

(* empower with roles and no rules: the roles of the user are set, and no  *)
(* signal is sent, as nothing is saved.                                    *)
Empower ==
  /\ moves < MaxMoves
  /\ moves' = moves + 1
  /\ db' = db + 1
  /\ entry' = IF entry = Empty THEN Empty ELSE [entry EXCEPT !.raced = TRUE]
  /\ call' = MadeRaced
  /\ UNCHANGED <<open, lock, crashes>>

(* A day later: c_time is too old, though Redis has not dropped the entry. *)
GrowOld ==
  /\ moves < MaxMoves
  /\ moves' = moves + 1
  /\ Finished(entry) /\ ~entry.aged
  /\ entry' = [entry EXCEPT !.aged = TRUE]
  /\ UNCHANGED <<db, open, lock, call, crashes>>

(* Redis drops the entry.  A call that lives makes its entry within a day. *)
EntryExpires ==
  /\ entry # Empty
  /\ entry.aged \/ (entry.status = "ready" /\ \A c \in Caller : call[c].pc \notin Makes)
  /\ entry' = Empty
  /\ UNCHANGED <<db, open, lock, call, moves, crashes>>

LockExpires ==
  /\ lock = Dead
  /\ lock' = Empty
  /\ UNCHANGED <<db, open, entry, call, moves, crashes>>

-----------------------------------------------------------------------------
Init ==
  /\ db = 0
  /\ open = 0
  /\ entry = Empty
  /\ lock = Empty
  /\ call = [c \in Caller |-> [pc |-> "idle", since |-> 0, res |-> Empty,
                               data |-> Failed, raced |-> FALSE]]
  /\ moves = 0
  /\ crashes = 0

Step(c) ==
  \/ Poll(c) \/ Acquire(c) \/ ReturnCached(c) \/ MarkReady(c)
  \/ Query(c) \/ QueryFails(c) \/ Publish(c) \/ Release(c)

Next ==
  \/ \E c \in Caller : Enter(c) \/ Step(c) \/ Crash(c)
  \/ BeginEdit \/ EndEdit \/ Empower \/ GrowOld \/ EntryExpires \/ LockExpires

Spec == Init /\ [][Next]_vars

(* A call that has begun goes on, and Redis drops what has expired; nobody *)
(* has to call, to edit or to end an edit.                                 *)
FairSpec ==
  /\ Spec
  /\ \A c \in Caller : WF_vars(Step(c))
  /\ WF_vars(EntryExpires)
  /\ WF_vars(LockExpires)

-----------------------------------------------------------------------------
(* Properties *)

(* The permissions are made by one call at a time, across processes. *)
OneMaker ==
  \A c, d \in Caller : call[c].pc \in Holds /\ call[d].pc \in Holds => c = d

(* An answer is never older than the call it is given to, unless an edit   *)
(* was open while it was read or began before it was published, or empower *)
(* changed the roles: the stale answers of a day come from nothing else.   *)
AnswersAreCurrent ==
  \A c \in Caller :
    call[c].pc = "holding" /\ Usable(call[c].res) =>
      LET e == call[c].res
      IN  e.raced \/ e.data = Failed \/ e.data >= call[c].since

(* While no process has died, an unfinished entry is being finished: the   *)
(* calls that wait for it do not wait for nobody.                          *)
UnfinishedIsBeingMade ==
  entry # Empty /\ entry.status = "ready" /\ crashes = 0
    => \E c \in Caller : call[c].pc \in Makes

(* The invariant behind the four: whoever is past the lock owns it, and    *)
(* data of which no edit knows are the committed ones, with no edit open,  *)
(* from the query on and for as long as they are in the cache.             *)
Known(r) == r.raced \/ r.data = Failed

Committed == db + open <= moves
OwnsLock == \A c \in Caller : call[c].pc \in Holds => lock = c
EntryCurrent == Finished(entry) /\ ~Known(entry) => entry.data = db /\ open = 0
MadeCurrent ==
  \A c \in Caller : call[c].pc = "made" /\ ~Known(call[c]) => call[c].data = db /\ open = 0
ReadCurrent ==
  \A c \in Caller :
    /\ call[c].since <= db
    /\ call[c].res # Empty /\ ~Known(call[c].res) => call[c].res.data >= call[c].since

PermissionCacheInv ==
  /\ TypeOK /\ Committed /\ OwnsLock
  /\ EntryCurrent /\ MadeCurrent /\ ReadCurrent
  /\ UnfinishedIsBeingMade

(* Every call comes to an end, also when others die with the lock or with  *)
(* an unfinished entry; the exception is a call that waits for an entry    *)
(* which was deleted before its next poll, until someone makes it again.   *)
CallsEnd ==
  \A c \in Caller :
    call[c].pc \notin {"idle", "done"}
      ~> call[c].pc = "done" \/ (call[c].pc = "waiting" /\ entry = Empty)
=============================================================================
