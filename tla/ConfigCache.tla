---------------------------- MODULE ConfigCache ----------------------------
(***************************************************************************)
(* The configuration cache (common/core/config.py): the rows of one key in *)
(* SystemConfig and UserPersonalConfig, their entries in Redis, and the    *)
(* requests that read, edit and invalidate them.  A request is one         *)
(* transaction; Redis is outside it.  A value may be a template, which is  *)
(* rendered from the rows of other keys.                                   *)
(***************************************************************************)
EXTENDS FiniteSets, Naturals, Sequences

CONSTANTS
  User, Request,
  Value,        \* values of rows
  Template,     \* the one that is a template
  Other,        \* what the template may render to
  Rows,         \* bound: Rows[k], the rows that edits of k leave
  Default,      \* defaults that callers pass
  Empty,        \* {}, the default of a caller that passes none
  System,       \* the key of SysConfig's entry and row
  None          \* no row, no entry, no user

ASSUME ConfigCacheAssumption ==
  /\ Empty \in Default /\ Template \in Value \ Default
  /\ Other \cap (Value \cup Default) = {}
  /\ {System, None} \cap User = {} /\ System # None

VARIABLES
  row,          \* row[k]: the committed row of the system or of a user
  cache,        \* cache[k]: its entry in Redis
  other,        \* what the rows of other keys render the template to
  req,          \* req[r]: what request r does
  raced         \* history: entries that may be stale, see the actions

vars == <<row, cache, other, req, raced>>

Key == {System} \cup User

Row(k) == [value : Value, active : BOOLEAN, access : BOOLEAN,
           inherit : IF k = System THEN BOOLEAN ELSE {FALSE}]

ASSUME RowsAssumption == \A k \in Key : Rows[k] \subseteq Row(k)

Active(x) == x # None /\ x.active
Entry(v, access, inherit) == [value |-> v, access |-> access, inherit |-> inherit]
OfRow(x) == Entry(IF x.value = Template THEN other ELSE x.value, x.access, x.inherit)
OfDefault(v) == Entry(v, TRUE, FALSE)

(* UserPersonalConfigCache.get_default_data: what a user without a row has *)
(* from the system's data; the caller's own default is not used.           *)
Inherited(e) == OfDefault(IF e.inherit THEN e.value ELSE Empty)

(* What a request does, step by step.  Signals and serializers are steps   *)
(* of the request that saves.                                              *)
Plan(kind) ==
  CASE kind \in {"get", "use"} -> <<"read">>
    [] kind = "patch" -> <<"read", "save", "drop", "read", "commit">>
    [] kind \in {"destroy", "store"} -> <<"save", "drop", "read", "commit">>
    [] kind = "remove" -> <<"drop", "save", "commit">>
    [] kind = "assign" -> <<"save", "read", "commit">>
    [] kind = "revoke" -> <<"save", "commit">>
    [] kind = "invalid" -> <<"drop", "drop_all">>
    [] kind = "invalid_user" -> <<"drop">>

Kinds(k) ==
  {"get", "use"} \cup IF k = System THEN {"store", "remove", "invalid"}
                      ELSE {"patch", "destroy", "assign", "revoke", "invalid_user"}

New == [kind |-> None, plan |-> <<>>, key |-> None, k |-> None, at |-> "look",
        default |-> Empty, data |-> None, edits |-> FALSE, wrote |-> FALSE, new |-> None]

Init ==
  /\ row = [k \in Key |-> None]
  /\ cache = [k \in Key |-> None]
  /\ other \in Other
  /\ req = [r \in Request |-> New]
  /\ raced = {}

-----------------------------------------------------------------------------
Does(r, step) == req[r].plan # <<>> /\ Head(req[r].plan) = step
Reads(r, at) == Does(r, "read") /\ req[r].at = at

(* The request goes on with the next step of its plan, or ends.            *)
Rest(q) ==
  IF Tail(q.plan) = <<>> THEN New
  ELSE [q EXCEPT !.plan = Tail(@), !.k = q.key, !.at = "look", !.data = None]

Edits(r, k) == req[r].edits /\ req[r].key = k
EditedByOther(r, k) == \E t \in Request \ {r} : Edits(t, k)

(* Between its read of a row and its write of the entry.                   *)
Holds(r, k) ==
  /\ Does(r, "read")
  /\ \/ req[r].k = k /\ req[r].at = "fill"
     \/ req[r].k = System /\ req[r].key = k /\ k # System
HeldByOther(r, k) == \E t \in Request \ {r} : Holds(t, k)

(* A request's own writes are visible to it before they are committed.     *)
Seen(r, k) == IF req[r].wrote /\ req[r].key = k THEN req[r].new ELSE row[k]

(* API reads honour the access flag of what they find.                     *)
Api(r) == req[r].kind \in {"get", "patch", "destroy"}
Usable(r, e) == e # None /\ (Api(r) => e.access)

Begin(r) ==
  /\ req[r] = New
  /\ \E k \in Key : \E kind \in Kinds(k), d \in Default :
       /\ d # Empty => kind = "use"
       /\ kind \in {"remove", "revoke", "invalid", "invalid_user"} => row[k] # None
       /\ req' = [req EXCEPT ![r] = [New EXCEPT !.kind = kind, !.plan = Plan(kind),
                                                !.key = k, !.k = k, !.default = d]]
  /\ UNCHANGED <<row, cache, other, raced>>

-----------------------------------------------------------------------------
(* ConfigCacheBase.get_data *)

(* The data of key k have been found: the read is over, or it was that of  *)
(* the system's data for a user, whose entry takes what it inherits.       *)
Found(r, e) ==
  IF req[r].k # req[r].key
  THEN /\ req' = [req EXCEPT ![r].k = req[r].key, ![r].at = "fill", ![r].data = Inherited(e)]
       /\ raced' = raced \cup (IF System \in raced THEN {req[r].key} ELSE {})
  ELSE req' = [req EXCEPT ![r] = Rest(@)] /\ UNCHANGED raced

Look(r) ==
  /\ Reads(r, "look")
  /\ LET e == cache[req[r].k]
     IN IF (IF req[r].k = req[r].key THEN Usable(r, e) ELSE e # None)
        THEN Found(r, e)
        ELSE req' = [req EXCEPT ![r].at = "load"] /\ UNCHANGED raced
  /\ UNCHANGED <<row, cache, other>>

Load(r) ==
  /\ Reads(r, "load")
  /\ LET k == req[r].k
         x == Seen(r, k)
     IN /\ req' = [req EXCEPT ![r] =
              IF Active(x) THEN [@ EXCEPT !.at = "fill", !.data = OfRow(x)]
              ELSE IF k = System THEN [@ EXCEPT !.at = "fill", !.data = OfDefault(req[r].default)]
              ELSE [@ EXCEPT !.at = "look", !.k = System]]
        /\ raced' = raced \cup (IF EditedByOther(r, k) THEN {k} ELSE {})
  /\ UNCHANGED <<row, cache, other>>

Fill(r) ==
  /\ Reads(r, "fill")
  /\ cache' = [cache EXCEPT ![req[r].k] = req[r].data]
  /\ Found(r, req[r].data)
  /\ UNCHANGED <<row, other>>

-----------------------------------------------------------------------------
(* Edits *)

(* An edit begins: whoever has read the row before may fill the entry      *)
(* later.                                                                  *)
Begun(r, k) == raced \cup (IF HeldByOther(r, k) THEN {k} ELSE {})

(* The rows that a kind of request leaves.  A user's own edit looks the    *)
(* row up with access=True.                                                *)
Written(r) ==
  IF req[r].kind \in {"destroy", "remove", "revoke"} THEN {None}
  ELSE IF req[r].kind = "patch"
  THEN {x \in Rows[req[r].key] : x.active /\ x.access}
  ELSE Rows[req[r].key]

Refused(r) ==
  /\ req[r].kind = "patch"
  /\ LET x == row[req[r].key] IN x # None /\ ~x.access

(* save_db, delete_db or a serializer's save, in the transaction.  An      *)
(* admin's edit of a user's row leaves the user's entry alone.             *)
Save(r) ==
  /\ Does(r, "save") /\ ~Refused(r)
  /\ \A t \in Request \ {r} : req[t].wrote => req[t].key # req[r].key
  /\ \E x \in Written(r) :
       req' = [req EXCEPT ![r] = [Rest(@) EXCEPT !.edits = TRUE, !.wrote = TRUE, !.new = x]]
  /\ raced' = Begun(r, req[r].key)
                \cup (IF req[r].kind \in {"assign", "revoke"} /\ cache[req[r].key] # None
                      THEN {req[r].key} ELSE {})
  /\ UNCHANGED <<row, cache, other>>

(* An entry is deleted.  Nothing stale can come back if no other request   *)
(* holds data of it or edits its row.                                      *)
Clean(r, k) == ~HeldByOther(r, k) /\ ~EditedByOther(r, k)

(* Mutant: the entry is not deleted. *)
DropNot(r) ==
  /\ Does(r, "drop")
  /\ req' = [req EXCEPT ![r] =
       [Rest(req[r]) EXCEPT !.edits = @ \/ (req[r].kind = "remove")]]
  /\ LET k == req[r].key
     IN raced' = IF Clean(r, k) THEN raced \ {k} ELSE Begun(r, k)
  /\ UNCHANGED <<row, cache, other>>

(* del_storage_cache of set_value and del_value, the signal handler's and  *)
(* the action's invalid_config_cache.                                      *)
Drop(r) ==
  /\ Does(r, "drop")
  /\ req' = [req EXCEPT ![r] =
       [Rest(req[r]) EXCEPT !.edits = @ \/ (req[r].kind = "remove")]]
  /\ LET k == req[r].key
     IN /\ cache' = [cache EXCEPT ![k] = None]
        /\ raced' = IF Clean(r, k) THEN raced \ {k} ELSE Begun(r, k)
  /\ UNCHANGED <<row, other>>

(* The action for a row of the system goes on with the entries of users.   *)
DropAll(r) ==
  /\ Does(r, "drop_all")
  /\ req' = [req EXCEPT ![r] = Rest(@)]
  /\ cache' = [k \in Key |-> IF k = System THEN cache[k] ELSE None]
  /\ raced' = raced \ {u \in User : Clean(r, u)}
  /\ UNCHANGED <<row, other>>

(* Users' entries that may have been made from the system's data.          *)
Heirs == {u \in User : cache[u] # None \/ \E r \in Request : Holds(r, u)}

Commit(r) ==
  /\ Does(r, "commit")
  /\ row' = [row EXCEPT ![req[r].key] = req[r].new]
  /\ raced' = raced \cup (IF req[r].key = System THEN Heirs ELSE {})
  /\ req' = [req EXCEPT ![r] = New]
  /\ UNCHANGED <<cache, other>>

(* A request fails or is killed: its writes are undone, not its entries.   *)
Abort(r) ==
  /\ req[r] # New
  /\ raced' = raced \cup (IF req[r].edits
                          THEN {req[r].key} \cup (IF req[r].key = System THEN Heirs ELSE {})
                          ELSE {})
  /\ req' = [req EXCEPT ![r] = New]
  /\ UNCHANGED <<row, cache, other>>

(* A row of another key is edited: only that key's entry is deleted.       *)
EditOther ==
  /\ \E v \in Other \ {other} : other' = v
  /\ raced' = raced
       \cup {k \in Key : cache[k] # None /\ cache[k].value \in Other}
       \cup {k \in Key : \E r \in Request : Holds(r, k)}
  /\ UNCHANGED <<row, cache, req>>

(* Thirty days pass. *)
Expire(k) ==
  /\ cache[k] # None
  /\ cache' = [cache EXCEPT ![k] = None]
  /\ UNCHANGED <<row, other, req, raced>>

-----------------------------------------------------------------------------
Next ==
  \/ \E r \in Request : \/ Begin(r) \/ Look(r) \/ Load(r) \/ Fill(r)
                        \/ Save(r) \/ Drop(r) \/ DropAll(r) \/ Commit(r) \/ Abort(r)
  \/ EditOther
  \/ \E k \in Key : Expire(k)

Spec == Init /\ [][Next]_vars

-----------------------------------------------------------------------------
(* What a read of the committed rows gives. *)
SystemData ==
  IF Active(row[System]) THEN {OfRow(row[System])} ELSE {OfDefault(d) : d \in Default}

Data(k) ==
  IF k = System THEN SystemData
  ELSE IF Active(row[k]) THEN {OfRow(row[k])}
  ELSE {Inherited(e) : e \in SystemData}

Settled(k) == \A r \in Request : ~Edits(r, k) /\ ~Edits(r, System)

(* An entry is what the rows say, unless a read and an edit of its row     *)
(* overlapped, an edit was rolled back, an admin edited the user's row, a  *)
(* row was edited that it is rendered from, or the system's row since the  *)
(* user inherited from it (ConfigCacheBase.get_data, set_value, the signal *)
(* handler); and the deletion of an entry that nobody is about to fill     *)
(* ends its staleness.                                                     *)
EntriesAreCurrent ==
  \A k \in Key \ raced : cache[k] # None /\ Settled(k) => cache[k] \in Data(k)

=============================================================================
