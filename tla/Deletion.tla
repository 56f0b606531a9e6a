------------------------------ MODULE Deletion ------------------------------
(***************************************************************************)
(* How rows leave the database: the destroy and batch-destroy requests of  *)
(* the view sets.  Django first collects, by queries, what has to go with  *)
(* a row, then deletes it; both happen in the transaction of the request.  *)
(* Meanwhile other requests and the synchronisation tasks insert rows.     *)
(* The database checks foreign keys at once, and a transaction that meets  *)
(* a row another one has deleted, or needs a parent another one has        *)
(* deleted, waits for the end of that transaction.                         *)
(***************************************************************************)
EXTENDS Naturals, FiniteSets

CONSTANTS
  Row,          \* rows that can exist, each with its primary key
  Request,      \* requests that delete
  Table,        \* TableOf[r] is the table of row r
  TableOf,
  Columns,      \* Columns[t][f]: the table that column or link f of t refers to
  OnDelete,     \* OnDelete[t][f]: CASCADE, SET_NULL, PROTECT or UNLINK
  Filed,        \* the tables whose rows have a file in storage
  Inventory,    \* the tables of virt_center
  Askable,      \* the tables whose view set offers destroy
  Superuser,    \* users that no request may delete
  First,        \* First[r]: what row r refers to when it is first inserted
  Late          \* rows that are inserted while requests run

Field == [r \in Row |-> DOMAIN Columns[TableOf[r]]]

(* Rows and the database before the first request: what a row refers to is *)
(* in the table its column says, and rows that are there refer to rows     *)
(* that are there.                                                         *)
ASSUME RowAssumption ==
  /\ TableOf \in [Row -> Table] /\ IsFiniteSet(Row)
  /\ DOMAIN Columns = Table /\ DOMAIN OnDelete = Table
  /\ \A t \in Table : DOMAIN OnDelete[t] = DOMAIN Columns[t]
  /\ Late \subseteq Row /\ Superuser \subseteq Row
  /\ \A r \in Row :
       /\ First[r] \in [Field[r] -> SUBSET Row]
       /\ \A f \in Field[r] : \A x \in First[r][f] :
            /\ TableOf[x] = Columns[TableOf[r]][f]
            /\ x \in Late => r \in Late

(* What the schema must keep for what follows: each reference has one of   *)
(* four rules; a menu has its meta and a message its attachments; a row    *)
(* with a file goes only on its own account, not with another row; and a   *)
(* member protects his department, as a department the one above it.       *)
ASSUME SchemaAssumption ==
  /\ \A t \in Table : \A f \in DOMAIN OnDelete[t] :
       /\ OnDelete[t][f] \in {"CASCADE", "SET_NULL", "PROTECT", "UNLINK"}
       /\ t \in Filed => OnDelete[t][f] # "CASCADE"
  /\ \A r \in Row :
       /\ TableOf[r] = "Menu" => "meta" \in Field[r]
       /\ TableOf[r] = "MessageContent" => "file" \in Field[r]
       /\ TableOf[r] = "UserInfo" => /\ "dept" \in Field[r]
                                     /\ OnDelete["UserInfo"]["dept"] = "PROTECT"
       /\ TableOf[r] = "DeptInfo" => /\ "parent" \in Field[r]
                                     /\ OnDelete["DeptInfo"]["parent"] = "PROTECT"

(* The column by which a row of virt_center hangs, in the end, on a        *)
(* platform, and the platforms it hangs on when c[x][f] is what f of x     *)
(* refers to.                                                              *)
Owner(r) ==
  IF "platform" \in Field[r] THEN "platform" ELSE IF "vm" \in Field[r] THEN "vm" ELSE "host"

HomeIn(c, r) ==
  IF TableOf[r] = "Platform" THEN {r}
  ELSE IF Owner(r) = "platform" THEN c[r]["platform"]
  ELSE UNION {c[x]["platform"] : x \in c[r][Owner(r)]}

(* The inventory: a row has its platform through one or two CASCADE        *)
(* columns; what it refers to by CASCADE is of the inventory and of the    *)
(* same platform; and no request asks for the deletion of any of it but a  *)
(* platform, nor does it go with a menu or a message.                      *)
ASSUME InventoryAssumption ==
  /\ Askable \cap Inventory \subseteq {"Platform"}
  /\ \A r \in Row :
       /\ TableOf[r] = "Menu" => Columns["Menu"]["meta"] \notin Inventory
       /\ TableOf[r] = "MessageContent" => Columns["MessageContent"]["file"] \notin Inventory
  /\ \A r \in {x \in Row : TableOf[x] \in Inventory} :
       /\ TableOf[r] # "Platform" =>
            /\ Owner(r) \in Field[r] /\ OnDelete[TableOf[r]][Owner(r)] = "CASCADE"
            /\ Owner(r) # "platform" =>
                 \A x \in First[r][Owner(r)] : TableOf[x] # "Platform" /\ Owner(x) = "platform"
       /\ HomeIn(First, r) # {}
       /\ \A f \in Field[r] : OnDelete[TableOf[r]][f] = "CASCADE" =>
            \A x \in First[r][f] :
              TableOf[x] \in Inventory /\ HomeIn(First, x) = HomeIn(First, r)

VARIABLES
  refs,         \* the database: refs[r][f] is the set of rows that f of r refers to
  req,          \* req[q]: a request and its transaction
  files,        \* the rows whose files are in storage
  unborn,       \* rows to be inserted; no primary key is used twice
  undone        \* history: rows whose deletion was rolled back

vars == <<refs, req, files, unborn, undone>>

Exists == DOMAIN refs

(* Mutant: the members of a department are left without one. *)
RuleLeavesMembers ==
  [r \in Row |-> [f \in Field[r] |->
                   IF f = "dept" THEN "SET_NULL" ELSE OnDelete[TableOf[r]][f]]]

(* Mutant: the log of an operator's actions goes with the operator. *)
RuleWithOperator ==
  [r \in Row |-> [f \in Field[r] |->
                   IF f = "operator" THEN "CASCADE" ELSE OnDelete[TableOf[r]][f]]]

Rule == [r \in Row |-> OnDelete[TableOf[r]]]

(* The rows that refer to a member of S through a field with this rule. *)
Referring(S, rule) ==
  {r \in Exists : \E f \in Field[r] : refs[r][f] \cap S # {} /\ Rule[r][f] = rule}

Targets(r) == UNION {refs[r][f] : f \in Field[r]}

-----------------------------------------------------------------------------
(* kind: destroy or batch; todo: rows still to delete; found: what was     *)
(* collected for the current one; own: the instances among it, whose files *)
(* go too; gone: rows deleted in the transaction; doomed: the connection   *)
(* needs a rollback.                                                       *)

Idle ==
  [pc |-> "idle", kind |-> "destroy", todo |-> {}, found |-> {}, own |-> {}, gone |-> {},
   doomed |-> FALSE]

Ended == {"idle", "done", "refused", "failed"}

RequestState ==
  [pc : Ended \cup {"collect", "delete", "finish"}, kind : {"destroy", "batch"},
   todo : SUBSET Row, found : SUBSET Row, own : SUBSET Row, gone : SUBSET Row, doomed : BOOLEAN]

TypeOK ==
  /\ Exists \subseteq Row
  /\ \A r \in Exists : refs[r] \in [Field[r] -> SUBSET Row]
  /\ req \in [Request -> RequestState]
  /\ files \subseteq Row /\ unborn \subseteq Late /\ undone \subseteq Row

Init ==
  /\ refs = [r \in Row \ Late |-> First[r]]
  /\ req = [q \in Request |-> Idle]
  /\ files = {r \in Row \ Late : TableOf[r] \in Filed}
  /\ unborn = Late /\ undone = {}

-----------------------------------------------------------------------------

(* All that goes with S: the rows that refer to it through a CASCADE. *)
Collected[S \in SUBSET Row] ==
  LET T == S \cup Referring(S, "CASCADE") IN IF T = S THEN S ELSE Collected[T]

(* What delete() of a row starts from: a menu deletes its meta first, and  *)
(* a message deletes its attachments after itself.                         *)
Started(r) ==
  {r} \cup (CASE TableOf[r] = "Menu" -> refs[r]["meta"]
              [] TableOf[r] = "MessageContent" -> refs[r]["file"]
              [] OTHER -> {})

(* Django deletes the rows of a table nothing refers to, not even the link *)
(* rows of a ManyToManyField of its own, with one query on the foreign     *)
(* key, so also those that came after the collection.                      *)
FastDeleted ==
  {t \in Table : /\ \A u \in Table : \A f \in DOMAIN Columns[u] : Columns[u][f] # t
                 /\ \A f \in DOMAIN OnDelete[t] : OnDelete[t][f] # "UNLINK"}

(* Mutant: the database does not check foreign keys. *)
StillReferredUnchecked(S) == {}

(* The rows that a collection missed and whose foreign keys stop it. *)
StillReferred(S) ==
  {r \in (Referring(S, "CASCADE") \cup Referring(S, "PROTECT")) \ S :
     ~ (TableOf[r] \in FastDeleted /\ r \in Referring(S, "CASCADE"))}

LateLeaves(S) == {r \in Referring(S, "CASCADE") : TableOf[r] \in FastDeleted}

(* Rows locked by the other requests. *)
Locked(q) == UNION {req[o].gone : o \in Request \ {q}}

-----------------------------------------------------------------------------
(* Requests *)

(* Bound: a request names one or two rows of one table. *)
Asked(t) ==
  {{r, s} : r, s \in {x \in Exists : TableOf[x] = t}}

(* The instances are loaded first, from tables with a view set. *)
Ask(q, rows, kind) ==
  /\ req[q].pc = "idle"
  /\ kind = "destroy" => Cardinality(rows) = 1
  /\ kind = "batch" => rows \cap Superuser = {}
  /\ req' = [req EXCEPT ![q] = [Idle EXCEPT !.pc = "collect", !.kind = kind, !.todo = rows]]
  /\ UNCHANGED <<refs, files, unborn, undone>>

(* perform_destroy of a user refuses a superuser; a row that something     *)
(* protected refers to raises before anything is deleted.  destroy gives   *)
(* up; batch_destroy logs the error and goes on with the next instance,    *)
(* also when the connection already needs a rollback.                      *)
Refuse(q, r) ==
  /\ req[q].pc = "collect"
  /\ \/ r \in Superuser
     \/ req[q].doomed
     \/ Referring(Collected[{r}], "PROTECT") \ req[q].gone # {}
  /\ req' = [req EXCEPT ![q].pc = IF req[q].kind = "destroy" THEN "refused" ELSE "collect",
                        ![q].todo = @ \ {r}]
  /\ UNCHANGED <<refs, files, unborn, undone>>

(* Mutant: the files of a message's attachments are left. *)
CollectAlone(q, r) ==
  /\ req[q].pc = "collect"
  /\ r \notin Superuser /\ ~ req[q].doomed
  /\ Referring(Collected[{r}], "PROTECT") \ req[q].gone = {}
  /\ req' = [req EXCEPT ![q].pc = "delete", ![q].todo = @ \ {r},
                        ![q].own = {r},
                        ![q].found = IF r \in Exists THEN Collected[Started(r)] \ req[q].gone
                                                      ELSE {}]
  /\ UNCHANGED <<refs, files, unborn, undone>>

Collect(q, r) ==
  /\ req[q].pc = "collect"
  /\ r \notin Superuser /\ ~ req[q].doomed
  /\ Referring(Collected[{r}], "PROTECT") \ req[q].gone = {}
  /\ req' = [req EXCEPT ![q].pc = "delete", ![q].todo = @ \ {r},
                        ![q].own = IF r \in Exists THEN Started(r) ELSE {r},
                        ![q].found = IF r \in Exists THEN Collected[Started(r)] \ req[q].gone
                                                      ELSE {}]
  /\ UNCHANGED <<refs, files, unborn, undone>>

(* The DELETE statements, and then, the transaction still open, the files  *)
(* of the instances.  A row that came too late for the collection stops    *)
(* the statements: the error marks the transaction for rollback, a batch   *)
(* logs it and goes on.                                                    *)
Delete(q) ==
  LET all == req[q].found \cup LateLeaves(req[q].found)
      next == IF req[q].kind = "destroy" THEN "finish" ELSE "collect"
  IN
  /\ req[q].pc = "delete"
  /\ \A r \in Locked(q) : r \notin all /\ Targets(r) \cap all = {}
  /\ IF StillReferred(all) \ req[q].gone = {}
       THEN /\ req' = [req EXCEPT ![q].pc = next, ![q].found = {}, ![q].own = {},
                                  ![q].gone = @ \cup (all \cap Exists)]
            /\ files' = files \ req[q].own
       ELSE /\ req' = [req EXCEPT ![q].pc = next, ![q].found = {}, ![q].own = {},
                                  ![q].doomed = TRUE]
            /\ UNCHANGED files
  /\ UNCHANGED <<refs, unborn, undone>>

(* A statement that fails for another reason, as the victim of a deadlock. *)
StatementFails(q) ==
  /\ req[q].pc = "delete"
  /\ req' = [req EXCEPT ![q].pc = IF req[q].kind = "destroy" THEN "finish" ELSE "collect",
                        ![q].found = {}, ![q].own = {}, ![q].gone = {}, ![q].doomed = TRUE]
  /\ undone' = undone \cup req[q].gone
  /\ UNCHANGED <<refs, files, unborn>>

(* SET_NULL columns and links to the deleted rows are emptied. *)
Without(gone) ==
  [r \in Exists \ gone |->
     [f \in Field[r] |-> IF Rule[r][f] \in {"SET_NULL", "UNLINK"}
                           THEN refs[r][f] \ gone ELSE refs[r][f]]]

(* The end of the request's transaction. *)
Finish(q) ==
  /\ \/ req[q].pc = "finish"
     \/ req[q].pc = "collect" /\ req[q].todo = {}
  /\ IF req[q].doomed
       THEN /\ req' = [req EXCEPT ![q].pc = IF req[q].kind = "batch" THEN "done" ELSE "failed",
                                  ![q].gone = {}]
            /\ undone' = undone \cup req[q].gone
            /\ UNCHANGED refs
       ELSE /\ req' = [req EXCEPT ![q].pc = "done", ![q].gone = {}]
            /\ refs' = Without(req[q].gone)
            /\ UNCHANGED undone
  /\ UNCHANGED <<files, unborn>>

(* Another request, or a task, inserts a row; what it refers to must exist *)
(* and not be locked by a deletion.                                        *)
Insert(r) ==
  /\ r \in unborn /\ unborn' = unborn \ {r}
  /\ \A f \in Field[r] : First[r][f] \subseteq Exists
  /\ \A q \in Request, f \in Field[r] : First[r][f] \cap req[q].gone = {}
  /\ refs' = [x \in Exists \cup {r} |-> IF x = r THEN First[r] ELSE refs[x]]
  /\ files' = files \cup (IF TableOf[r] \in Filed THEN {r} ELSE {})
  /\ UNCHANGED <<req, undone>>

Work(q) == (\E r \in req[q].todo : Refuse(q, r) \/ Collect(q, r)) \/ Delete(q) \/ Finish(q)

Next ==
  \/ \E q \in Request, kind \in {"destroy", "batch"}, t \in Askable :
       \E rows \in Asked(t) : Ask(q, rows, kind)
  \/ \E q \in Request : Work(q) \/ StatementFails(q)
  \/ \E r \in Late : Insert(r)

Spec == Init /\ [][Next]_vars

-----------------------------------------------------------------------------
(* Properties *)

(* Whatever is deleted while other requests delete and insert, no row is   *)
(* left that refers to a row that is gone.                                 *)
NoDanglingReference == \A r \in Exists : Targets(r) \subseteq Exists

(* The platform a row of virt_center belongs to. *)
Home(r) == HomeIn(refs, r)

(* A column that deletes with it, or protects, what it refers to is never  *)
(* written; another one only loses what it referred to.                    *)
ReferencesStay ==
  \A r \in Exists : \A f \in Field[r] :
    /\ refs[r][f] \subseteq First[r][f]
    /\ Rule[r][f] \in {"CASCADE", "PROTECT"} => refs[r][f] = First[r][f]

(* What a transaction has deleted is there until it commits, is its own,   *)
(* and takes with it all that refers to it; no row comes after a request   *)
(* meant to delete it.                                                     *)
TransactionsAreApart ==
  /\ Exists \cap unborn = {}
  /\ \A q \in Request :
       /\ req[q].pc = "idle" => req[q].gone = {}
       /\ req[q].pc # "delete" => req[q].found = {} /\ req[q].own = {}
       /\ req[q].gone \subseteq Exists
       /\ Referring(req[q].gone, "CASCADE") \cup Referring(req[q].gone, "PROTECT")
            \subseteq req[q].gone
       /\ (req[q].todo \cup req[q].found \cup req[q].own) \cap unborn = {}
       /\ \A r \in req[q].todo : TableOf[r] \in Askable
       /\ \A o \in Request \ {q} : req[q].gone \cap req[o].gone = {}

(* Of the rows a request deletes exactly the instances have files.         *)
InstancesHaveTheFiles ==
  /\ \A r \in files : TableOf[r] \in Filed
  /\ \A q \in Request :
       /\ files \cap req[q].gone = {}
       /\ \A r \in req[q].found : TableOf[r] \in Filed => r \in req[q].own
       /\ req[q].own \cap Exists \subseteq req[q].found \cup req[q].gone

(* With a row of the inventory a request deletes its platform.             *)
PlatformsGoFirst ==
  \A q \in Request :
    /\ \A r \in req[q].gone :
         TableOf[r] \in Inventory => Home(r) \subseteq req[q].gone
    /\ \A r \in req[q].found \cap Exists :
         TableOf[r] \in Inventory => Home(r) \subseteq req[q].found \cup req[q].gone

(* The types, the first fact above, and what makes them inductive.         *)
DeletionInv ==
  /\ TypeOK
  /\ NoDanglingReference
  /\ ReferencesStay
  /\ TransactionsAreApart
  /\ InstancesHaveTheFiles
  /\ PlatformsGoFirst

(* The inventory of a platform goes with the platform, all of it and       *)
(* through all levels, and for no other reason: not with the user who      *)
(* created or operated it, with a department, or with another platform.    *)
PlatformsAreWholes ==
  [][\A r \in Exists : TableOf[r] \in Inventory =>
       (r \notin Exists' <=> Home(r) \cap Exists' = {})]_refs

(* A department with members or with departments below it stays, however   *)
(* the deletion interleaves with the arrival of members: nobody loses his  *)
(* department, and no department its place in the tree.                    *)
MembersKeepTheirDepartment ==
  [][\A r \in Exists \cap Exists' :
       /\ TableOf[r] = "UserInfo" => refs'[r]["dept"] = refs[r]["dept"]
       /\ TableOf[r] = "DeptInfo" => refs'[r]["parent"] = refs[r]["parent"]]_refs

(* A file goes with its row, and a row keeps its file, unless the deletion *)
(* of the row is under way or was rolled back after the file was removed   *)
(* (AutoCleanFileMixin.delete): a file does not come back.                 *)
FilesFollowRows ==
  /\ files \subseteq Exists
  /\ \A r \in Exists :
       TableOf[r] \in Filed => \/ r \in files \cup undone
                               \/ \E q \in Request : r \in req[q].gone
=============================================================================
