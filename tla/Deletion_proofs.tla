--------------------------- MODULE Deletion_proofs ---------------------------
EXTENDS Deletion, FiniteSetTheorems, WellFoundedInduction, TLAPS

(* A set of numbers has a least one. *)
LEMMA LeastNumber ==
  ASSUME NEW N, N \subseteq Nat, N # {}
  PROVE  \E n \in N : \A m \in N : n <= m
<1>1. \E n \in N : \A m \in N : <<m, n>> \notin OpToRel(<, Nat)
  BY NatLessThanWellFounded, WFMin
<1>2. ASSUME NEW m \in Nat, NEW n \in Nat, m < n
      PROVE  <<m, n>> \in OpToRel(<, Nat)
  <2> DEFINE p == <<m, n>>
  <2>1. p \in Nat \X Nat /\ p[1] < p[2]
    BY <1>2
  <2> HIDE DEF p
  <2>2. p \in {ss \in Nat \X Nat : ss[1] < ss[2]}
    BY <2>1
  <2> QED  BY <2>2 DEF OpToRel, p
<1> HIDE DEF OpToRel
<1>3. PICK n \in N : \A m \in N : ~ (m < n)
  BY <1>1, <1>2
<1> QED  BY <1>3

(* The recursion of Collected defines a function: what is in every closed  *)
(* set around S solves its equation.                                       *)
LEMMA CollectedIs ==
  ASSUME Exists \subseteq Row
  PROVE  Collected = [S \in SUBSET Row |->
                        IF S \cup Referring(S, "CASCADE") = S THEN S
                        ELSE Collected[S \cup Referring(S, "CASCADE")]]
<1> DEFINE Closed == {D \in SUBSET Row : Referring(D, "CASCADE") \subseteq D}
           Closure == [S \in SUBSET Row |-> {r \in Row : \A D \in Closed : S \subseteq D => r \in D}]
<1>1. \A S \in SUBSET Row : Referring(S, "CASCADE") \in SUBSET Row
  BY DEF Referring
<1>2. ASSUME NEW S \in SUBSET Row
      PROVE  Closure[S] = IF S \cup Referring(S, "CASCADE") = S THEN S
                          ELSE Closure[S \cup Referring(S, "CASCADE")]
  <2>1. S \cup Referring(S, "CASCADE") \in SUBSET Row
    BY <1>1
  <2>2. \A D \in Closed : S \subseteq D => Referring(S, "CASCADE") \subseteq D
    BY DEF Referring
  <2>3. CASE S \cup Referring(S, "CASCADE") = S
    <3>1. S \in Closed  BY <2>3
    <3> QED  BY <3>1, <2>3
  <2>4. CASE S \cup Referring(S, "CASCADE") # S
    BY <2>1, <2>2, <2>4
  <2> QED  BY <2>3, <2>4
<1>3. Closure = [S \in SUBSET Row |->
                   IF S \cup Referring(S, "CASCADE") = S THEN S
                   ELSE Closure[S \cup Referring(S, "CASCADE")]]
  BY <1>2
<1> HIDE DEF Closure
<1> QED  BY <1>3 DEF Collected

(* Among sets of rows there is one that none of the others contains.       *)
LEMMA LargestSet ==
  ASSUME NEW O, O \subseteq SUBSET Row, O # {}
  PROVE  \E T \in O : \A U \in O : T \subseteq U => U = T
<1> DEFINE Left(T) == Cardinality(Row \ T)
           Numbers == {Left(T) : T \in O}
<1>1. \A T \in O : IsFiniteSet(Row \ T) /\ Left(T) \in Nat
  BY RowAssumption, FS_Subset, FS_CardinalityType
<1>2. ASSUME NEW T \in O, NEW U \in O, T \subseteq U, Left(T) <= Left(U)
      PROVE  U = T
  <2>1. Row \ U \in SUBSET (Row \ T)
    BY <1>2
  <2>2. Left(U) <= Left(T) /\ (Left(T) = Left(U) => Row \ T = Row \ U)
    BY <1>1, <2>1, FS_Subset
  <2>3. Left(T) \in Nat /\ Left(U) \in Nat
    BY <1>1
  <2> HIDE DEF Left
  <2>4. Left(T) = Left(U)
    BY <1>2, <2>2, <2>3
  <2> QED
    BY <1>2, <2>2, <2>4
<1> HIDE DEF Left
<1>3. Numbers \subseteq Nat /\ Numbers # {}
  BY <1>1
<1> HIDE DEF Numbers
<1>4. PICK n \in Numbers : \A m \in Numbers : n <= m
  BY <1>3, LeastNumber
<1> USE DEF Numbers
<1>5. PICK T \in O : \A U \in O : Left(T) <= Left(U)
  BY <1>4
<1> QED
  BY <1>2, <1>5

LEMMA MoreReferring ==
  ASSUME NEW S, NEW T, S \subseteq T, NEW rule
  PROVE  Referring(S, rule) \subseteq Referring(T, rule)
BY DEF Referring

(* What is collected for S is the least set around S that, with a row, has *)
(* all that refers to it through a CASCADE.  By induction over the rows    *)
(* not yet in S.                                                           *)
LEMMA CollectedCloses ==
  ASSUME Exists \subseteq Row, NEW S \in SUBSET Row
  PROVE  /\ Collected[S] \in SUBSET Row
         /\ S \subseteq Collected[S]
         /\ Referring(Collected[S], "CASCADE") \subseteq Collected[S]
         /\ \A D \in SUBSET Row :
              S \subseteq D /\ Referring(D, "CASCADE") \subseteq D => Collected[S] \subseteq D
<1> DEFINE Least(T, C) ==
             /\ C \in SUBSET Row /\ T \subseteq C /\ Referring(C, "CASCADE") \subseteq C
             /\ \A D \in SUBSET Row :
                  T \subseteq D /\ Referring(D, "CASCADE") \subseteq D => C \subseteq D
           Open == {T \in SUBSET Row : ~ Least(T, Collected[T])}
<1>1. SUFFICES ASSUME Open # {} PROVE FALSE
  OBVIOUS
<1>2. PICK T \in Open : \A U \in Open : T \subseteq U => U = T
  <2> HIDE DEF Least
  <2>1. Open \subseteq SUBSET Row
    OBVIOUS
  <2> HIDE DEF Open
  <2> QED
    BY <1>1, <2>1, LargestSet
<1> DEFINE U == T \cup Referring(T, "CASCADE")
<1>3. U \in SUBSET Row
  BY DEF Referring
<1>4. Collected[T] = IF U = T THEN T ELSE Collected[U]
  BY CollectedIs
<1>5. CASE U = T
  BY <1>4, <1>5
<1>6. CASE U # T
  <2>1. Least(U, Collected[U])
    <3> HIDE DEF Least
    <3>1. U \notin Open
      BY <1>2, <1>6
    <3> HIDE DEF U
    <3> QED
      BY <1>3, <3>1
  <2>2. \A D \in SUBSET Row : T \subseteq D /\ Referring(D, "CASCADE") \subseteq D => U \subseteq D
    BY MoreReferring
  <2>3. Least(T, Collected[U])
    BY <2>1, <2>2
  <2> QED
    BY <1>4, <1>6, <2>3
<1> QED
  BY <1>5, <1>6

-----------------------------------------------------------------------------
(* The invariant by what it speaks of: the rows, one request at a time,    *)
(* pairs of requests, the files.                                           *)

DatabaseIsSound ==
  /\ Exists \subseteq Row
  /\ \A r \in Exists : refs[r] \in [Field[r] -> SUBSET Row]
  /\ unborn \subseteq Late /\ Exists \cap unborn = {}
  /\ NoDanglingReference /\ ReferencesStay

RequestIsSound(R) ==
  /\ R \in RequestState
  /\ R.pc = "idle" => R.gone = {}
  /\ R.pc # "delete" => R.found = {} /\ R.own = {}
  /\ R.gone \subseteq Exists
  /\ Referring(R.gone, "CASCADE") \cup Referring(R.gone, "PROTECT") \subseteq R.gone
  /\ (R.todo \cup R.found \cup R.own) \cap unborn = {}
  /\ \A r \in R.todo : TableOf[r] \in Askable
  /\ \A r \in R.found : TableOf[r] \in Filed => r \in R.own
  /\ R.own \cap Exists \subseteq R.found \cup R.gone
  /\ \A r \in R.gone : TableOf[r] \in Inventory => Home(r) \subseteq R.gone
  /\ \A r \in R.found \cap Exists :
       TableOf[r] \in Inventory => Home(r) \subseteq R.found \cup R.gone

RequestsAreSound ==
  /\ req \in [Request -> RequestState]
  /\ \A R : R \in {req[q] : q \in Request} => RequestIsSound(R)
  /\ \A q \in Request : \A o \in Request \ {q} : req[q].gone \cap req[o].gone = {}

FilesAreSound ==
  /\ files \subseteq Row /\ undone \subseteq Row
  /\ \A r \in files : TableOf[r] \in Filed
  /\ \A q \in Request : files \cap req[q].gone = {}
  /\ FilesFollowRows

Inv == DeletionInv /\ FilesFollowRows

LEMMA Parts == Inv <=> DatabaseIsSound /\ RequestsAreSound /\ FilesAreSound
<1>1. Inv => DatabaseIsSound /\ FilesAreSound
  BY DEF Inv, DeletionInv, TypeOK, DatabaseIsSound, FilesAreSound, TransactionsAreApart,
         InstancesHaveTheFiles
<1>2. Inv => RequestsAreSound
  BY DEF Inv, DeletionInv, TypeOK, RequestsAreSound, RequestIsSound, TransactionsAreApart,
         InstancesHaveTheFiles, PlatformsGoFirst
<1>3. DatabaseIsSound /\ RequestsAreSound /\ FilesAreSound => Inv
  BY DEF Inv, DeletionInv, TypeOK, DatabaseIsSound, FilesAreSound, RequestsAreSound,
         RequestIsSound, TransactionsAreApart, InstancesHaveTheFiles, PlatformsGoFirst
<1> QED
  BY <1>1, <1>2, <1>3

(* A row of the inventory belongs to platforms that are there, the ones it *)
(* was inserted with.                                                      *)
LEMMA HomesStay ==
  ASSUME DatabaseIsSound, NEW r \in Exists, TableOf[r] \in Inventory
  PROVE  Home(r) = HomeIn(First, r) /\ Home(r) \subseteq Exists /\ Home(r) # {}
<1>0. r \in Row
  BY DEF DatabaseIsSound
<1>1. ASSUME NEW x \in Exists, TableOf[x] \in Inventory, TableOf[x] # "Platform"
      PROVE  /\ refs[x][Owner(x)] = First[x][Owner(x)]
             /\ refs[x][Owner(x)] \subseteq Exists
             /\ \A y \in refs[x][Owner(x)] : TableOf[y] \in Inventory
             /\ Owner(x) # "platform" =>
                  \A y \in refs[x][Owner(x)] : TableOf[y] # "Platform" /\ Owner(y) = "platform"
  <2>1. x \in {z \in Row : TableOf[z] \in Inventory}
    BY <1>1 DEF DatabaseIsSound
  <2>2. /\ Owner(x) \in Field[x] /\ OnDelete[TableOf[x]][Owner(x)] = "CASCADE"
        /\ Owner(x) # "platform" =>
             \A y \in First[x][Owner(x)] : TableOf[y] # "Platform" /\ Owner(y) = "platform"
    BY <1>1, <2>1, InventoryAssumption
  <2>3. \A y \in First[x][Owner(x)] : TableOf[y] \in Inventory
    BY <2>1, <2>2, InventoryAssumption
  <2>4. refs[x][Owner(x)] = First[x][Owner(x)]
    BY <2>1, <2>2 DEF DatabaseIsSound, ReferencesStay, Rule
  <2>5. refs[x][Owner(x)] \subseteq Exists
    BY <2>2 DEF DatabaseIsSound, NoDanglingReference, Targets
  <2> QED
    BY <2>2, <2>3, <2>4, <2>5
<1>2. HomeIn(First, r) # {}
  BY <1>0, InventoryAssumption
<1>3. CASE TableOf[r] = "Platform"
  <2>1. Home(r) = {r} /\ HomeIn(First, r) = {r}
    BY <1>3 DEF Home, HomeIn
  <2> QED
    BY <2>1
<1>4. CASE TableOf[r] # "Platform" /\ Owner(r) = "platform"
  BY <1>1, <1>2, <1>4 DEF Home, HomeIn
<1>5. CASE TableOf[r] # "Platform" /\ Owner(r) # "platform"
  <2>1. \A x \in refs[r][Owner(r)] :
          refs[x]["platform"] = First[x]["platform"] /\ refs[x]["platform"] \subseteq Exists
    BY <1>1, <1>5
  <2>2. refs[r][Owner(r)] = First[r][Owner(r)]
    BY <1>1, <1>5
  <2>3. /\ Home(r) = UNION {refs[x]["platform"] : x \in refs[r][Owner(r)]}
        /\ HomeIn(First, r) = UNION {First[x]["platform"] : x \in First[r][Owner(r)]}
    BY <1>5 DEF Home, HomeIn
  <2> QED
    BY <1>2, <2>1, <2>2, <2>3
<1> QED
  BY <1>3, <1>4, <1>5

(* What refers by CASCADE to the inventory is of the same platforms.       *)
LEMMA SameHome ==
  ASSUME DatabaseIsSound, NEW S \in SUBSET Row, NEW r \in Referring(S, "CASCADE"),
         TableOf[r] \in Inventory
  PROVE  \E y \in S : y \in Exists /\ TableOf[y] \in Inventory /\ Home(r) = Home(y)
<1>1. PICK f \in Field[r] : refs[r][f] \cap S # {} /\ Rule[r][f] = "CASCADE"
  BY DEF Referring
<1>2. PICK y \in S : y \in refs[r][f]
  BY <1>1
<1>3. r \in Exists /\ r \in Row /\ y \in Exists /\ y \in First[r][f]
  BY <1>2 DEF Referring, DatabaseIsSound, NoDanglingReference, Targets, ReferencesStay
<1>4. TableOf[y] \in Inventory /\ HomeIn(First, y) = HomeIn(First, r)
  BY <1>1, <1>3, InventoryAssumption DEF Rule
<1> QED
  BY <1>3, <1>4, HomesStay

-----------------------------------------------------------------------------
(* A step of one request that deletes nothing from the database.           *)
LEMMA RequestStep ==
  ASSUME Inv, NEW q \in Request, NEW R, RequestIsSound(R),
         req' = [req EXCEPT ![q] = R], UNCHANGED <<refs, unborn>>,
         \A o \in Request \ {q} : R.gone \cap req[o].gone = {},
         files' \subseteq files, files' \cap R.gone = {},
         undone \subseteq undone', undone' \subseteq Row,
         req[q].gone \subseteq R.gone \cup undone',
         (files \ files') \cap Exists \subseteq R.gone
  PROVE  Inv'
<1>0. DatabaseIsSound /\ RequestsAreSound /\ FilesAreSound
  BY Parts
<1>1. DatabaseIsSound'
  BY <1>0 DEF DatabaseIsSound, Exists, NoDanglingReference, Targets, ReferencesStay
<1>2. \A S : RequestIsSound(S) => RequestIsSound(S)'
  BY DEF RequestIsSound, Referring, Exists, Home, HomeIn
<1>3. R \in RequestState /\ req'[q] = R /\ \A o \in Request \ {q} : req'[o] = req[o]
  BY <1>0 DEF RequestIsSound, RequestsAreSound
<1>4. RequestsAreSound'
  <2>1. req' \in [Request -> RequestState]
    BY <1>0, <1>3 DEF RequestsAreSound
  <2>2. ASSUME NEW o \in Request, NEW S, S = req'[o] PROVE RequestIsSound(S)'
    <3>1. S = R \/ S = req[o]
      BY <1>3, <2>2
    <3>2. RequestIsSound(S)
      BY <1>0, <3>1 DEF RequestsAreSound
    <3> QED
      BY <1>2, <3>2
  <2>4. \A p \in Request : \A o \in Request \ {p} : req'[p].gone \cap req'[o].gone = {}
    BY <1>0, <1>3 DEF RequestsAreSound
  <2> QED
    BY <2>1, <2>2, <2>4 DEF RequestsAreSound
<1>5. FilesAreSound'
  <2>1. Exists' = Exists
    BY DEF Exists
  <2>2. files' \subseteq Row /\ undone' \subseteq Row /\ \A r \in files' : TableOf[r] \in Filed
    BY <1>0 DEF FilesAreSound
  <2>3. \A o \in Request : files' \cap req'[o].gone = {}
    BY <1>0, <1>3 DEF FilesAreSound
  <2>4. files' \subseteq Exists
    BY <1>0 DEF FilesAreSound, FilesFollowRows
  <2>5. ASSUME NEW r \in Exists, TableOf[r] \in Filed
        PROVE  r \in files' \cup undone' \/ \E o \in Request : r \in req'[o].gone
    <3>1. r \in files \cup undone \/ \E o \in Request : r \in req[o].gone
      BY <1>0, <2>5 DEF FilesAreSound, FilesFollowRows
    <3>2. CASE r \in files
      BY <1>3, <3>2
    <3>3. CASE \E o \in Request : r \in req[o].gone
      BY <1>3, <3>3
    <3> QED
      BY <3>1, <3>2, <3>3
  <2> QED
    BY <2>1, <2>2, <2>3, <2>4, <2>5 DEF FilesAreSound, FilesFollowRows
<1> QED
  BY <1>1, <1>4, <1>5, Parts, PTL

(* A request starts from rows that are there, of which one can be of the   *)
(* inventory.                                                              *)
LEMMA StartedExist ==
  ASSUME DatabaseIsSound, NEW r \in Exists
  PROVE  /\ r \in Started(r) /\ Started(r) \subseteq Exists
         /\ \A x \in Started(r) : x = r \/ TableOf[x] \notin Inventory
<1>0. r \in Row
  BY DEF DatabaseIsSound
<1>1. \A f \in Field[r] : /\ refs[r][f] \subseteq Exists
                          /\ \A x \in refs[r][f] : TableOf[x] = Columns[TableOf[r]][f]
  BY <1>0, RowAssumption
     DEF DatabaseIsSound, NoDanglingReference, Targets, ReferencesStay
<1>2. CASE TableOf[r] = "Menu"
  <2>1. Started(r) = {r} \cup refs[r]["meta"]
    BY <1>2 DEF Started
  <2> QED
    BY <1>0, <1>1, <1>2, <2>1, SchemaAssumption, InventoryAssumption
<1>3. CASE TableOf[r] = "MessageContent"
  <2>1. Started(r) = {r} \cup refs[r]["file"]
    BY <1>3 DEF Started
  <2> QED
    BY <1>0, <1>1, <1>3, <2>1, SchemaAssumption, InventoryAssumption
<1>4. CASE TableOf[r] \notin {"Menu", "MessageContent"}
  <2>1. Started(r) = {r}
    BY <1>4 DEF Started
  <2> QED
    BY <2>1
<1> QED
  BY <1>2, <1>3, <1>4

(* What goes with the instance r is there, has a file only if the request  *)
(* started from it, and with a row of the inventory includes its platform. *)
LEMMA CollectedWhole ==
  ASSUME DatabaseIsSound, NEW r \in Exists, TableOf[r] \in Askable
  PROVE  LET C == Collected[Started(r)]
         IN  /\ Started(r) \subseteq C /\ C \subseteq Exists
             /\ \A x \in C : TableOf[x] \in Filed => x \in Started(r)
             /\ \A x \in C : TableOf[x] \in Inventory => Home(x) \subseteq C
<1> DEFINE C == Collected[Started(r)]
           Reached == {x \in C : x \in Started(r) \/ x \in Referring(C, "CASCADE")}
           Whole == {x \in C : TableOf[x] \in Inventory => Home(x) \subseteq C}
<1>0. Exists \subseteq Row
  BY DEF DatabaseIsSound
<1>1. Started(r) \in SUBSET Row /\ Started(r) \subseteq Exists
  BY <1>0, StartedExist
<1>2. /\ C \in SUBSET Row /\ Started(r) \subseteq C
      /\ Referring(C, "CASCADE") \subseteq C
      /\ \A D \in SUBSET Row :
           Started(r) \subseteq D /\ Referring(D, "CASCADE") \subseteq D => C \subseteq D
  BY <1>0, <1>1, CollectedCloses
<1> HIDE DEF C
<1>3. C \subseteq Reached
  <2>1. Reached \in SUBSET Row /\ Reached \subseteq C /\ Started(r) \subseteq Reached
    BY <1>2
  <2>2. Referring(Reached, "CASCADE") \subseteq Referring(C, "CASCADE")
    BY <2>1, MoreReferring
  <2>3. Referring(Reached, "CASCADE") \subseteq Reached
    BY <1>2, <2>2
  <2> QED
    BY <1>2, <2>1, <2>3
<1>4. \A x \in Referring(C, "CASCADE") : x \in Exists /\ TableOf[x] \notin Filed
  BY <1>0, RowAssumption, SchemaAssumption DEF Referring, Field, Rule
<1>5. C \subseteq Whole
  <2>1. ASSUME NEW x \in Started(r), TableOf[x] \in Inventory PROVE Home(x) \subseteq C
    <3>1. x = r /\ TableOf[r] = "Platform"
      BY <2>1, StartedExist, InventoryAssumption
    <3> QED
      BY <1>2, <2>1, <3>1 DEF Home, HomeIn
  <2>2. Whole \in SUBSET Row /\ Whole \subseteq C /\ Started(r) \subseteq Whole
    BY <1>2, <2>1
  <2>3. ASSUME NEW x \in Referring(Whole, "CASCADE"), TableOf[x] \in Inventory
        PROVE  Home(x) \subseteq C
    <3>1. PICK y \in Whole : TableOf[y] \in Inventory /\ Home(x) = Home(y)
      BY <2>2, <2>3, SameHome
    <3> QED
      BY <3>1
  <2>4. Referring(Whole, "CASCADE") \subseteq C
    BY <1>2, <2>2, MoreReferring
  <2>5. Referring(Whole, "CASCADE") \subseteq Whole
    BY <2>3, <2>4
  <2> QED
    BY <1>2, <2>2, <2>5
<1> QED
  BY <1>1, <1>2, <1>3, <1>4, <1>5 DEF C

-----------------------------------------------------------------------------
(* Every action keeps the invariant. *)

LEMMA AskStep ==
  ASSUME Inv, NEW q \in Request, NEW kind \in {"destroy", "batch"}, NEW t \in Askable,
         NEW rows \in Asked(t), Ask(q, rows, kind)
  PROVE  Inv'
<1> DEFINE R == [Idle EXCEPT !.pc = "collect", !.kind = kind, !.todo = rows]
<1>0. DatabaseIsSound /\ RequestsAreSound /\ FilesAreSound
  BY Parts
<1>1. req[q].gone = {}
  BY <1>0 DEF RequestsAreSound, RequestIsSound, Ask
<1>2. rows \subseteq Exists /\ \A r \in rows : TableOf[r] \in Askable
  BY DEF Asked
<1>3. /\ R \in RequestState /\ R.pc = "collect" /\ R.todo = rows
      /\ R.found = {} /\ R.own = {} /\ R.gone = {}
  BY <1>0, <1>2 DEF Idle, RequestState, DatabaseIsSound
<1>4. req' = [req EXCEPT ![q] = R] /\ UNCHANGED <<refs, files, unborn, undone>>
  BY DEF Ask
<1> HIDE DEF R
<1>5. RequestIsSound(R)
  BY <1>0, <1>2, <1>3 DEF RequestIsSound, Referring, DatabaseIsSound
<1> QED
  BY <1>0, <1>1, <1>3, <1>4, <1>5, RequestStep DEF FilesAreSound

LEMMA RefuseStep ==
  ASSUME Inv, NEW q \in Request, NEW r \in req[q].todo, Refuse(q, r)
  PROVE  Inv'
<1> DEFINE R == [req[q] EXCEPT !.pc = IF req[q].kind = "destroy" THEN "refused" ELSE "collect",
                               !.todo = @ \ {r}]
<1>0. DatabaseIsSound /\ RequestsAreSound /\ FilesAreSound
  BY Parts
<1>1. RequestIsSound(req[q])
  BY <1>0 DEF RequestsAreSound
<1>2. /\ R \in RequestState /\ R.pc \notin {"idle", "delete"} /\ R.todo \subseteq req[q].todo
      /\ R.found = req[q].found /\ R.own = req[q].own /\ R.gone = req[q].gone
  BY <1>1 DEF RequestIsSound, RequestState, Ended
<1>3. req' = [req EXCEPT ![q] = R] /\ UNCHANGED <<refs, files, unborn, undone>>
  BY DEF Refuse
<1>4. req[q].pc = "collect"
  BY DEF Refuse
<1> HIDE DEF R
<1>5. RequestIsSound(R)
  BY <1>1, <1>2, <1>4 DEF RequestIsSound
<1>6. /\ \A o \in Request \ {q} : R.gone \cap req[o].gone = {}
      /\ files \cap R.gone = {}
  BY <1>0, <1>2 DEF RequestsAreSound, FilesAreSound
<1> QED
  BY <1>0, <1>2, <1>3, <1>5, <1>6, RequestStep DEF FilesAreSound

LEMMA CollectStep ==
  ASSUME Inv, NEW q \in Request, NEW r \in req[q].todo, Collect(q, r)
  PROVE  Inv'
<1> DEFINE own == IF r \in Exists THEN Started(r) ELSE {r}
           found == IF r \in Exists THEN Collected[Started(r)] \ req[q].gone ELSE {}
           R == [req[q] EXCEPT !.pc = "delete", !.todo = @ \ {r}, !.own = own, !.found = found]
<1>0. DatabaseIsSound /\ RequestsAreSound /\ FilesAreSound
  BY Parts
<1>1. RequestIsSound(req[q])
  BY <1>0 DEF RequestsAreSound
<1>2. r \in Row /\ r \notin unborn /\ TableOf[r] \in Askable /\ Exists \subseteq Row
  BY <1>0, <1>1 DEF RequestIsSound, RequestState, DatabaseIsSound
<1>3. /\ found \subseteq Exists /\ own \in SUBSET Row /\ own \cap unborn = {}
      /\ own \cap Exists \subseteq found \cup req[q].gone
      /\ \A x \in found : /\ TableOf[x] \in Filed => x \in own
                          /\ TableOf[x] \in Inventory => Home(x) \subseteq found \cup req[q].gone
  <2>1. CASE r \in Exists
    <3>1. own = Started(r) /\ found = Collected[Started(r)] \ req[q].gone
      BY <2>1
    <3> HIDE DEF own, found
    <3>2. Started(r) \subseteq Exists /\ Exists \cap unborn = {}
      BY <1>0, <2>1, StartedExist DEF DatabaseIsSound
    <3> QED
      BY <1>0, <1>2, <2>1, <3>1, <3>2, CollectedWhole
  <2>2. CASE r \notin Exists
    BY <1>2, <2>2
  <2> QED
    BY <2>1, <2>2
<1>4. req' = [req EXCEPT ![q] = R] /\ UNCHANGED <<refs, files, unborn, undone>>
  BY DEF Collect
<1> HIDE DEF own, found
<1>5. /\ R \in RequestState /\ R.pc = "delete" /\ R.todo \subseteq req[q].todo
      /\ R.found = found /\ R.own = own /\ R.gone = req[q].gone
  BY <1>1, <1>2, <1>3 DEF RequestIsSound, RequestState
<1> HIDE DEF R
<1>6. RequestIsSound(R)
  <2>1. found \cap unborn = {}
    BY <1>0, <1>3 DEF DatabaseIsSound
  <2> QED
    BY <1>1, <1>3, <1>5, <2>1 DEF RequestIsSound
<1>7. /\ \A o \in Request \ {q} : R.gone \cap req[o].gone = {}
      /\ files \cap R.gone = {}
  BY <1>0, <1>5 DEF RequestsAreSound, FilesAreSound
<1> QED
  BY <1>0, <1>4, <1>5, <1>6, <1>7, RequestStep DEF FilesAreSound

(* The rows deleted with those found keep all that refers to them: what    *)
(* the collection missed is a leaf and goes too, or stops the statements.  *)
LEMMA DeletedWhole ==
  ASSUME DatabaseIsSound, NEW R, RequestIsSound(R),
         StillReferred(R.found \cup LateLeaves(R.found)) \ R.gone = {}
  PROVE  LET all == R.found \cup LateLeaves(R.found)
             gone == R.gone \cup (all \cap Exists)
         IN  /\ Referring(gone, "CASCADE") \cup Referring(gone, "PROTECT") \subseteq gone
             /\ \A r \in gone : TableOf[r] \in Filed => r \in R.own \cup R.gone
             /\ \A r \in gone : TableOf[r] \in Inventory => Home(r) \subseteq gone
<1> DEFINE leaves == LateLeaves(R.found)
           all == R.found \cup leaves
           gone == R.gone \cup (all \cap Exists)
<1>0. /\ Exists \subseteq Row /\ R.found \in SUBSET Row
      /\ leaves \subseteq Referring(R.found, "CASCADE")
      /\ \A r \in leaves : TableOf[r] \in FastDeleted
  BY DEF DatabaseIsSound, RequestIsSound, RequestState, LateLeaves
<1>1. \A S, rule : Referring(S, rule) \subseteq Exists
  BY DEF Referring
<1>2. ASSUME NEW rule \in {"CASCADE", "PROTECT"}, NEW r \in Referring(gone, rule)
      PROVE  r \in gone
  <2>1. PICK f \in Field[r], x \in gone : x \in refs[r][f] /\ Rule[r][f] = rule
    BY <1>2 DEF Referring
  <2>2. r \in Exists /\ r \in Row
    BY <1>0, <1>1, <1>2
  <2>3. CASE x \in R.gone
    <3>1. r \in Referring(R.gone, rule)
      BY <2>1, <2>2, <2>3 DEF Referring
    <3> QED
      BY <1>2, <3>1 DEF RequestIsSound
  <2>4. CASE x \in R.found
    <3>1. r \in Referring(R.found, rule) /\ r \in Referring(all, rule)
      BY <2>1, <2>2, <2>4 DEF Referring
    <3>2. CASE rule = "CASCADE" /\ TableOf[r] \in FastDeleted
      BY <2>2, <3>1, <3>2 DEF LateLeaves
    <3>3. CASE ~ (TableOf[r] \in FastDeleted /\ r \in Referring(all, "CASCADE"))
      <4> HIDE DEF leaves
      <4> QED
        BY <1>2, <2>2, <3>1, <3>3 DEF StillReferred, leaves
    <3>4. CASE rule = "PROTECT" /\ TableOf[r] \in FastDeleted /\ r \in Referring(all, "CASCADE")
      <4>1. PICK g \in Field[r], y \in all : y \in refs[r][g] /\ Rule[r][g] = "CASCADE"
        BY <3>4 DEF Referring
      <4>2. y \in leaves => FALSE
        <5>1. y \in First[r][g] /\ TableOf[y] = Columns[TableOf[r]][g] /\ TableOf[r] \in Table
          BY <2>2, <4>1, RowAssumption DEF DatabaseIsSound, ReferencesStay
        <5> QED
          BY <1>0, <2>2, <4>1, <5>1, RowAssumption DEF FastDeleted, Field
      <4>3. y \in R.found
        BY <4>1, <4>2
      <4>4. r \in Referring(R.found, "CASCADE")
        BY <2>2, <4>1, <4>3 DEF Referring
      <4> QED
        BY <2>2, <3>4, <4>4 DEF LateLeaves
    <3> QED
      BY <1>2, <3>1, <3>2, <3>3, <3>4
  <2>5. CASE x \in leaves
    <3>1. x \in First[r][f] /\ TableOf[x] = Columns[TableOf[r]][f] /\ TableOf[r] \in Table
      BY <2>1, <2>2, RowAssumption DEF DatabaseIsSound, ReferencesStay
    <3> QED
      BY <1>0, <2>1, <2>2, <2>5, <3>1, RowAssumption DEF FastDeleted, Field
  <2> QED
    BY <2>1, <2>3, <2>4, <2>5
<1>3. ASSUME NEW r \in gone, TableOf[r] \in Filed PROVE r \in R.own \cup R.gone
  <2>1. r \notin leaves
    BY <1>0, <1>1, <1>3, RowAssumption, SchemaAssumption DEF Referring, Field, Rule
  <2> QED
    BY <1>3, <2>1 DEF RequestIsSound
<1>4. ASSUME NEW r \in gone, TableOf[r] \in Inventory PROVE Home(r) \subseteq gone
  <2>0. R.gone \subseteq Exists
    BY DEF RequestIsSound
  <2>1. Home(r) \subseteq Exists
    BY <1>4, <2>0, HomesStay
  <2>2. CASE r \in R.gone
    BY <1>4, <2>2 DEF RequestIsSound
  <2>3. CASE r \in R.found /\ r \in Exists
    BY <1>4, <2>1, <2>3 DEF RequestIsSound
  <2>4. CASE r \in leaves
    <3>1. PICK y \in R.found : y \in Exists /\ TableOf[y] \in Inventory /\ Home(r) = Home(y)
      BY <1>0, <1>4, <2>4, SameHome
    <3> QED
      BY <2>1, <3>1 DEF RequestIsSound
  <2> QED
    BY <1>4, <2>2, <2>3, <2>4
<1> QED
  BY <1>2, <1>3, <1>4

LEMMA DeleteStep ==
  ASSUME Inv, NEW q \in Request, Delete(q)
  PROVE  Inv'
<1> DEFINE all == req[q].found \cup LateLeaves(req[q].found)
           next == IF req[q].kind = "destroy" THEN "finish" ELSE "collect"
           gone == req[q].gone \cup (all \cap Exists)
           Done == [req[q] EXCEPT !.pc = next, !.found = {}, !.own = {}, !.gone = gone]
           Stopped == [req[q] EXCEPT !.pc = next, !.found = {}, !.own = {}, !.doomed = TRUE]
<1>0. DatabaseIsSound /\ RequestsAreSound /\ FilesAreSound
  BY Parts
<1>1. RequestIsSound(req[q])
  BY <1>0 DEF RequestsAreSound
<1>2. req[q] \in RequestState /\ Exists \subseteq Row /\ gone \subseteq Exists
  BY <1>0, <1>1 DEF RequestIsSound, DatabaseIsSound
<1>3. CASE StillReferred(all) \ req[q].gone = {}
  <2>1. req' = [req EXCEPT ![q] = Done] /\ files' = files \ req[q].own
        /\ UNCHANGED <<refs, unborn, undone>>
    BY <1>3 DEF Delete
  <2>2. /\ Referring(gone, "CASCADE") \cup Referring(gone, "PROTECT") \subseteq gone
        /\ \A r \in gone : TableOf[r] \in Filed => r \in req[q].own \cup req[q].gone
        /\ \A r \in gone : TableOf[r] \in Inventory => Home(r) \subseteq gone
    BY <1>0, <1>1, <1>3, DeletedWhole
  <2>3. /\ gone \cap Locked(q) = {}
        /\ req[q].own \cap Exists \subseteq gone /\ req[q].gone \subseteq gone
    <3>1. \A r \in Locked(q) : r \notin all
      BY DEF Delete
    <3>2. \A r \in Locked(q) : r \notin req[q].gone
      BY <1>0 DEF Locked, RequestsAreSound
    <3>3. req[q].own \cap Exists \subseteq req[q].found \cup req[q].gone
      BY <1>1 DEF RequestIsSound
    <3> QED
      BY <3>1, <3>2, <3>3
  <2> HIDE DEF gone, all
  <2>4. /\ Done \in RequestState /\ Done.pc \notin {"idle", "delete"}
        /\ Done.todo = req[q].todo /\ Done.found = {} /\ Done.own = {} /\ Done.gone = gone
    BY <1>2 DEF RequestState, Ended
  <2> HIDE DEF Done
  <2>5. RequestIsSound(Done)
    BY <1>1, <1>2, <2>2, <2>4 DEF RequestIsSound
  <2>6. \A o \in Request \ {q} : Done.gone \cap req[o].gone = {}
    BY <2>3, <2>4 DEF Locked
  <2>7. files' \cap Done.gone = {}
    BY <1>0, <2>1, <2>2, <2>4 DEF FilesAreSound
  <2> QED
    BY <1>0, <2>1, <2>3, <2>4, <2>5, <2>6, <2>7, RequestStep DEF FilesAreSound
<1>4. CASE StillReferred(all) \ req[q].gone # {}
  <2>1. req' = [req EXCEPT ![q] = Stopped] /\ UNCHANGED <<refs, files, unborn, undone>>
    BY <1>4 DEF Delete
  <2> HIDE DEF gone, all
  <2>2. /\ Stopped \in RequestState /\ Stopped.pc \notin {"idle", "delete"}
        /\ Stopped.todo = req[q].todo /\ Stopped.found = {} /\ Stopped.own = {}
        /\ Stopped.gone = req[q].gone
    BY <1>2 DEF RequestState, Ended
  <2> HIDE DEF Stopped
  <2>3. RequestIsSound(Stopped)
    BY <1>1, <2>2 DEF RequestIsSound
  <2>4. /\ \A o \in Request \ {q} : Stopped.gone \cap req[o].gone = {}
        /\ files \cap Stopped.gone = {}
    BY <1>0, <2>2 DEF RequestsAreSound, FilesAreSound
  <2> QED
    BY <1>0, <2>1, <2>2, <2>3, <2>4, RequestStep DEF FilesAreSound
<1> QED
  BY <1>3, <1>4

(* The two ways in which what a request has deleted comes back.            *)
LEMMA UndoneStep ==
  ASSUME Inv, NEW q \in Request, NEW R \in RequestState,
         R.pc \notin {"idle", "delete"}, R.todo = req[q].todo, R.found = {}, R.own = {},
         R.gone = {}, req' = [req EXCEPT ![q] = R], undone' = undone \cup req[q].gone,
         UNCHANGED <<refs, files, unborn>>
  PROVE  Inv'
<1>0. DatabaseIsSound /\ RequestsAreSound /\ FilesAreSound
  BY Parts
<1>1. RequestIsSound(req[q])
  BY <1>0 DEF RequestsAreSound
<1>2. RequestIsSound(R)
  BY <1>1 DEF RequestIsSound, Referring
<1>3. undone' \subseteq Row
  BY <1>0, <1>1 DEF FilesAreSound, RequestIsSound, DatabaseIsSound
<1> QED
  BY <1>2, <1>3, RequestStep

LEMMA StatementFailsStep ==
  ASSUME Inv, NEW q \in Request, StatementFails(q)
  PROVE  Inv'
<1> DEFINE R == [req[q] EXCEPT !.pc = IF req[q].kind = "destroy" THEN "finish" ELSE "collect",
                               !.found = {}, !.own = {}, !.gone = {}, !.doomed = TRUE]
<1>1. req[q] \in RequestState
  BY Parts DEF RequestsAreSound
<1>2. /\ R \in RequestState /\ R.pc \notin {"idle", "delete"} /\ R.todo = req[q].todo
      /\ R.found = {} /\ R.own = {} /\ R.gone = {}
  BY <1>1 DEF RequestState, Ended
<1>3. /\ req' = [req EXCEPT ![q] = R] /\ undone' = undone \cup req[q].gone
      /\ UNCHANGED <<refs, files, unborn>>
  BY DEF StatementFails
<1> HIDE DEF R
<1> QED
  BY <1>2, <1>3, UndoneStep

LEMMA Homes ==
  DatabaseIsSound => \A r \in Exists : TableOf[r] \in Inventory =>
    Home(r) = HomeIn(First, r) /\ Home(r) \subseteq Exists /\ Home(r) # {}
BY HomesStay

(* A step that writes references leaves the platforms of the inventory.    *)
LEMMA HomesKept ==
  ASSUME DatabaseIsSound, DatabaseIsSound'
  PROVE  \A r \in Exists \cap Exists' : TableOf[r] \in Inventory =>
           Home(r)' = Home(r) /\ Home(r) \subseteq Exists' /\ Home(r) # {}
<1>1. \A r \in Exists : TableOf[r] \in Inventory => Home(r) = HomeIn(First, r)
  BY Homes
<1>2. (\A r \in Exists : TableOf[r] \in Inventory =>
         Home(r) = HomeIn(First, r) /\ Home(r) \subseteq Exists /\ Home(r) # {})'
  <2>1. (DatabaseIsSound => \A r \in Exists : TableOf[r] \in Inventory =>
           Home(r) = HomeIn(First, r) /\ Home(r) \subseteq Exists /\ Home(r) # {})'
    BY Homes, PTL
  <2> QED
    BY <2>1
<1> QED
  BY <1>1, <1>2

LEMMA CommitWrites ==
  ASSUME DatabaseIsSound, NEW G, refs' = Without(G), UNCHANGED unborn,
         Referring(G, "CASCADE") \cup Referring(G, "PROTECT") \subseteq G
  PROVE  /\ Exists' = Exists \ G
         /\ DatabaseIsSound'
         /\ \A S, rule : Referring(S, rule)' \subseteq Referring(S, rule) \cap Exists'
<1>1. Exists' = Exists \ G
  BY DEF Without, Exists
<1>2. \A r \in Exists' : \A f \in Field[r] :
        refs'[r][f] = IF Rule[r][f] \in {"SET_NULL", "UNLINK"} THEN refs[r][f] \ G
                                                            ELSE refs[r][f]
  BY <1>1 DEF Without
<1>3. \A r \in Exists' : refs'[r] \in [Field[r] -> SUBSET Row]
  <2>1. ASSUME NEW r \in Exists' PROVE refs'[r] \in [Field[r] -> SUBSET Row]
    <3>1. refs[r] \in [Field[r] -> SUBSET Row]
      BY <1>1 DEF DatabaseIsSound
    <3>2. refs'[r] = [f \in Field[r] |-> IF Rule[r][f] \in {"SET_NULL", "UNLINK"}
                                           THEN refs[r][f] \ G ELSE refs[r][f]]
      BY <1>1 DEF Without
    <3> QED
      BY <3>1, <3>2
  <2> QED
    BY <2>1
<1>4. ASSUME NEW r \in Exists', NEW f \in Field[r]
      PROVE  refs'[r][f] \subseteq Exists' /\ refs'[r][f] \subseteq refs[r][f]
  <2>1. refs[r][f] \subseteq Exists /\ r \in Row /\ r \in Exists /\ r \notin G
    BY <1>1 DEF DatabaseIsSound, NoDanglingReference, Targets
  <2>2. CASE Rule[r][f] \in {"SET_NULL", "UNLINK"}
    BY <1>1, <1>2, <2>1, <2>2
  <2>3. CASE Rule[r][f] \notin {"SET_NULL", "UNLINK"}
    <3>1. Rule[r][f] \in {"CASCADE", "PROTECT"}
      BY <2>1, <2>3, RowAssumption, SchemaAssumption DEF Rule, Field
    <3>2. refs[r][f] \cap G = {}
      BY <2>1, <3>1 DEF Referring
    <3> QED
      BY <1>1, <1>2, <2>1, <2>3, <3>2
  <2> QED
    BY <2>2, <2>3
<1>5. NoDanglingReference'
  BY <1>4 DEF NoDanglingReference, Targets
<1>6. ReferencesStay'
  <2>1. ASSUME NEW r \in Exists', NEW f \in Field[r]
        PROVE  /\ refs'[r][f] \subseteq First[r][f]
               /\ Rule[r][f] \in {"CASCADE", "PROTECT"} => refs'[r][f] = First[r][f]
    <3>1. /\ refs[r][f] \subseteq First[r][f]
          /\ Rule[r][f] \in {"CASCADE", "PROTECT"} => refs[r][f] = First[r][f]
      BY <1>1 DEF DatabaseIsSound, ReferencesStay
    <3>2. refs'[r][f] \subseteq refs[r][f]
      BY <1>4
    <3>3. Rule[r][f] \in {"CASCADE", "PROTECT"} => refs'[r][f] = refs[r][f]
      BY <1>2
    <3> QED
      BY <3>1, <3>2, <3>3
  <2> QED
    BY <2>1 DEF ReferencesStay
<1>7. DatabaseIsSound'
  BY <1>1, <1>3, <1>5, <1>6 DEF DatabaseIsSound
<1>8. ASSUME NEW S, NEW rule, NEW r \in Referring(S, rule)'
      PROVE  r \in Referring(S, rule) \cap Exists'
  <2>1. PICK f \in Field[r] : refs'[r][f] \cap S # {} /\ Rule[r][f] = rule
    BY DEF Referring
  <2>2. r \in Exists'
    BY DEF Referring
  <2> QED
    BY <1>1, <1>4, <2>1, <2>2 DEF Referring
<1> QED
  BY <1>1, <1>7, <1>8

LEMMA CommitStep ==
  ASSUME Inv, NEW q \in Request, NEW R \in RequestState,
         R.pc \notin {"idle", "delete"}, R.todo = req[q].todo, R.found = {}, R.own = {},
         R.gone = {}, req' = [req EXCEPT ![q] = R], refs' = Without(req[q].gone),
         UNCHANGED <<files, unborn, undone>>
  PROVE  Inv'
<1> DEFINE G == req[q].gone
<1>0. DatabaseIsSound /\ RequestsAreSound /\ FilesAreSound
  BY Parts
<1>1. RequestIsSound(req[q])
  BY <1>0 DEF RequestsAreSound
<1>2. /\ Exists' = Exists \ G /\ DatabaseIsSound'
      /\ \A S, rule : Referring(S, rule)' \subseteq Referring(S, rule) \cap Exists'
  BY <1>0, <1>1, CommitWrites DEF RequestIsSound
<1>3. \A r \in Exists' : TableOf[r] \in Inventory => Home(r)' = Home(r)
  BY <1>0, <1>2, HomesKept
<1> HIDE DEF G
<1>4. ASSUME NEW S, RequestIsSound(S), S.gone \cap G = {} PROVE RequestIsSound(S)'
  <2>1. S.gone \subseteq Exists' /\ S.found \cap Exists' \subseteq S.found \cap Exists
    BY <1>2, <1>4 DEF RequestIsSound
  <2>2. /\ \A r \in S.gone : TableOf[r] \in Inventory => Home(r)' \subseteq S.gone
        /\ \A r \in S.found \cap Exists' :
             TableOf[r] \in Inventory => Home(r)' \subseteq S.found \cup S.gone
    BY <1>3, <1>4, <2>1 DEF RequestIsSound
  <2>3. (Referring(S.gone, "CASCADE") \cup Referring(S.gone, "PROTECT"))' \subseteq S.gone
    BY <1>2, <1>4 DEF RequestIsSound
  <2>4. S.own \cap Exists' \subseteq S.found \cup S.gone
    BY <1>2, <1>4 DEF RequestIsSound
  <2> QED
    BY <1>4, <2>1, <2>2, <2>3, <2>4 DEF RequestIsSound
<1>5. req'[q] = R /\ \A o \in Request \ {q} : req'[o] = req[o]
  BY <1>0 DEF RequestsAreSound
<1>6. RequestIsSound(R)
  BY <1>1 DEF RequestIsSound, Referring
<1>7. RequestsAreSound'
  <2>1. req' \in [Request -> RequestState]
    BY <1>0 DEF RequestsAreSound
  <2>2. ASSUME NEW o \in Request, NEW S, S = req'[o] PROVE RequestIsSound(S)'
    <3>1. CASE o = q
      BY <1>4, <1>5, <1>6, <2>2, <3>1
    <3>2. CASE o # q
      <4>1. S = req[o] /\ RequestIsSound(S) /\ S.gone \cap G = {}
        BY <1>0, <1>5, <2>2, <3>2 DEF RequestsAreSound, G
      <4> QED
        BY <1>4, <4>1
    <3> QED
      BY <3>1, <3>2
  <2>3. \A p \in Request : \A o \in Request \ {p} : req'[p].gone \cap req'[o].gone = {}
    BY <1>0, <1>5 DEF RequestsAreSound
  <2> QED
    BY <2>1, <2>2, <2>3 DEF RequestsAreSound
<1>8. FilesAreSound'
  <2>1. files' \subseteq Exists' /\ \A o \in Request : files \cap req'[o].gone = {}
    BY <1>0, <1>2, <1>5 DEF FilesAreSound, FilesFollowRows, G
  <2>2. ASSUME NEW r \in Exists', TableOf[r] \in Filed
        PROVE  r \in files \cup undone \/ \E o \in Request : r \in req'[o].gone
    <3>1. r \notin G /\ (r \in files \cup undone \/ \E o \in Request : r \in req[o].gone)
      BY <1>0, <1>2, <2>2 DEF FilesAreSound, FilesFollowRows
    <3> QED
      BY <1>5, <3>1 DEF G
  <2> QED
    BY <1>0, <2>1, <2>2 DEF FilesAreSound, FilesFollowRows
<1> QED
  BY <1>2, <1>7, <1>8, Parts, PTL

LEMMA FinishStep ==
  ASSUME Inv, NEW q \in Request, Finish(q)
  PROVE  Inv'
<1> DEFINE failed == IF req[q].kind = "batch" THEN "done" ELSE "failed"
           R(pc) == [req[q] EXCEPT !.pc = pc, !.gone = {}]
<1>1. /\ req[q] \in RequestState
      /\ req[q].pc # "delete" /\ req[q].found = {} /\ req[q].own = {}
  <2>1. RequestIsSound(req[q])
    BY Parts DEF RequestsAreSound
  <2>2. req[q].pc # "delete"
    BY DEF Finish
  <2> QED
    BY <2>1, <2>2 DEF RequestIsSound
<1>2. ASSUME NEW pc \in {"done", "failed"}
      PROVE  /\ R(pc) \in RequestState /\ R(pc).pc \notin {"idle", "delete"}
             /\ R(pc).todo = req[q].todo
             /\ R(pc).found = {} /\ R(pc).own = {} /\ R(pc).gone = {}
  BY <1>1 DEF RequestState, Ended
<1>3. CASE req[q].doomed
  <2>1. /\ req' = [req EXCEPT ![q] = R(failed)] /\ undone' = undone \cup req[q].gone
        /\ UNCHANGED <<refs, files, unborn>>
    BY <1>3 DEF Finish
  <2>2. failed \in {"done", "failed"}
    OBVIOUS
  <2> HIDE DEF failed, R
  <2> QED
    BY <1>2, <2>1, <2>2, UndoneStep
<1>4. CASE ~ req[q].doomed
  <2>1. /\ req' = [req EXCEPT ![q] = R("done")] /\ refs' = Without(req[q].gone)
        /\ UNCHANGED <<files, unborn, undone>>
    BY <1>4 DEF Finish
  <2> HIDE DEF R
  <2> QED
    BY <1>2, <2>1, CommitStep
<1> QED
  BY <1>3, <1>4

LEMMA InsertStep ==
  ASSUME Inv, NEW r \in Late, Insert(r)
  PROVE  Inv'
<1>0. DatabaseIsSound /\ RequestsAreSound /\ FilesAreSound
  BY Parts
<1>1. /\ r \in Row /\ r \in unborn /\ unborn' = unborn \ {r} /\ r \notin Exists
      /\ First[r] \in [Field[r] -> SUBSET Row]
      /\ \A f \in Field[r] : First[r][f] \subseteq Exists
      /\ \A q \in Request, f \in Field[r] : First[r][f] \cap req[q].gone = {}
      /\ UNCHANGED <<req, undone>>
      /\ files' = files \cup (IF TableOf[r] \in Filed THEN {r} ELSE {})
  BY <1>0, RowAssumption DEF Insert, DatabaseIsSound
<1>2. /\ Exists' = Exists \cup {r}
      /\ refs'[r] = First[r] /\ \A x \in Exists : refs'[x] = refs[x]
  BY <1>1 DEF Insert, Exists
<1>3. DatabaseIsSound'
  <2>1. ASSUME NEW x \in Exists' PROVE refs'[x] \in [Field[x] -> SUBSET Row]
    BY <1>0, <1>1, <1>2 DEF DatabaseIsSound
  <2>2. ASSUME NEW x \in Exists', NEW f \in Field[x]
        PROVE  /\ refs'[x][f] \subseteq Exists'
               /\ refs'[x][f] \subseteq First[x][f]
               /\ Rule[x][f] \in {"CASCADE", "PROTECT"} => refs'[x][f] = First[x][f]
    <3>1. CASE x = r
      BY <1>1, <1>2, <2>2, <3>1
    <3>2. CASE x \in Exists
      <4>1. /\ refs[x][f] \subseteq Exists /\ refs[x][f] \subseteq First[x][f]
            /\ Rule[x][f] \in {"CASCADE", "PROTECT"} => refs[x][f] = First[x][f]
        BY <1>0, <2>2, <3>2 DEF DatabaseIsSound, NoDanglingReference, Targets, ReferencesStay
      <4> QED
        BY <1>2, <3>2, <4>1
    <3> QED
      BY <1>2, <3>1, <3>2
  <2>3. NoDanglingReference' /\ ReferencesStay'
    BY <2>2 DEF NoDanglingReference, Targets, ReferencesStay
  <2>4. Exists' \subseteq Row /\ unborn' \subseteq Late /\ Exists' \cap unborn' = {}
    BY <1>0, <1>1, <1>2 DEF DatabaseIsSound
  <2> QED
    BY <2>1, <2>3, <2>4 DEF DatabaseIsSound
<1>4. \A x \in Exists : TableOf[x] \in Inventory => Home(x)' = Home(x)
  BY <1>0, <1>2, <1>3, HomesKept
<1>5. ASSUME NEW q \in Request, NEW S, S = req[q] PROVE RequestIsSound(S)'
  <2>1. RequestIsSound(S)
    BY <1>0, <1>5 DEF RequestsAreSound
  <2>2. r \notin S.todo \cup S.found \cup S.own /\ S.gone \subseteq Exists
    BY <1>1, <2>1 DEF RequestIsSound
  <2>3. ASSUME NEW rule, NEW x \in Referring(S.gone, rule)' PROVE x \in Referring(S.gone, rule)
    <3>1. PICK f \in Field[x] : refs'[x][f] \cap S.gone # {} /\ Rule[x][f] = rule
      BY <2>3 DEF Referring
    <3>2. x \in Exists'
      BY <2>3 DEF Referring
    <3>3. x # r
      BY <1>1, <1>2, <1>5, <3>1
    <3> QED
      BY <1>2, <3>1, <3>2, <3>3 DEF Referring
  <2>4. (Referring(S.gone, "CASCADE") \cup Referring(S.gone, "PROTECT"))' \subseteq S.gone
    BY <2>1, <2>3 DEF RequestIsSound
  <2>5. /\ \A x \in S.gone : TableOf[x] \in Inventory => Home(x)' \subseteq S.gone
        /\ \A x \in S.found \cap Exists' :
             TableOf[x] \in Inventory => Home(x)' \subseteq S.found \cup S.gone
    BY <1>2, <1>4, <2>1, <2>2 DEF RequestIsSound
  <2> QED
    BY <1>1, <1>2, <2>1, <2>2, <2>4, <2>5 DEF RequestIsSound
<1>6. RequestsAreSound'
  BY <1>0, <1>1, <1>5 DEF RequestsAreSound
<1>7. FilesAreSound'
  <2>1. \A q \in Request : r \notin req[q].gone
    <3>1. \A q \in Request : \A S : S = req[q] => S.gone \subseteq Exists
      BY <1>0 DEF RequestsAreSound, RequestIsSound
    <3> QED
      BY <1>1, <3>1
  <2> QED
    BY <1>0, <1>1, <1>2, <2>1 DEF FilesAreSound, FilesFollowRows
<1> QED
  BY <1>3, <1>6, <1>7, Parts, PTL

LEMMA InitInv == Init => Inv
<1> SUFFICES ASSUME Init PROVE Inv
  OBVIOUS
<1>1. /\ Exists = Row \ Late /\ \A r \in Exists : refs[r] = First[r]
      /\ unborn = Late /\ undone = {}
      /\ files = {r \in Row \ Late : TableOf[r] \in Filed}
      /\ req = [q \in Request |-> Idle]
  BY DEF Init, Exists
<1>2. DatabaseIsSound
  <2>1. ASSUME NEW r \in Exists
        PROVE  /\ refs[r] \in [Field[r] -> SUBSET Row]
               /\ \A f \in Field[r] : refs[r][f] \subseteq Exists
    BY <1>1, RowAssumption
  <2> QED
    BY <1>1, <2>1 DEF DatabaseIsSound, NoDanglingReference, Targets, ReferencesStay
<1>3. RequestsAreSound
  <2>1. Idle \in RequestState
    BY DEF Idle, RequestState, Ended
  <2>2. RequestIsSound(Idle)
    BY <2>1 DEF RequestIsSound, Idle, Referring
  <2> HIDE DEF Idle
  <2>3. \A q \in Request : req[q].gone = {}
    BY <1>1 DEF Idle
  <2> QED
    BY <1>1, <2>1, <2>2, <2>3 DEF RequestsAreSound
<1>4. FilesAreSound
  BY <1>1 DEF FilesAreSound, FilesFollowRows, Idle
<1> QED
  BY <1>2, <1>3, <1>4, Parts

LEMMA NextInv == Inv /\ [Next]_vars => Inv'
<1> SUFFICES ASSUME Inv, [Next]_vars PROVE Inv'
  OBVIOUS
<1>1. ASSUME NEW q \in Request, NEW kind \in {"destroy", "batch"}, NEW t \in Askable,
             NEW rows \in Asked(t), Ask(q, rows, kind)
      PROVE  Inv'
  BY <1>1, AskStep
<1>2. ASSUME NEW q \in Request, Work(q)
      PROVE  Inv'
  BY <1>2, RefuseStep, CollectStep, DeleteStep, FinishStep DEF Work
<1>3. ASSUME NEW q \in Request, StatementFails(q)
      PROVE  Inv'
  BY <1>3, StatementFailsStep
<1>4. ASSUME NEW r \in Late, Insert(r)
      PROVE  Inv'
  BY <1>4, InsertStep
<1>5. CASE UNCHANGED vars
  BY <1>5 DEF vars, Inv, DeletionInv, TypeOK, RequestState, NoDanglingReference, Targets,
              ReferencesStay, TransactionsAreApart, Referring, InstancesHaveTheFiles,
              PlatformsGoFirst, Home, HomeIn, FilesFollowRows, Exists
<1> QED
  BY <1>1, <1>2, <1>3, <1>4, <1>5 DEF Next

-----------------------------------------------------------------------------
LEMMA InvAlways == Spec => []Inv
BY InitInv, NextInv, PTL DEF Spec

(* No reference dangles, whatever requests delete and others insert: the   *)
(* collections of Django and the foreign keys of the database together.    *)
THEOREM Invariance == Spec => []DeletionInv
<1>1. Inv => DeletionInv
  BY DEF Inv
<1> QED
  BY <1>1, InvAlways, PTL

(* AutoCleanFileMixin.delete: a file goes with its row, and a row keeps    *)
(* its file unless its deletion is under way or was rolled back.           *)
THEOREM FilesAndRows == Spec => []FilesFollowRows
<1>1. Inv => FilesFollowRows
  BY DEF Inv
<1> QED
  BY <1>1, InvAlways, PTL

(* The steps that write the database: a commit and an insertion.           *)
LEMMA Writes ==
  ASSUME Inv, [Next]_vars, refs' # refs
  PROVE  \/ \E q \in Request : refs' = Without(req[q].gone) /\ UNCHANGED unborn
         \/ \E r \in Late : Insert(r)
<1>1. (\E q \in Request : Finish(q)) \/ (\E r \in Late : Insert(r))
  <2>1. \A q, rows, kind : Ask(q, rows, kind) => UNCHANGED refs
    BY DEF Ask
  <2>2. \A q, r : Refuse(q, r) \/ Collect(q, r) => UNCHANGED refs
    BY DEF Refuse, Collect
  <2>3. \A q : Delete(q) \/ StatementFails(q) => UNCHANGED refs
    BY DEF Delete, StatementFails
  <2> QED
    BY <2>1, <2>2, <2>3 DEF Next, Work, vars
<1> QED
  BY <1>1 DEF Finish

(* The inventory of a platform goes with the platform, all of it, through  *)
(* all levels, and for no other reason (Collector over the on_delete of    *)
(* virt_center's models, the foreign keys of its migration).               *)
THEOREM WholePlatforms == Spec => PlatformsAreWholes
<1>1. ASSUME Inv, Inv', [Next]_vars, refs' # refs,
             NEW r \in Exists, TableOf[r] \in Inventory
      PROVE  r \notin Exists' <=> Home(r) \cap Exists' = {}
  <2>0. DatabaseIsSound /\ RequestsAreSound /\ DatabaseIsSound'
    BY <1>1, Parts, PTL
  <2>1. ASSUME r \in Exists' PROVE Home(r) \cap Exists' # {}
    BY <1>1, <2>0, <2>1, HomesKept
  <2>2. ASSUME r \notin Exists' PROVE Home(r) \cap Exists' = {}
    <3>1. CASE \E q \in Request : refs' = Without(req[q].gone) /\ UNCHANGED unborn
      <4>1. PICK q \in Request : refs' = Without(req[q].gone)
        BY <3>1
      <4>2. PICK S : S = req[q] /\ RequestIsSound(S)
        BY <2>0 DEF RequestsAreSound
      <4>3. Exists' = Exists \ S.gone
        BY <4>1, <4>2 DEF Without, Exists
      <4>4. Home(r) \subseteq S.gone
        BY <1>1, <2>2, <4>2, <4>3 DEF RequestIsSound
      <4> QED
        BY <4>3, <4>4
    <3>2. CASE \E x \in Late : Insert(x)
      BY <1>1, <2>2, <3>2 DEF Insert, Exists
    <3> QED
      BY <1>1, <3>1, <3>2, Writes
  <2> QED
    BY <2>1, <2>2
<1>2. Inv /\ Inv' /\ [Next]_vars =>
        [\A r \in Exists : TableOf[r] \in Inventory =>
           (r \notin Exists' <=> Home(r) \cap Exists' = {})]_refs
  BY <1>1
<1> QED
  BY <1>2, InvAlways, PTL DEF Spec, PlatformsAreWholes

(* UserInfo.dept and DeptInfo.parent (on_delete=PROTECT): nobody loses his *)
(* department by a deletion, and no department its place in the tree.      *)
THEOREM MembersStay == Spec => MembersKeepTheirDepartment
<1>1. ASSUME Inv, [Next]_vars, refs' # refs, NEW r \in Exists \cap Exists', NEW f \in Field[r],
             Rule[r][f] = "PROTECT"
      PROVE  refs'[r][f] = refs[r][f]
  <2>1. CASE \E q \in Request : refs' = Without(req[q].gone) /\ UNCHANGED unborn
    BY <1>1, <2>1 DEF Without, Exists
  <2>2. CASE \E x \in Late : Insert(x)
    <3>1. PICK x \in Late : Insert(x)
      BY <2>2
    <3>2. x # r
      BY <1>1, <3>1, Parts DEF Insert, DatabaseIsSound
    <3> QED
      BY <1>1, <3>1, <3>2 DEF Insert, Exists
  <2> QED
    BY <1>1, <2>1, <2>2, Writes
<1>2. ASSUME Inv, [Next]_vars, refs' # refs, NEW r \in Exists \cap Exists'
      PROVE  /\ TableOf[r] = "UserInfo" => refs'[r]["dept"] = refs[r]["dept"]
             /\ TableOf[r] = "DeptInfo" => refs'[r]["parent"] = refs[r]["parent"]
  <2>1. r \in Row
    BY <1>2, Parts DEF DatabaseIsSound
  <2> QED
    BY <1>1, <1>2, <2>1, SchemaAssumption DEF Rule
<1>3. Inv /\ [Next]_vars =>
        [\A r \in Exists \cap Exists' :
           /\ TableOf[r] = "UserInfo" => refs'[r]["dept"] = refs[r]["dept"]
           /\ TableOf[r] = "DeptInfo" => refs'[r]["parent"] = refs[r]["parent"]]_refs
  BY <1>2
<1> QED
  BY <1>3, InvAlways, PTL DEF Spec, MembersKeepTheirDepartment

=============================================================================
