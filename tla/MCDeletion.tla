----------------------------- MODULE MCDeletion -----------------------------
(* Deletion over the tables of Schema: one row of every table, two of those *)
(* that form trees or whose rows must be told apart.                        *)
EXTENDS Deletion, Schema

Twice ==
  {"Platform", "Host", "VirtualMachine", "VMSnapshot", "DeptInfo", "UserInfo", "Menu",
   "MenuMeta"}

MCTable == DOMAIN AllColumns

(* A user, a machine and a disk arrive while requests delete. *)
MCLate == {<<"UserInfo", 3>>, <<"VirtualMachine", 2>>, <<"VMDisk", 2>>}

MCRow == (MCTable \X {1}) \cup (Twice \X {2}) \cup MCLate

MCTableOf == [r \in MCRow |-> r[1]]

(* User 2 of department 2 made everything.  Row 2 of a table refers to     *)
(* rows 2; row 2 of a tree hangs below row 1; a snapshot below another one *)
(* is of the same machine.                                                 *)
MCFirst ==
  [r \in MCRow |->
     [f \in DOMAIN AllColumns[r[1]] |->
        LET t == AllColumns[r[1]][f]
        IN  CASE f = "parent" -> IF r[2] = 1 \/ t \notin Twice THEN {} ELSE {<<t, 1>>}
              [] t = "UserInfo" -> {<<t, IF r[1] = t THEN 1 ELSE 2>>}
              [] f = "dept_belong" -> {<<t, IF r[1] = t THEN 1 ELSE 2>>}
              [] r = <<"VMSnapshot", 2>> /\ f = "vm" -> {<<t, 1>>}
              [] OTHER -> {<<t, IF t \in Twice /\ r[2] # 1 THEN 2 ELSE 1>>}]]

(* The tables of Destroyable to whose rows others refer. *)
MCAskable ==
  {t \in Destroyable : \E u \in MCTable : \E f \in DOMAIN AllColumns[u] : AllColumns[u][f] = t}

Symmetry == Permutations(Request)

MCSuperuser == {<<"UserInfo", 1>>}
=============================================================================
