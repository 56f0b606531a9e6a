------------------------------- MODULE SignIn -------------------------------
(***************************************************************************)
(* Signing in: password logins, verification codes, and the requests that  *)
(* a code opens (login, password reset, binding a contact, registration).  *)
(* A request is one transaction of the database; temporary tokens, codes,  *)
(* failure counters and blocks live in Redis and follow no transaction.    *)
(* Each step below is one command to Redis or one statement, except that   *)
(* commands in a row that no other request can tell apart are one step.    *)
(***************************************************************************)
EXTENDS FiniteSets, Naturals, FiniteSetsExt

CONSTANTS
  Request,      \* requests; each runs once
  Mixes,        \* bound: what the requests of a behaviour ask (kind), what
                \* admits them (pass: their own token and captcha, or the
                \* shared token, or the shared captcha), whence they come (addr),
                \* and which users have passwords tried (user)
  Address,      \* addresses they come from, on no black or white list
  Account,      \* possible rows of the user table; also their user names
  Old,          \* accounts that exist from the start
  Contact,      \* phone numbers and mail addresses
  None,         \* no row, no contact, nothing
  Limit,        \* SECURITY_LOGIN_LIMIT_COUNT
  MaxCodes,     \* bound: codes sent
  MaxLapses     \* bound: what runs out or is deleted by administrators

Name == Account \cup Contact
Kind == {"password", "send", "login", "reset", "bind", "register"}
Pass == {"own", "token", "captcha"}

ASSUME SignInAssumption ==
  /\ Limit \in Nat \ {0} /\ MaxCodes \in Nat /\ MaxLapses \in Nat
  /\ Old \subseteq Account
  /\ IsFiniteSet(Request) /\ IsFiniteSet(Account) /\ None \notin Name \cup Request
  /\ Mixes \subseteq [kind : SUBSET Kind, pass : SUBSET Pass, addr : SUBSET Address,
                    user : SUBSET Name]

VARIABLES
  mix,          \* the member of Mixes
  name, contact,  \* committed columns of the user table
  token, captcha, \* the shared temporary token and captcha: "none", "out", "gone"
  code, rate,     \* code[c]: code out for c, 0 for none; rate[c]: just sent
  sent,           \* number of codes sent
  count, block,   \* failures by key and address, blocks by key
  addrBlock,      \* blocks by address; their counters are left open
  lock,           \* _LOCKER_REGISTER_USER
  call, pc,       \* what a request asks and where it is
  seen,           \* counter it has read
  rows,           \* accounts it has written, uncommitted
  got,            \* history: the pass it was admitted with
  fail,           \* history: no failure, a failure that counts, a forgiven one
  lapses,
  mixed, shared, crossed  \* history: keys, passes, contacts of overlapping requests

redis == <<token, code, rate, sent, count, block, addrBlock, lock>>
table == <<name, contact, captcha>>
past == <<got, fail, mixed, shared, crossed, lapses>>
vars == <<mix, redis, table, call, pc, seen, rows, past>>

CodeKind == {"login", "reset", "bind", "register"}

(* The limit and block keys of a kind of request. *)
Class(kind) ==
  CASE kind \in {"password", "login"} -> "login"
    [] kind \in {"reset", "bind"} -> "reset"
    [] OTHER -> kind

Key == ({"login"} \X Name) \cup ({"reset", "register", "send"} \X Contact)
KeyOf(r) == <<Class(call[r].kind), call[r].target>>

(* What admits one request. *)
Token == <<"token", 0>>
Captcha == <<"captcha", 0>>
CodePass(n) == <<"code", n>>
Passes == {Token, Captcha} \cup {CodePass(n) : n \in 0 .. MaxCodes}

ASSUME NoneAssumption == None \notin Passes

Calls ==
  [kind : {"password"}, target : Name, addr : Address,
   pass : Pass, code : {0}, user : {None}]
  \cup
  [kind : {"send"}, target : Contact, addr : Address,
   pass : Pass, code : {0}, user : {None}]
  \cup
  [kind : CodeKind \ {"bind"}, target : Contact, addr : Address,
   pass : {"code"}, code : 0 .. MaxCodes, user : {None}]
  \cup
  [kind : {"bind"}, target : Contact, addr : Address,
   pass : {"code"}, code : 0 .. MaxCodes, user : Account]

Holders(c) == {a \in Account : name[a] # None /\ contact[a] = c}
Active(r) == pc[r] \notin {"idle", "done"}

Init ==
  /\ name = [a \in Account |-> IF a \in Old THEN a ELSE None]
  /\ contact \in [Account -> Contact \cup {None}]
  /\ \A a \in Account \ Old : contact[a] = None
  /\ \A c \in Contact : Cardinality(Holders(c)) <= 1
  /\ mix \in Mixes
  /\ token = "none" /\ captcha = "none"
  /\ \E out \in Contact \cup {None} :
       /\ code = [c \in Contact |-> IF c = out THEN 1 ELSE 0]
       /\ rate = [c \in Contact |-> c = out]
       /\ sent = IF out = None THEN 0 ELSE 1
  /\ count = [k \in Key |-> [x \in Address |-> 0]]
  /\ block = [k \in Key |-> FALSE]
  /\ addrBlock = [x \in Address |-> FALSE]
  /\ lapses = 0
  /\ lock = None
  /\ call = [r \in Request |-> None] /\ pc = [r \in Request |-> "idle"]
  /\ seen = [r \in Request |-> 0] /\ rows = [r \in Request |-> {}]
  /\ got = [r \in Request |-> None] /\ fail = [r \in Request |-> "none"]
  /\ mixed = {} /\ shared = {} /\ crossed = {}

-----------------------------------------------------------------------------
(* Pieces of the steps *)

Goto(r, p) == pc' = [pc EXCEPT ![r] = p]
Locks(r, as) == rows' = [rows EXCEPT ![r] = as]
At(r, p) == pc[r] = p

(* The history notes two requests, or a request and something else, that   *)
(* work on the counters of a key at once.                                  *)
Disturbs(k, r) == IF \E q \in Request \ {r} : Active(q) /\ KeyOf(q) = k
                  THEN mixed \cup {k} ELSE mixed

(* Failures of key k from the addresses in as are forgotten. *)
Forgive(k, as) ==
  /\ count' = [count EXCEPT ![k] = [x \in Address |-> IF x \in as THEN 0 ELSE @[x]]]
  /\ fail' = [q \in Request |->
       IF fail[q] = "counts" /\ KeyOf(q) = k /\ call[q].addr \in as
       THEN "forgiven" ELSE fail[q]]

(* The transaction ends; its captcha is used up only if it commits. *)
Commit(r) ==
  /\ Goto(r, "done")
  /\ Locks(r, {})
  /\ IF call[r].pass = "captcha"
     THEN captcha' = "gone" /\ got' = [got EXCEPT ![r] = Captcha]
     ELSE UNCHANGED <<captcha, got>>

Rollback(r) ==
  /\ Goto(r, "done")
  /\ Locks(r, {})
  /\ UNCHANGED <<table, got>>

-----------------------------------------------------------------------------
(* Admission *)

(* make_token_cache always makes a new token; that it writes three keys    *)
(* nobody can tell, as nobody has the token yet.                           *)
MakeToken ==
  /\ "token" \in mix.pass
  /\ token = "none" /\ token' = "out"
  /\ UNCHANGED <<code, rate, sent, count, block, addrBlock, lock, table,
                 call, pc, seen, rows, past>>

(* CaptchaAuth.generate; a captcha of the pool may be given to several.     *)
MakeCaptcha ==
  /\ "captcha" \in mix.pass
  /\ captcha = "none" /\ captcha' = "out"
  /\ UNCHANGED <<redis, name, contact, call, pc, seen, rows, past>>

Begin(r) ==
  /\ At(r, "idle")
  /\ \E m \in Calls :
       /\ m.kind \in mix.kind /\ m.addr \in mix.addr
       /\ m.kind = "password" => m.target \in mix.user
       /\ m.pass \in mix.pass \cup {"code"}
       /\ m.pass = "token" => token # "none"
       /\ m.pass = "captcha" => captcha # "none"
       /\ m.code <= sent
       /\ m.user # None => name[m.user] # None
       /\ call' = [call EXCEPT ![r] = m]
       /\ Goto(r, IF m.pass \in {"token", "captcha"} THEN m.pass ELSE "gate")
       /\ LET k == <<Class(m.kind), m.target>>
          IN mixed' = Disturbs(k, r)
  /\ UNCHANGED <<redis, table, seen, rows, got, fail, shared, crossed, lapses>>

(* verify_token_cache reads the token ... *)
ReadToken(r) ==
  /\ At(r, "token")
  /\ IF token = "out"
     THEN /\ Goto(r, "take_token")
          /\ shared' = IF \E q \in Request \ {r} : At(q, "take_token")
                       THEN shared \cup {Token} ELSE shared
     ELSE Goto(r, "done") /\ UNCHANGED shared
  /\ UNCHANGED <<redis, table, call, seen, rows, got, fail, mixed, crossed, lapses>>

(* Mutant: the token is not deleted. *)
TakeTokenKeeps(r) ==
  /\ At(r, "take_token")
  /\ got' = [got EXCEPT ![r] = Token]
  /\ Goto(r, "gate")
  /\ UNCHANGED <<redis, table, call, seen, rows, fail, mixed, shared, crossed, lapses>>

(* ... and deletes it: a token is good for one request. *)
TakeToken(r) ==
  /\ At(r, "take_token")
  /\ token' = "gone"
  /\ got' = [got EXCEPT ![r] = Token]
  /\ Goto(r, "gate")
  /\ UNCHANGED <<code, rate, sent, count, block, addrBlock, lock, table,
                 call, seen, rows, fail, mixed, shared, crossed, lapses>>

(* CaptchaAuth.valid reads the row of the captcha ... *)
ReadCaptcha(r) ==
  /\ At(r, "captcha")
  /\ IF captcha = "out"
     THEN /\ Goto(r, "take_captcha")
          /\ shared' = IF \E q \in Request \ {r} :
                            Active(q) /\ call[q].pass = "captcha" /\ ~At(q, "captcha")
                       THEN shared \cup {Captcha} ELSE shared
     ELSE Goto(r, "done") /\ UNCHANGED shared
  /\ UNCHANGED <<redis, table, call, seen, rows, got, fail, mixed, crossed, lapses>>

(* ... and deletes it in the transaction; it waits for another deletion.   *)
TakeCaptcha(r) ==
  /\ At(r, "take_captcha")
  /\ \A q \in Request \ {r} : "captcha" \notin rows[q]
  /\ Locks(r, {"captcha"})
  /\ Goto(r, "gate")
  /\ UNCHANGED <<redis, table, call, seen, past>>

(* Mutant: only the block of the address is looked at. *)
GateIgnoresUser(r) ==
  /\ pc[r] \in {"gate", "gate_again"}
  /\ Goto(r, CASE addrBlock[call[r].addr] -> "ip"
               [] At(r, "gate_again") -> "welcome"
               [] call[r].kind = "password" -> "password"
               [] call[r].kind = "send" -> "count"
               [] OTHER -> "verify")
  /\ UNCHANGED <<redis, table, call, seen, rows, past>>

(* check_is_block: a blocked address is counted once more, a blocked user  *)
(* is not.  A login by code passes here twice.                             *)
Gate(r) ==
  /\ pc[r] \in {"gate", "gate_again"}
  /\ CASE addrBlock[call[r].addr] -> Goto(r, "ip") /\ UNCHANGED rows
       [] ~addrBlock[call[r].addr] /\ block[KeyOf(r)] -> Goto(r, "done") /\ Locks(r, {})
       [] OTHER -> /\ Goto(r, IF At(r, "gate_again") THEN "welcome"
                              ELSE CASE call[r].kind = "password" -> "password"
                                     [] call[r].kind = "send" -> "count"
                                     [] OTHER -> "verify")
                   /\ UNCHANGED rows
  /\ UNCHANGED <<redis, table, call, seen, past>>

-----------------------------------------------------------------------------
(* Failures *)

(* incr_failed_count reads the counter of the target and the address ... *)
ReadCount(r) ==
  /\ At(r, "count")
  /\ seen' = [seen EXCEPT ![r] = count[KeyOf(r)][call[r].addr]]
  /\ Goto(r, "counted")
  /\ UNCHANGED <<redis, table, call, rows, past>>

(* Mutant: one counter for all addresses. *)
WriteCountOfAll(r) ==
  /\ At(r, "counted")
  /\ count' = [count EXCEPT ![KeyOf(r)] = [x \in Address |-> seen[r] + 1]]
  /\ block' = [block EXCEPT ![KeyOf(r)] = @ \/ seen[r] + 1 >= Limit]
  /\ fail' = [fail EXCEPT ![r] = "counts"]
  /\ seen' = [seen EXCEPT ![r] = 0]
  /\ Goto(r, IF call[r].kind = "send" THEN "account" ELSE "ip")
  /\ UNCHANGED <<token, code, rate, sent, addrBlock, lock, table, call,
                 rows, got, mixed, shared, crossed, lapses>>

(* ... and writes it back, and blocks the target at the limit.             *)
WriteCount(r) ==
  /\ At(r, "counted")
  /\ count' = [count EXCEPT ![KeyOf(r)][call[r].addr] = seen[r] + 1]
  /\ block' = [block EXCEPT ![KeyOf(r)] = @ \/ seen[r] + 1 >= Limit]
  /\ fail' = [fail EXCEPT ![r] = "counts"]
  /\ seen' = [seen EXCEPT ![r] = 0]
  /\ Goto(r, IF call[r].kind = "send" THEN "account" ELSE "ip")
  /\ UNCHANGED <<token, code, rate, sent, addrBlock, lock, table, call,
                 rows, got, mixed, shared, crossed, lapses>>

(* LoginIpBlockUtil.set_block_if_need: after some number of these, which   *)
(* is left open, the address is blocked.  The refusal is an APIException,  *)
(* which rolls back; only a send that was counted answers without one.     *)
CountAddress(r) ==
  /\ At(r, "ip")
  /\ \/ UNCHANGED addrBlock
     \/ addrBlock' = [addrBlock EXCEPT ![call[r].addr] = TRUE]
  /\ IF call[r].kind = "send" /\ fail[r] # "none"
     THEN Commit(r) /\ UNCHANGED <<name, contact>>
     ELSE Rollback(r)
  /\ UNCHANGED <<token, code, rate, sent, count, block, lock, call, seen,
                 fail, mixed, shared, crossed, lapses>>

-----------------------------------------------------------------------------
(* Password login *)

(* The serializer authenticates: a wrong password goes to login_failed.    *)
Password(r) ==
  /\ At(r, "password")
  /\ \/ Goto(r, "count")
     \/ /\ \E a \in Account : name[a] = call[r].target
        /\ Goto(r, "welcome")
  /\ UNCHANGED <<redis, table, call, seen, rows, past>>

(* login_success forgets the failures of the user at this address, and the *)
(* blocks of the user and of the address.  A login by code first looks up  *)
(* the one account of the contact and fails if there is not one.           *)
Users(r) == IF call[r].kind = "password" THEN {call[r].target}
            ELSE {name[a] : a \in Holders(call[r].target)}

Welcome(r) ==
  /\ At(r, "welcome")
  /\ Cardinality(Users(r)) = 1
  /\ \E u \in Users(r) :
       LET k == <<"login", u>>
       IN /\ Forgive(k, {call[r].addr})
          /\ block' = [block EXCEPT ![k] = FALSE]
          /\ mixed' = Disturbs(k, r)
  /\ addrBlock' = [addrBlock EXCEPT ![call[r].addr] = FALSE]
  /\ Commit(r)
  /\ UNCHANGED <<name, contact, token, code, rate, sent, lock, call, seen,
                 shared, crossed, lapses>>

NobodyToWelcome(r) ==
  /\ pc[r] \in {"welcome", "reset"}
  /\ Cardinality(Users(r)) # 1
  /\ Rollback(r)
  /\ UNCHANGED <<redis, call, seen, fail, mixed, shared, crossed, lapses>>

-----------------------------------------------------------------------------
(* Sending a code *)

(* check_<category>_config: to register, nobody may have the contact; to   *)
(* log in or reset a password somebody must; to bind either will do.  Then *)
(* gen_and_send_async refuses while the last code is recent.               *)
CheckSend(r) ==
  /\ At(r, "account")
  /\ \/ Goto(r, "ip") /\ UNCHANGED <<rows, table, got>>
     \/ /\ ~rate[call[r].target]
        /\ Goto(r, "send")
        /\ UNCHANGED <<rows, table, got>>
     \/ rate[call[r].target] /\ Rollback(r)
  /\ UNCHANGED <<redis, call, seen, fail, mixed, shared, crossed, lapses>>

(* A new code takes the place of the last one. *)
SendCode(r) ==
  /\ At(r, "send")
  /\ sent < MaxCodes
  /\ sent' = sent + 1
  /\ code' = [code EXCEPT ![call[r].target] = sent + 1]
  /\ rate' = [rate EXCEPT ![call[r].target] = TRUE]
  /\ Commit(r)
  /\ UNCHANGED <<name, contact, token, count, block, addrBlock, lock,
                 call, seen, fail, mixed, shared, crossed, lapses>>

-----------------------------------------------------------------------------
(* Using a code *)

(* A verify_token that is not known counts for the address alone. *)
UnknownToken(r) ==
  /\ At(r, "gate")
  /\ call[r].kind \in CodeKind
  /\ Goto(r, "ip")
  /\ UNCHANGED <<redis, table, call, seen, rows, past>>

(* SendAndVerifyCodeUtil.verify reads the code of the contact ...          *)
ReadCode(r) ==
  /\ At(r, "verify")
  /\ LET c == call[r].code
     IN IF c # 0 /\ code[call[r].target] = c
        THEN /\ Goto(r, "clear")
             /\ shared' = IF \E q \in Request \ {r} : At(q, "clear") /\ call[q].code = c
                          THEN shared \cup {CodePass(c)} ELSE shared
        ELSE Goto(r, "count") /\ UNCHANGED shared
  /\ UNCHANGED <<redis, table, call, seen, rows, got, fail, mixed, crossed, lapses>>

(* ... and deletes whatever code the contact has now. *)
ClearCode(r) ==
  /\ At(r, "clear")
  /\ code' = [code EXCEPT ![call[r].target] = 0]
  /\ rate' = [rate EXCEPT ![call[r].target] = FALSE]
  /\ got' = [got EXCEPT ![r] = CodePass(call[r].code)]
  /\ \/ call[r].kind = "login" /\ Goto(r, "gate_again")
     \/ call[r].kind \in {"reset", "bind"} /\ Goto(r, call[r].kind)
     \/ call[r].kind = "register" /\ pc' \in {[pc EXCEPT ![r] = "register"],
                                              [pc EXCEPT ![r] = "done"]}
  /\ UNCHANGED <<token, sent, count, block, addrBlock, lock, table, call,
                 seen, rows, fail, mixed, shared, crossed, lapses>>

(* The new password of the one account of the contact. *)
Reset(r) ==
  /\ At(r, "reset")
  /\ Cardinality(Users(r)) = 1
  /\ Commit(r)
  /\ UNCHANGED <<redis, name, contact, call, seen, fail, mixed, shared, crossed, lapses>>

(* Requests between the read of a contact's account and their commit. *)
Looked(c) == {q \in Request : /\ pc[q] \in {"bind_now", "bound", "insert", "registered"}
                              /\ call[q].target = c}
Crosses(r) == LET c == call[r].target
              IN IF \E q \in Looked(c) \ {r} : "bind" \in {call[q].kind, call[r].kind}
                 THEN crossed \cup {c} ELSE crossed

(* A bind looks for an account that has the contact, *)
ReadHolder(r) ==
  /\ At(r, "bind")
  /\ LET hs == Holders(call[r].target)
     IN \/ hs = {} /\ Locks(r, {})
        \/ \E h \in hs : Locks(r, {h})
  /\ crossed' = Crosses(r)
  /\ Goto(r, "bind_now")
  /\ UNCHANGED <<redis, table, call, seen, got, fail, mixed, shared, lapses>>

(* takes it from that account and gives it to the user, waiting for others *)
(* that have written these rows,                                           *)
Bind(r) ==
  /\ At(r, "bind_now")
  /\ \A q \in Request \ {r} :
       At(q, "bound") => rows[q] \cap (rows[r] \cup {call[r].user}) = {}
  /\ Locks(r, rows[r] \cup {call[r].user})
  /\ Goto(r, "bound")
  /\ UNCHANGED <<redis, table, call, seen, past>>

(* Mutant: the account that had the contact keeps it. *)
CommitBindKeeps(r) ==
  /\ At(r, "bound")
  /\ contact' = [contact EXCEPT ![call[r].user] = call[r].target]
  /\ Commit(r)
  /\ UNCHANGED <<redis, name, call, seen, fail, mixed, shared, crossed, lapses>>

(* and commits. *)
CommitBind(r) ==
  /\ At(r, "bound")
  /\ contact' = [a \in Account |->
       IF a = call[r].user THEN call[r].target
       ELSE IF a \in rows[r] THEN None ELSE contact[a]]
  /\ Commit(r)
  /\ UNCHANGED <<redis, name, call, seen, fail, mixed, shared, crossed, lapses>>

(* A registration takes the lock, *)
Lock(r) ==
  /\ At(r, "register")
  /\ lock = None
  /\ lock' = r
  /\ Goto(r, "exists")
  /\ UNCHANGED <<token, code, rate, sent, count, block, addrBlock,
                 table, call, seen, rows, past>>

(* refuses a contact that an account has, *)
Exists(r) ==
  /\ At(r, "exists")
  /\ IF Holders(call[r].target) # {}
     THEN Goto(r, "done") /\ lock' = None /\ UNCHANGED crossed
     ELSE Goto(r, "insert") /\ crossed' = Crosses(r) /\ UNCHANGED lock
  /\ UNCHANGED <<token, code, rate, sent, count, block, addrBlock,
                 table, call, seen, rows, got, fail, mixed, shared, lapses>>

(* and inserts an account with the contact as its name, which is unique:   *)
(* it waits for another insertion of the name and fails after its commit.  *)
(* The lock is released here, before the commit.                           *)
NameTaken(c) == \E a \in Account : name[a] = c

Insert(r) ==
  /\ At(r, "insert")
  /\ \A q \in Request \ {r} : At(q, "registered") => call[q].target # call[r].target
  /\ lock' = None
  /\ IF NameTaken(call[r].target)
     THEN Rollback(r)
     ELSE /\ \E a \in Account :
               /\ name[a] = None
               /\ \A q \in Request : a \notin rows[q]
               /\ Locks(r, {a})
          /\ Goto(r, "registered")
          /\ UNCHANGED <<table, got>>
  /\ UNCHANGED <<token, code, rate, sent, count, block, addrBlock,
                 call, seen, fail, mixed, shared, crossed, lapses>>

CommitRegister(r) ==
  /\ At(r, "registered")
  /\ name' = [a \in Account |-> IF a \in rows[r] THEN call[r].target ELSE name[a]]
  /\ contact' = [a \in Account |-> IF a \in rows[r] THEN call[r].target ELSE contact[a]]
  /\ Commit(r)
  /\ UNCHANGED <<redis, call, seen, fail, mixed, shared, crossed, lapses>>

-----------------------------------------------------------------------------
(* Time and administrators *)

(* A counter runs out with the time it was last written; a block is set    *)
(* after the counter of the same failure and runs out after it.            *)
ExpireCount(k, x) ==
  /\ count[k][x] > 0
  /\ Forgive(k, {x})
  /\ mixed' = Disturbs(k, None)
  /\ UNCHANGED <<token, code, rate, sent, block, addrBlock, lock, table,
                 call, pc, seen, rows, got, shared, crossed>>

ExpireBlock(k) ==
  /\ block[k]
  /\ \A x \in Address : count[k][x] < Limit
  /\ block' = [block EXCEPT ![k] = FALSE]
  /\ UNCHANGED <<token, code, rate, sent, count, addrBlock, lock, table,
                 call, pc, seen, rows, got, fail, mixed, shared, crossed>>

(* The block of an address runs out, or an administrator lifts it.          *)
FreeAddress(x) ==
  /\ addrBlock[x]
  /\ addrBlock' = [addrBlock EXCEPT ![x] = FALSE]
  /\ UNCHANGED <<token, code, rate, sent, count, block, lock, table,
                 call, pc, seen, rows, got, fail, mixed, shared, crossed>>

ExpireRate(c) ==
  /\ rate[c]
  /\ rate' = [rate EXCEPT ![c] = FALSE]
  /\ UNCHANGED <<token, code, sent, count, block, addrBlock, lock, table,
                 call, pc, seen, rows, got, fail, mixed, shared, crossed>>

ExpireCode(c) ==
  /\ code[c] # 0
  /\ code' = [code EXCEPT ![c] = 0]
  /\ UNCHANGED <<token, rate, sent, count, block, addrBlock, lock, table,
                 call, pc, seen, rows, got, fail, mixed, shared, crossed>>

ExpireToken ==
  /\ token = "out" /\ token' = "gone"
  /\ UNCHANGED <<code, rate, sent, count, block, addrBlock, lock, table,
                 call, pc, seen, rows, got, fail, mixed, shared, crossed>>

(* The captcha runs out, and a task deletes its row sooner or later.        *)
ExpireCaptcha ==
  /\ captcha = "out" /\ captcha' = "gone"
  /\ UNCHANGED <<redis, name, contact, call, pc, seen, rows, got, fail,
                 mixed, shared, crossed>>

(* An administrator unblocks the user of an account: its counters at all   *)
(* addresses and its block are deleted.                                    *)
Unblock(a) ==
  LET k == <<"login", name[a]>>
  IN /\ name[a] # None
     /\ block[k]
     /\ Forgive(k, Address)
     /\ block' = [block EXCEPT ![k] = FALSE]
     /\ mixed' = Disturbs(k, None)
     /\ UNCHANGED <<token, code, rate, sent, addrBlock, lock, table,
                    call, pc, seen, rows, got, shared, crossed>>

-----------------------------------------------------------------------------
Step(r) ==
  \/ Begin(r) \/ ReadToken(r) \/ TakeToken(r) \/ ReadCaptcha(r) \/ TakeCaptcha(r)
  \/ Gate(r) \/ ReadCount(r) \/ WriteCount(r) \/ CountAddress(r)
  \/ Password(r) \/ Welcome(r) \/ NobodyToWelcome(r)
  \/ CheckSend(r) \/ SendCode(r)
  \/ UnknownToken(r) \/ ReadCode(r) \/ ClearCode(r) \/ Reset(r)
  \/ ReadHolder(r) \/ Bind(r) \/ CommitBind(r)
  \/ Lock(r) \/ Exists(r) \/ Insert(r) \/ CommitRegister(r)

Lapse ==
  /\ lapses < MaxLapses
  /\ lapses' = lapses + 1
  /\ \/ \E k \in Key : ExpireBlock(k) \/ \E x \in Address : ExpireCount(k, x)
     \/ \E x \in Address : FreeAddress(x)
     \/ \E c \in Contact : ExpireRate(c) \/ ExpireCode(c)
     \/ \E a \in Account : Unblock(a)
     \/ ExpireToken \/ ExpireCaptcha

Next == UNCHANGED mix /\ (Lapse \/ MakeToken \/ MakeCaptcha \/ \E r \in Request : Step(r))

Spec == Init /\ [][Next]_vars

-----------------------------------------------------------------------------
Failed(k, x, how) == {r \in Request : /\ fail[r] \in how
                                      /\ KeyOf(r) = k /\ call[r].addr = x}

(* Nobody is blocked for failures that did not happen: some address really *)
(* failed Limit times for the key, however the counters interleaved        *)
(* (BlockUtilBase.incr_failed_count).                                      *)
BlocksAreEarned ==
  \A k \in Key : block[k] =>
    \E x \in Address : Cardinality(Failed(k, x, {"counts", "forgiven"})) >= Limit

(* A code login of the user went ahead, which lifts the block alone. *)
LiftedByCode(k) ==
  \E r \in Request : At(r, "done") /\ call[r].kind = "login" /\ got[r] # None /\ k[1] = "login"

(* As long as no two requests worked on a key at once, its counters are    *)
(* exact, and Limit failures at an address keep the key blocked.  Only a   *)
(* login by code, which no password block holds up, lifts a block and      *)
(* leaves the counters of other addresses (login_success, check_is_block). *)
LoneFailuresAreCounted ==
  \A k \in Key \ mixed : \A x \in Address :
    LET n == Cardinality(Failed(k, x, {"counts"}))
    IN /\ count[k][x] = n
       /\ n >= Limit => block[k] \/ LiftedByCode(k)

(* A temporary token, a captcha or a code lets one request pass, unless    *)
(* two had read it before either deleted it (verify_token_cache, valid,    *)
(* verify).                                                                *)
PassesServeOnce ==
  \A p \in {Token, Captcha} \cup {CodePass(n) : n \in 1 .. MaxCodes} :
    Cardinality({r \in Request : got[r] = p}) <= 1 \/ p \in shared

(* Two accounts have the same contact only if a bind overlapped another    *)
(* request for it: registrations may overlap as they like, although the    *)
(* lock of the registration is released before its commit.                 *)
ContactsStayDistinct ==
  \A c \in Contact : Cardinality(Holders(c)) <= 1 \/ c \in crossed

-----------------------------------------------------------------------------
(* The inductive invariant: where a request can be, and the four           *)
(* properties with what they rest on.                                      *)

Place == {"idle", "token", "take_token", "captcha", "take_captcha", "gate", "gate_again",
          "count", "counted", "ip", "password", "welcome", "account", "send", "verify",
          "clear", "reset", "bind", "bind_now", "bound", "register", "exists", "insert",
          "registered", "done"}

TypeOK ==
  /\ name \in [Account -> Name \cup {None}]
  /\ contact \in [Account -> Contact \cup {None}]
  /\ code \in [Contact -> Nat] /\ sent \in Nat
  /\ count \in [Key -> [Address -> Nat]]
  /\ block \in [Key -> BOOLEAN]
  /\ pc \in [Request -> Place]
  /\ call \in [Request -> Calls \cup {None}]
  /\ seen \in [Request -> Nat]
  /\ rows \in [Request -> SUBSET (Account \cup {"captcha"})]
  /\ got \in [Request -> Passes \cup {None}]
  /\ fail \in [Request -> {"none", "counts", "forgiven"}]

(* A request with call m, pass g and failure f may be at p.                *)
Suits(p, m, g, f) ==
  /\ p # "idle" => m \in Calls
  /\ p \in {"account", "send"} => m.kind = "send"
  /\ p = "password" => m.kind = "password"
  /\ p \in {"welcome", "gate_again"} => m.kind = "password" \/ (m.kind = "login" /\ g # None)
  /\ p = "reset" => m.kind = "reset"
  /\ p \in {"verify", "clear"} => m.kind \in CodeKind
  /\ p \in {"bind", "bind_now", "bound"} => m.kind = "bind"
  /\ p \in {"register", "exists", "insert", "registered"} => m.kind = "register"
  /\ f # "none" => p \in {"account", "send", "ip", "done"}

InPlace == \A r \in Request : Suits(pc[r], call[r], got[r], fail[r])

(* A request that has passed with p, or has read p and not deleted it yet. *)
Uses(r, p) ==
  \/ got[r] = p
  \/ At(r, "take_token") /\ p = Token
  \/ Active(r) /\ call[r].pass = "captcha" /\ ~At(r, "captcha") /\ p = Captcha
  \/ At(r, "clear") /\ p = CodePass(call[r].code)

Scarce == {Token, Captcha} \cup {CodePass(n) : n \in 1 .. MaxCodes}

UsedOnce ==
  \A p \in Scarce, q, r \in Request : Uses(q, p) /\ Uses(r, p) => q = r \/ p \in shared

(* A pass that served is gone, and a code that is out is one contact's.    *)
UsedUp ==
  \A r \in Request : /\ got[r] = Token => token = "gone"
                     /\ got[r] = Captcha => captcha = "gone"
                     /\ \A n \in 0 .. MaxCodes : got[r] = CodePass(n) =>
                          n <= sent /\ \A c \in Contact : code[c] = n => n = 0

CodesApart ==
  /\ \A c \in Contact : code[c] <= sent
  /\ \A c, d \in Contact : code[c] = code[d] => code[c] = 0 \/ c = d
  /\ \A r \in Request : pc[r] # "idle" => call[r].code <= sent
  /\ \A r \in Request : At(r, "clear") =>
       /\ call[r].code # 0
       /\ \A c \in Contact : code[c] = call[r].code => c = call[r].target

PassesAreSpent == UsedOnce /\ UsedUp /\ CodesApart

SamePerson(as) == \A a, b \in as : a = b

OneHolder(c) ==
  /\ SamePerson(Holders(c))
  /\ \A q, r \in Looked(c) : q = r \/ (call[q].kind = "register" /\ call[r].kind = "register")
  /\ \A r \in Looked(c) :
       /\ pc[r] \in {"bind_now", "bound"} => Holders(c) \subseteq rows[r]
       /\ At(r, "insert") => Holders(c) = {} \/ NameTaken(c)
       /\ At(r, "registered") => Holders(c) = {}

(* A new account that is not committed yet is nobody else's.               *)
NewAccounts ==
  \A r \in Request : At(r, "registered") =>
    /\ ~NameTaken(call[r].target)
    /\ \E a \in Account : rows[r] = {a} /\ name[a] = None
    /\ \A q \in Request \ {r} : At(q, "registered") =>
         rows[q] \cap rows[r] = {} /\ call[q].target # call[r].target

ContactsAreHeld == (\A c \in Contact \ crossed : OneHolder(c)) /\ NewAccounts

EverFailed(k, x) == Failed(k, x, {"counts", "forgiven"})

CountsAreEarned ==
  /\ \A k \in Key, x \in Address : count[k][x] <= Cardinality(EverFailed(k, x))
  /\ \A r \in Request : At(r, "counted") =>
       seen[r] <= Cardinality(EverFailed(KeyOf(r), call[r].addr))
  /\ BlocksAreEarned

(* A key nobody disturbed has one request at work on it, which knows the   *)
(* counter and the block as they are.                                      *)
OneByOne ==
  \A k \in Key \ mixed : \A q, r \in Request :
    Active(q) /\ Active(r) /\ KeyOf(q) = k /\ KeyOf(r) = k => q = r

UpToDate ==
  \A r \in Request : Active(r) /\ KeyOf(r) \notin mixed =>
    /\ At(r, "counted") => seen[r] = count[KeyOf(r)][call[r].addr]
    /\ pc[r] \in {"password", "welcome"} /\ call[r].kind = "password" => ~block[KeyOf(r)]

LoneRequests == OneByOne /\ UpToDate /\ LoneFailuresAreCounted

SignInInv ==
  TypeOK /\ InPlace /\ PassesAreSpent /\ ContactsAreHeld /\ CountsAreEarned /\ LoneRequests

=============================================================================
