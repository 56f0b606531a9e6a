---------------------------- MODULE SignIn_proofs ----------------------------
(***************************************************************************)
(* What signing in promises, for any number of requests, addresses,        *)
(* accounts and contacts.  The four properties rest on four independent    *)
(* parts of the invariant, each about its own variables: for each part a   *)
(* lemma says which steps cannot disturb it, and the others get a lemma of *)
(* their own.                                                              *)
(***************************************************************************)
EXTENDS SignIn, FiniteSetTheorems, TLAPS

-----------------------------------------------------------------------------
(* Types and places *)

LEMMA CallFacts ==
  ASSUME NEW m \in Calls
  PROVE  /\ m.kind \in Kind /\ m.addr \in Address /\ m.code \in 0 .. MaxCodes
         /\ m.target \in Name /\ (m.kind # "password" => m.target \in Contact)
         /\ m.pass \in Pass \cup {"code"} /\ (m.pass = "code" <=> m.kind \in CodeKind)
         /\ m.user \in Account \cup {None} /\ (m.kind = "bind" => m.user \in Account)
         /\ <<Class(m.kind), m.target>> \in Key
<1>1. /\ m.kind \in Kind /\ m.addr \in Address /\ m.code \in 0 .. MaxCodes
      /\ m.target \in Name /\ (m.kind # "password" => m.target \in Contact)
      /\ m.pass \in Pass \cup {"code"} /\ (m.pass = "code" <=> m.kind \in CodeKind)
      /\ m.user \in Account \cup {None} /\ (m.kind = "bind" => m.user \in Account)
  BY SignInAssumption DEF Calls, Kind, Pass, CodeKind, Name
<1>2. <<Class(m.kind), m.target>> \in Key
  BY <1>1 DEF Class, Key, Kind, Name
<1> QED
  BY <1>1, <1>2

LEMMA CallIs ==
  ASSUME TypeOK, InPlace, NEW r \in Request, pc[r] # "idle"
  PROVE  /\ call[r] \in Calls
         /\ call[r].kind \in Kind /\ call[r].addr \in Address /\ call[r].code \in 0 .. MaxCodes
         /\ call[r].target \in Name /\ (call[r].kind # "password" => call[r].target \in Contact)
         /\ call[r].pass \in Pass \cup {"code"}
         /\ (call[r].pass = "code" <=> call[r].kind \in CodeKind)
         /\ (call[r].kind = "bind" => call[r].user \in Account)
         /\ KeyOf(r) \in Key
<1>1. call[r] \in Calls
  BY DEF InPlace, Suits
<1> QED
  BY <1>1, CallFacts DEF KeyOf

(* A step of a request leaves the others where they are; only failures of  *)
(* theirs may be forgiven.                                                 *)
Keeps(r) ==
  \A q \in Request \ {r} :
    /\ pc'[q] = pc[q] /\ call'[q] = call[q] /\ rows'[q] = rows[q]
    /\ got'[q] = got[q] /\ seen'[q] = seen[q]
    /\ fail[q] = "none" <=> fail'[q] = "none"

LEMMA KeepsInPlace ==
  ASSUME InPlace, NEW r \in Request, Keeps(r), Suits(pc'[r], call'[r], got'[r], fail'[r])
  PROVE  InPlace'
BY DEF InPlace, Keeps, Suits

LEMMA AdmissionTyped ==
  ASSUME TypeOK, InPlace, NEW r \in Request,
         ReadToken(r) \/ TakeToken(r) \/ ReadCaptcha(r) \/ TakeCaptcha(r)
  PROVE  TypeOK' /\ InPlace' /\ Keeps(r)
<1>1. PICK p \in {"take_token", "take_captcha", "gate", "done"} :
        pc' = [pc EXCEPT ![r] = p]
  BY DEF ReadToken, TakeToken, ReadCaptcha, TakeCaptcha, Goto
<1>2. /\ UNCHANGED <<name, contact, code, sent, count, block, call, seen, fail>>
      /\ pc[r] # "idle" /\ fail[r] = "none"
      /\ got' = got \/ got' = [got EXCEPT ![r] = Token]
      /\ rows' = rows \/ rows' = [rows EXCEPT ![r] = {"captcha"}]
  BY DEF ReadToken, TakeToken, ReadCaptcha, TakeCaptcha, redis, table, past, At, Locks, InPlace, Suits
<1>3. TypeOK'
  BY <1>1, <1>2 DEF TypeOK, Place, Passes
<1>4. Keeps(r)
  BY <1>1, <1>2 DEF TypeOK, Keeps
<1>5. Suits(pc'[r], call'[r], got'[r], fail'[r])
  BY <1>1, <1>2 DEF TypeOK, Suits, InPlace
<1> QED
  BY <1>3, <1>4, <1>5, KeepsInPlace

LEMMA BeginTyped ==
  ASSUME TypeOK, InPlace, NEW r \in Request, Begin(r)
  PROVE  /\ TypeOK' /\ InPlace' /\ Keeps(r)
         /\ pc'[r] \in {"token", "captcha", "gate"} /\ pc[r] = "idle" /\ fail[r] = "none"
         /\ pc'[r] = "captcha" <=> call'[r].pass = "captcha"
         /\ call'[r] \in Calls /\ call'[r].code <= sent
         /\ mixed' = LET k == <<Class(call'[r].kind), call'[r].target>> IN Disturbs(k, r)
         /\ UNCHANGED <<redis, table, seen, rows, got, fail, shared, crossed, lapses>>
<1>1. PICK m \in Calls :
        /\ m.code <= sent /\ call' = [call EXCEPT ![r] = m]
        /\ Goto(r, IF m.pass \in {"token", "captcha"} THEN m.pass ELSE "gate")
        /\ mixed' = Disturbs(<<Class(m.kind), m.target>>, r)
  BY DEF Begin
<1>2. UNCHANGED <<redis, table, seen, rows, got, fail, shared, crossed, lapses>>
      /\ pc[r] = "idle" /\ fail[r] = "none"
  BY DEF Begin, At, InPlace, Suits
<1>3. PICK p \in {"token", "captcha", "gate"} :
        pc' = [pc EXCEPT ![r] = p] /\ (p = "captcha" <=> m.pass = "captcha")
  BY <1>1 DEF Goto
<1>4. TypeOK'
  BY <1>1, <1>2, <1>3 DEF TypeOK, Place, redis, table
<1>5. Keeps(r) /\ call'[r] = m /\ pc'[r] = p
  BY <1>1, <1>2, <1>3 DEF TypeOK, Keeps
<1>6. Suits(pc'[r], call'[r], got'[r], fail'[r])
  BY <1>2, <1>5 DEF Suits
<1> QED
  BY <1>1, <1>2, <1>3, <1>4, <1>5, <1>6, KeepsInPlace

LEMMA PlainTyped ==
  ASSUME TypeOK, InPlace, NEW r \in Request,
         \/ Gate(r) \/ ReadCount(r) \/ Password(r) \/ CheckSend(r) \/ UnknownToken(r)
         \/ NobodyToWelcome(r) \/ ReadCode(r)
  PROVE  TypeOK' /\ InPlace' /\ Keeps(r)
<1>0. call[r] \in Calls /\ call[r].kind \in Kind /\ KeyOf(r) \in Key /\ call[r].addr \in Address
  BY CallIs DEF Gate, ReadCount, Password, CheckSend, UnknownToken, NobodyToWelcome, ReadCode, At
<1>1. PICK p \in Place \ {"idle"} : pc' = [pc EXCEPT ![r] = p] /\ Suits(p, call[r], got[r], fail[r])
  <2>1. CASE Gate(r)
    <3>1. PICK p \in {"ip", "done", "welcome", "password", "count", "verify"} :
            /\ pc' = [pc EXCEPT ![r] = p]
            /\ p = "welcome" => At(r, "gate_again")
            /\ p = "password" => call[r].kind = "password"
            /\ p = "verify" => call[r].kind \notin {"password", "send"}
      BY <2>1 DEF Gate, Goto
    <3>2. fail[r] = "none"
      BY <2>1 DEF Gate, InPlace, Suits
    <3> QED
      BY <1>0, <3>1, <3>2 DEF InPlace, Suits, At, Place, Kind, CodeKind
  <2>2. CASE ReadCount(r) \/ Password(r) \/ UnknownToken(r)
    <3>1. PICK p \in {"counted", "count", "welcome", "ip"} :
            /\ pc' = [pc EXCEPT ![r] = p]
            /\ p = "welcome" => At(r, "password")
      BY <2>2 DEF ReadCount, Password, UnknownToken, Goto
    <3>2. fail[r] = "none"
      BY <2>2 DEF ReadCount, Password, UnknownToken, At, InPlace, Suits
    <3> QED
      BY <1>0, <3>1, <3>2 DEF InPlace, Suits, At, Place
  <2>3. CASE CheckSend(r)
    <3>1. PICK p \in {"ip", "send", "done"} : pc' = [pc EXCEPT ![r] = p]
      BY <2>3 DEF CheckSend, Rollback, Goto
    <3>2. call[r].kind = "send"
      BY <2>3 DEF CheckSend, At, InPlace, Suits
    <3> QED
      BY <1>0, <3>1, <3>2 DEF Suits, Place
  <2>4. CASE NobodyToWelcome(r)
    <3>1. pc' = [pc EXCEPT ![r] = "done"]
      BY <2>4 DEF NobodyToWelcome, Rollback, Goto
    <3> QED
      BY <1>0, <3>1 DEF Suits, Place
  <2>5. CASE ReadCode(r)
    <3>1. PICK p \in {"clear", "count"} : pc' = [pc EXCEPT ![r] = p]
      BY <2>5 DEF ReadCode, Goto
    <3>2. fail[r] = "none" /\ call[r].kind \in CodeKind
      BY <2>5 DEF ReadCode, At, InPlace, Suits
    <3> QED
      BY <1>0, <3>1, <3>2 DEF Suits, Place
  <2> QED
    BY <2>1, <2>2, <2>3, <2>4, <2>5
<1>2. /\ UNCHANGED <<name, contact, code, sent, count, block, call, got, fail>>
      /\ rows' = rows \/ rows' = [rows EXCEPT ![r] = {}]
      /\ seen' = seen \/ seen' = [seen EXCEPT ![r] = count[KeyOf(r)][call[r].addr]]
  BY DEF Gate, ReadCount, Password, CheckSend, UnknownToken, NobodyToWelcome, ReadCode,
         Rollback, Locks, redis, table, past
<1>3. TypeOK'
  <2>1. count[KeyOf(r)][call[r].addr] \in Nat
    BY <1>0 DEF TypeOK
  <2>2. seen' \in [Request -> Nat] /\ rows' \in [Request -> SUBSET (Account \cup {"captcha"})]
    BY <1>2, <2>1 DEF TypeOK
  <2> QED
    BY <1>1, <1>2, <2>2 DEF TypeOK
<1>4. Keeps(r)
  BY <1>1, <1>2 DEF TypeOK, Keeps
<1>5. Suits(pc'[r], call'[r], got'[r], fail'[r])
  BY <1>1, <1>2 DEF TypeOK
<1> QED
  BY <1>3, <1>4, <1>5, KeepsInPlace

(* A request that goes on with a code, a contact or an account.            *)
LEMMA AccountTyped ==
  ASSUME TypeOK, InPlace, NEW r \in Request,
         ReadHolder(r) \/ Bind(r) \/ Lock(r) \/ Exists(r) \/ Insert(r)
  PROVE  TypeOK' /\ InPlace' /\ Keeps(r)
<1>0. /\ call[r] \in Calls /\ fail[r] = "none"
      /\ call[r].kind = "bind" => call[r].user \in Account
      /\ ReadHolder(r) \/ Bind(r) => call[r].kind = "bind"
      /\ Lock(r) \/ Exists(r) \/ Insert(r) => call[r].kind = "register"
  BY CallIs DEF ReadHolder, Bind, Lock, Exists, Insert, At, InPlace, Suits
<1>1. PICK p \in {"bind_now", "bound", "exists", "insert", "registered", "done"} :
        /\ pc' = [pc EXCEPT ![r] = p]
        /\ p \in {"bind_now", "bound"} => call[r].kind = "bind"
        /\ p \in {"exists", "insert", "registered"} => call[r].kind = "register"
  BY <1>0 DEF ReadHolder, Bind, Lock, Exists, Insert, Rollback, Goto
<1>2. UNCHANGED <<name, contact, code, sent, count, block, call, seen, got, fail>>
  BY DEF ReadHolder, Bind, Lock, Exists, Insert, Rollback, redis, table, past
<1>3. PICK as \in SUBSET (Account \cup {"captcha"}) : rows' = rows \/ rows' = [rows EXCEPT ![r] = as]
  <2>1. CASE ReadHolder(r)
    BY <2>1 DEF ReadHolder, Locks, Holders
  <2>2. CASE Bind(r)
    <3>1. rows[r] \cup {call[r].user} \in SUBSET (Account \cup {"captcha"})
      BY <1>0, <2>2 DEF TypeOK
    <3> QED
      BY <2>2, <3>1 DEF Bind, Locks
  <2>3. CASE Insert(r)
    BY <2>3 DEF Insert, Rollback, Locks
  <2>4. CASE Lock(r) \/ Exists(r)
    BY <2>4 DEF Lock, Exists
  <2> QED
    BY <2>1, <2>2, <2>3, <2>4
<1>4. TypeOK'
  BY <1>1, <1>2, <1>3 DEF TypeOK, Place
<1>5. Keeps(r)
  BY <1>1, <1>2, <1>3 DEF TypeOK, Keeps
<1>6. Suits(pc'[r], call'[r], got'[r], fail'[r])
  BY <1>0, <1>1, <1>2 DEF TypeOK, Suits
<1> QED
  BY <1>4, <1>5, <1>6, KeepsInPlace

LEMMA CommitTyped ==
  ASSUME TypeOK, InPlace, NEW r \in Request,
         \/ CountAddress(r) \/ Reset(r) \/ SendCode(r) \/ CommitBind(r) \/ CommitRegister(r)
         \/ Welcome(r)
  PROVE  TypeOK' /\ InPlace' /\ Keeps(r)
<1>0. /\ call[r] \in Calls /\ call[r].target \in Name /\ pc[r] # "idle"
      /\ call[r].kind # "password" => call[r].target \in Contact
  BY CallIs DEF CountAddress, Reset, SendCode, CommitBind, CommitRegister, Welcome, At
<1>1. /\ UNCHANGED <<call, seen>> /\ pc' = [pc EXCEPT ![r] = "done"]
      /\ rows' = [rows EXCEPT ![r] = {}]
      /\ got' = got \/ got' = [got EXCEPT ![r] = Captcha]
  BY DEF CountAddress, Reset, SendCode, CommitBind, CommitRegister, Welcome, Commit, Rollback,
         Goto, Locks, redis
<1>2. /\ fail' \in [Request -> {"none", "counts", "forgiven"}]
      /\ \A q \in Request : fail[q] = "none" <=> fail'[q] = "none"
  <2>1. CASE Welcome(r)
    <3>1. \E k, as : Forgive(k, as)
      BY <2>1 DEF Welcome
    <3> QED
      BY <3>1 DEF Forgive, TypeOK
  <2>2. CASE fail' = fail
    BY <2>2 DEF TypeOK
  <2> QED
    BY <2>1, <2>2 DEF CountAddress, Reset, SendCode, CommitBind, CommitRegister
<1>3. count' \in [Key -> [Address -> Nat]] /\ block' \in [Key -> BOOLEAN]
  <2>1. CASE Welcome(r)
    <3>1. PICK k, as : Forgive(k, as) /\ block' = [block EXCEPT ![k] = FALSE]
      BY <2>1 DEF Welcome
    <3>2. k \in Key => [x \in Address |-> IF x \in as THEN 0 ELSE count[k][x]] \in [Address -> Nat]
      BY DEF TypeOK
    <3>3. count' = [count EXCEPT ![k] = [x \in Address |-> IF x \in as THEN 0 ELSE count[k][x]]]
      BY <3>1 DEF Forgive, TypeOK
    <3> QED
      BY <3>1, <3>2, <3>3 DEF TypeOK
  <2>2. CASE UNCHANGED <<count, block>>
    BY <2>2 DEF TypeOK
  <2> QED
    BY <2>1, <2>2 DEF CountAddress, Reset, SendCode, CommitBind, CommitRegister, redis
<1>4. code' \in [Contact -> Nat] /\ sent' \in Nat
  <2>1. CASE SendCode(r)
    <3>1. sent' = sent + 1 /\ code' = [code EXCEPT ![call[r].target] = sent + 1]
      BY <2>1 DEF SendCode
    <3>2. sent + 1 \in Nat /\ code \in [Contact -> Nat]
      BY DEF TypeOK
    <3> QED
      BY <3>1, <3>2
  <2>2. CASE UNCHANGED <<code, sent>>
    BY <2>2 DEF TypeOK
  <2> QED
    BY <2>1, <2>2 DEF CountAddress, Reset, Welcome, CommitBind, CommitRegister, redis
<1>5. name' \in [Account -> Name \cup {None}] /\ contact' \in [Account -> Contact \cup {None}]
  <2>1. CASE CommitBind(r)
    <3>1. call[r].target \in Contact
      BY <1>0, <2>1 DEF CommitBind, At, InPlace, Suits
    <3> QED
      BY <2>1, <3>1 DEF CommitBind, TypeOK
  <2>2. CASE CommitRegister(r)
    <3>1. call[r].target \in Contact
      BY <1>0, <2>2 DEF CommitRegister, At, InPlace, Suits
    <3> QED
      BY <2>2, <3>1 DEF CommitRegister, TypeOK, Name
  <2>3. CASE UNCHANGED <<name, contact>>
    BY <2>3 DEF TypeOK
  <2> QED
    BY <2>1, <2>2, <2>3 DEF CountAddress, Rollback, table, Reset, SendCode, Welcome
<1>6. TypeOK'
  BY <1>1, <1>2, <1>3, <1>4, <1>5 DEF TypeOK, Place, Passes
<1>7. Keeps(r)
  BY <1>1, <1>2 DEF TypeOK, Keeps
<1>8. Suits(pc'[r], call'[r], got'[r], fail'[r])
  BY <1>0, <1>1 DEF TypeOK, Suits
<1> QED
  BY <1>6, <1>7, <1>8, KeepsInPlace

LEMMA ClearTyped ==
  ASSUME TypeOK, InPlace, NEW r \in Request, ClearCode(r) \/ WriteCount(r)
  PROVE  TypeOK' /\ InPlace' /\ Keeps(r)
<1>0. /\ call[r] \in Calls /\ call[r].code \in 0 .. MaxCodes /\ KeyOf(r) \in Key
      /\ call[r].addr \in Address /\ fail[r] = "none"
      /\ call[r].kind # "password" => call[r].target \in Contact
  BY CallIs DEF ClearCode, WriteCount, At, InPlace, Suits
<1>1. CASE ClearCode(r)
  <2>1. PICK p \in {"gate_again", "reset", "bind", "register", "done"} :
          /\ pc' = [pc EXCEPT ![r] = p]
          /\ p = "gate_again" => call[r].kind = "login"
          /\ p \in {"reset", "bind", "register"} => call[r].kind = p
    BY <1>1 DEF ClearCode, Goto
  <2>2. /\ UNCHANGED <<name, contact, sent, count, block, call, seen, rows, fail>>
        /\ code' = [code EXCEPT ![call[r].target] = 0]
        /\ got' = [got EXCEPT ![r] = CodePass(call[r].code)]
    BY <1>1 DEF ClearCode, table
  <2>3. CodePass(call[r].code) \in Passes /\ CodePass(call[r].code) # None
    BY <1>0, NoneAssumption DEF Passes
  <2>4. TypeOK'
    BY <2>1, <2>2, <2>3 DEF TypeOK, Place
  <2>5. Keeps(r)
    BY <2>1, <2>2 DEF TypeOK, Keeps
  <2>6. Suits(pc'[r], call'[r], got'[r], fail'[r])
    BY <1>0, <2>1, <2>2, <2>3 DEF TypeOK, Suits
  <2> QED
    BY <2>4, <2>5, <2>6, KeepsInPlace
<1>2. CASE WriteCount(r)
  <2>1. PICK p \in {"account", "ip"} :
          pc' = [pc EXCEPT ![r] = p] /\ (p = "account" => call[r].kind = "send")
    BY <1>2 DEF WriteCount, Goto
  <2>2. /\ UNCHANGED <<name, contact, code, sent, call, rows, got>>
        /\ count' = [count EXCEPT ![KeyOf(r)][call[r].addr] = seen[r] + 1]
        /\ block' = [block EXCEPT ![KeyOf(r)] = @ \/ seen[r] + 1 >= Limit]
        /\ fail' = [fail EXCEPT ![r] = "counts"] /\ seen' = [seen EXCEPT ![r] = 0]
    BY <1>2 DEF WriteCount, table
  <2>3. TypeOK'
    <3>1. [count[KeyOf(r)] EXCEPT ![call[r].addr] = seen[r] + 1] \in [Address -> Nat]
      BY <1>0 DEF TypeOK
    <3>2. count' \in [Key -> [Address -> Nat]]
      BY <1>0, <2>2, <3>1 DEF TypeOK
    <3>3. block' \in [Key -> BOOLEAN]
      BY <1>0, <2>2 DEF TypeOK
    <3> QED
      BY <2>1, <2>2, <3>2, <3>3 DEF TypeOK, Place
  <2>4. Keeps(r)
    BY <2>1, <2>2 DEF TypeOK, Keeps
  <2>5. Suits(pc'[r], call'[r], got'[r], fail'[r])
    BY <1>0, <2>1, <2>2 DEF TypeOK, Suits
  <2> QED
    BY <2>3, <2>4, <2>5, KeepsInPlace
<1> QED
  BY <1>1, <1>2

LEMMA Typed ==
  ASSUME TypeOK, InPlace, NEW r \in Request, Step(r)
  PROVE  TypeOK' /\ InPlace' /\ Keeps(r)
BY AdmissionTyped, BeginTyped, PlainTyped, AccountTyped, CommitTyped, ClearTyped DEF Step

(* What happens between the requests leaves them all where they are.       *)
Ambient == Lapse \/ MakeToken \/ MakeCaptcha

LEMMA AmbientTyped ==
  ASSUME TypeOK, InPlace, Ambient
  PROVE  /\ TypeOK' /\ InPlace' /\ UNCHANGED <<name, contact, pc, call, rows, got, seen, sent>>
         /\ UNCHANGED <<shared, crossed>>
         /\ \A q \in Request : fail[q] = "none" <=> fail'[q] = "none"
<1>1. UNCHANGED <<name, contact, pc, call, rows, got, seen, sent, shared, crossed>>
  BY DEF Ambient, Lapse, MakeToken, MakeCaptcha, ExpireBlock, ExpireCount, FreeAddress, ExpireRate,
         ExpireCode, Unblock, ExpireToken, ExpireCaptcha, redis, table, past
<1>2. code' \in [Contact -> Nat]
  <2>1. CASE UNCHANGED code
    BY <2>1 DEF TypeOK
  <2>2. ASSUME NEW c \in Contact, ExpireCode(c) PROVE code' \in [Contact -> Nat]
    BY <2>2 DEF ExpireCode, TypeOK
  <2> QED
    BY <2>1, <2>2 DEF Ambient, Lapse, MakeToken, MakeCaptcha, ExpireBlock, ExpireCount, FreeAddress,
                      ExpireRate, Unblock, ExpireToken, ExpireCaptcha, redis
<1>3. block' \in [Key -> BOOLEAN]
  <2>1. CASE UNCHANGED block
    BY <2>1 DEF TypeOK
  <2>2. ASSUME NEW k, block' = [block EXCEPT ![k] = FALSE] PROVE block' \in [Key -> BOOLEAN]
    BY <2>2 DEF TypeOK
  <2> QED
    BY <2>1, <2>2 DEF Ambient, Lapse, MakeToken, MakeCaptcha, ExpireBlock, ExpireCount, FreeAddress,
                      ExpireRate, ExpireCode, Unblock, ExpireToken, ExpireCaptcha, redis
<1>4. /\ count' \in [Key -> [Address -> Nat]]
      /\ fail' \in [Request -> {"none", "counts", "forgiven"}]
      /\ \A q \in Request : fail[q] = "none" <=> fail'[q] = "none"
  <2>1. CASE UNCHANGED <<count, fail>>
    BY <2>1 DEF TypeOK
  <2>2. ASSUME NEW k, NEW as, Forgive(k, as)
        PROVE  /\ count' \in [Key -> [Address -> Nat]]
               /\ fail' \in [Request -> {"none", "counts", "forgiven"}]
               /\ \A q \in Request : fail[q] = "none" <=> fail'[q] = "none"
    <3>1. k \in Key => [x \in Address |-> IF x \in as THEN 0 ELSE count[k][x]] \in [Address -> Nat]
      BY DEF TypeOK
    <3>2. count' = [count EXCEPT ![k] = [x \in Address |-> IF x \in as THEN 0 ELSE count[k][x]]]
      BY <2>2 DEF Forgive, TypeOK
    <3>3. count' \in [Key -> [Address -> Nat]]
      BY <3>1, <3>2 DEF TypeOK
    <3> QED
      BY <2>2, <3>3 DEF Forgive, TypeOK
  <2> QED
    BY <2>1, <2>2 DEF Ambient, Lapse, MakeToken, MakeCaptcha, ExpireBlock, ExpireCount, FreeAddress,
                      ExpireRate, ExpireCode, Unblock, ExpireToken, ExpireCaptcha, redis, past
<1>5. TypeOK'
  BY <1>1, <1>2, <1>3, <1>4 DEF TypeOK
<1>6. InPlace'
  BY <1>1, <1>4 DEF InPlace, Suits
<1> QED
  BY <1>1, <1>4, <1>5, <1>6

-----------------------------------------------------------------------------
(* Contacts *)

Mid == {"bind_now", "bound", "insert", "registered"}

(* Requests that look at no account do not matter.                         *)
LEMMA ContactFrame ==
  ASSUME ContactsAreHeld, UNCHANGED <<name, contact, crossed>>,
         \A q \in Request : pc'[q] \in Mid =>
           pc'[q] = pc[q] /\ rows'[q] = rows[q] /\ call'[q] = call[q]
  PROVE  ContactsAreHeld'
<1>1. NewAccounts'
  BY DEF ContactsAreHeld, NewAccounts, At, NameTaken, Mid
<1>2. ASSUME NEW c \in Contact \ crossed PROVE OneHolder(c)'
  <2>1. Holders(c)' = Holders(c) /\ NameTaken(c)' = NameTaken(c)
    BY DEF Holders, NameTaken
  <2>2. \A q \in Looked(c)' : /\ q \in Looked(c) /\ pc'[q] = pc[q] /\ rows'[q] = rows[q]
                             /\ call'[q] = call[q]
    BY DEF Looked, Mid
  <2>3. OneHolder(c)
    BY DEF ContactsAreHeld
  <2> QED
    BY <2>1, <2>2, <2>3 DEF OneHolder, SamePerson, At
<1> QED
  BY <1>1, <1>2 DEF ContactsAreHeld

(* A bind that finds nobody else between reading and committing holds the  *)
(* row of everybody who has the contact.                                   *)
LEMMA ReadHolderContacts ==
  ASSUME TypeOK, InPlace, ContactsAreHeld, NEW r \in Request, ReadHolder(r)
  PROVE  ContactsAreHeld'
<1>0. /\ Keeps(r) /\ call[r].kind = "bind" /\ UNCHANGED <<name, contact, call>>
      /\ pc[r] = "bind" /\ crossed' = Crosses(r) /\ pc' = [pc EXCEPT ![r] = "bind_now"]
      /\ pc'[r] = "bind_now"
  BY AccountTyped DEF ReadHolder, Goto, At, InPlace, Suits, table, TypeOK
<1>1. rows'[r] = Holders(call[r].target) \/ \E h \in Holders(call[r].target) : rows'[r] = {h}
  BY DEF ReadHolder, Locks, TypeOK
<1>2. NewAccounts'
  BY <1>0 DEF ContactsAreHeld, NewAccounts, At, NameTaken, Keeps
<1>3. ASSUME NEW c \in Contact \ crossed' PROVE OneHolder(c)'
  <2>0. c \in Contact \ crossed
    BY <1>0 DEF Crosses
  <2>1. Holders(c)' = Holders(c) /\ NameTaken(c)' = NameTaken(c) /\ OneHolder(c)
    BY <1>0, <2>0 DEF Holders, NameTaken, ContactsAreHeld
  <2>2. \A q \in Looked(c)' : q # r => /\ q \in Looked(c) /\ pc'[q] = pc[q]
                                      /\ rows'[q] = rows[q] /\ call'[q] = call[q]
    BY <1>0 DEF Looked, Keeps
  <2>3. CASE c = call[r].target
    <3>1. Looked(c) \ {r} = {}
      BY <1>0, <2>3 DEF Crosses
    <3>2. \A q \in Looked(c)' : q = r
      BY <2>2, <3>1
    <3>3. Holders(c) \subseteq rows'[r]
      BY <1>1, <2>1, <2>3 DEF OneHolder, SamePerson
    <3> QED
      BY <1>0, <2>1, <3>2, <3>3 DEF OneHolder, SamePerson, At
  <2>4. CASE c # call[r].target
    <3>1. r \notin Looked(c)'
      BY <1>0, <2>4 DEF Looked
    <3> QED
      BY <2>1, <2>2, <3>1 DEF OneHolder, SamePerson, At
  <2> QED
    BY <2>3, <2>4
<1> QED
  BY <1>2, <1>3 DEF ContactsAreHeld

LEMMA BindContacts ==
  ASSUME TypeOK, InPlace, ContactsAreHeld, NEW r \in Request, Bind(r)
  PROVE  ContactsAreHeld'
<1>0. /\ Keeps(r) /\ UNCHANGED <<name, contact, call, crossed>>
      /\ pc[r] = "bind_now" /\ pc'[r] = "bound" /\ rows[r] \subseteq rows'[r]
  BY AccountTyped DEF Bind, Goto, At, Locks, table, past, TypeOK
<1>1. NewAccounts'
  BY <1>0 DEF ContactsAreHeld, NewAccounts, At, NameTaken, Keeps
<1>2. ASSUME NEW c \in Contact \ crossed PROVE OneHolder(c)'
  <2>1. Holders(c)' = Holders(c) /\ NameTaken(c)' = NameTaken(c) /\ OneHolder(c)
    BY <1>0 DEF Holders, NameTaken, ContactsAreHeld
  <2>2. \A q \in Looked(c)' :
          /\ q \in Looked(c) /\ call'[q] = call[q]
          /\ q # r => pc'[q] = pc[q] /\ rows'[q] = rows[q]
    BY <1>0 DEF Looked, Keeps
  <2> QED
    BY <1>0, <2>1, <2>2 DEF OneHolder, SamePerson, At
<1> QED
  BY <1>0, <1>1, <1>2 DEF ContactsAreHeld

(* The contact goes to one account, and everybody who had it loses it; for *)
(* another contact holders can only get fewer.                             *)
LEMMA CommitBindContacts ==
  ASSUME TypeOK, InPlace, ContactsAreHeld, NEW r \in Request, CommitBind(r)
  PROVE  ContactsAreHeld'
<1>0. /\ Keeps(r) /\ UNCHANGED <<name, call, crossed>> /\ call[r].kind = "bind"
      /\ pc[r] = "bound" /\ pc'[r] = "done" /\ call[r].target \in Contact
      /\ None \notin Contact
  BY CommitTyped, CallIs, SignInAssumption DEF CommitBind, Commit, Goto, At, InPlace, Suits, TypeOK, Name
<1>1. \A a \in Account : contact'[a] = IF a = call[r].user THEN call[r].target
                                       ELSE IF a \in rows[r] THEN None ELSE contact[a]
  BY DEF CommitBind
<1>2. NewAccounts'
  BY <1>0 DEF ContactsAreHeld, NewAccounts, At, NameTaken, Keeps
<1>3. ASSUME NEW c \in Contact \ crossed PROVE OneHolder(c)'
  <2>1. NameTaken(c)' = NameTaken(c) /\ OneHolder(c)
    BY <1>0 DEF NameTaken, ContactsAreHeld
  <2>2. \A q \in Looked(c)' : /\ q \in Looked(c) /\ q # r /\ call'[q] = call[q]
                              /\ pc'[q] = pc[q] /\ rows'[q] = rows[q]
    BY <1>0 DEF Looked, Keeps
  <2>3. CASE c = call[r].target
    <3>1. r \in Looked(c)
      BY <1>0, <2>3 DEF Looked
    <3>2. Looked(c)' = {}
      BY <1>0, <2>1, <2>2, <3>1 DEF OneHolder
    <3>3. Holders(c) \subseteq rows[r]
      BY <1>0, <2>1, <3>1 DEF OneHolder
    <3>4. \A a \in Holders(c)' : a = call[r].user
      BY <1>0, <1>1, <3>3 DEF Holders
    <3> QED
      BY <3>2, <3>4 DEF OneHolder, SamePerson
  <2>4. CASE c # call[r].target
    <3>1. Holders(c)' \subseteq Holders(c)
      BY <1>0, <1>1, <2>4 DEF Holders
    <3> QED
      BY <2>1, <2>2, <3>1 DEF OneHolder, SamePerson, At
  <2> QED
    BY <2>3, <2>4
<1> QED
  BY <1>0, <1>2, <1>3 DEF ContactsAreHeld

LEMMA ExistsContacts ==
  ASSUME TypeOK, InPlace, ContactsAreHeld, NEW r \in Request, Exists(r),
         Holders(call[r].target) = {}
  PROVE  ContactsAreHeld'
<1>0. /\ Keeps(r) /\ UNCHANGED <<name, contact, call>> /\ call[r].kind = "register"
      /\ pc[r] = "exists" /\ pc'[r] = "insert" /\ crossed' = Crosses(r)
  BY AccountTyped DEF Exists, Goto, At, InPlace, Suits, TypeOK, table
<1>1. NewAccounts'
  BY <1>0 DEF ContactsAreHeld, NewAccounts, At, NameTaken, Keeps
<1>2. ASSUME NEW c \in Contact \ crossed' PROVE OneHolder(c)'
  <2>0. c \in Contact \ crossed
    BY <1>0, <1>2 DEF Crosses
  <2>1. Holders(c)' = Holders(c) /\ NameTaken(c)' = NameTaken(c) /\ OneHolder(c)
    BY <1>0, <2>0 DEF Holders, NameTaken, ContactsAreHeld
  <2>2. \A q \in Looked(c)' : q # r => /\ q \in Looked(c) /\ pc'[q] = pc[q]
                                       /\ rows'[q] = rows[q] /\ call'[q] = call[q]
    BY <1>0 DEF Looked, Keeps
  <2>3. CASE c = call[r].target
    <3>1. \A q \in Looked(c) \ {r} : "bind" # call[q].kind
      BY <1>0, <1>2, <2>3 DEF Crosses
    <3>2. \A q \in Looked(c) \ {r} : call[q].kind = "register"
      BY <3>1, CallIs DEF Looked, InPlace, Suits
    <3> QED
      BY <1>0, <2>1, <2>2, <2>3, <3>2 DEF OneHolder, SamePerson, At
  <2>4. CASE c # call[r].target
    <3>1. r \notin Looked(c)'
      BY <1>0, <2>4 DEF Looked
    <3> QED
      BY <2>1, <2>2, <3>1 DEF OneHolder, SamePerson, At
  <2> QED
    BY <2>3, <2>4
<1> QED
  BY <1>1, <1>2 DEF ContactsAreHeld

(* Registrations of a contact may all have found nobody: the name, which   *)
(* is unique, lets one of them insert its account.                         *)
LEMMA InsertContacts ==
  ASSUME TypeOK, InPlace, ContactsAreHeld, NEW r \in Request, Insert(r),
         ~NameTaken(call[r].target)
  PROVE  ContactsAreHeld'
<1>0. /\ Keeps(r) /\ UNCHANGED <<name, contact, call, crossed>> /\ call[r].kind = "register"
      /\ pc[r] = "insert" /\ pc'[r] = "registered"
      /\ \A q \in Request \ {r} : At(q, "registered") => call[q].target # call[r].target
  BY AccountTyped DEF Insert, Goto, At, InPlace, Suits, TypeOK, table
<1>1. PICK a \in Account : name[a] = None /\ (\A q \in Request : a \notin rows[q]) /\ rows'[r] = {a}
  BY DEF Insert, Locks, TypeOK
<1>2. NewAccounts'
  <2> SUFFICES ASSUME NEW q \in Request, At(q, "registered")'
               PROVE  /\ ~NameTaken(call[q].target)'
                      /\ \E b \in Account : (rows[q] = {b} /\ name[b] = None)'
                      /\ \A t \in Request \ {q} : At(t, "registered")' =>
                           rows'[t] \cap rows'[q] = {} /\ call'[t].target # call'[q].target
    BY DEF NewAccounts, At
  <2>1. \A t \in Request \ {r} : pc'[t] = pc[t] /\ rows'[t] = rows[t] /\ call'[t] = call[t]
    BY <1>0 DEF Keeps
  <2>2. CASE q = r
    BY <1>0, <1>1, <2>1, <2>2 DEF At, NameTaken
  <2>3. CASE q # r
    <3>1. /\ At(q, "registered") /\ ~NameTaken(call[q].target)
          /\ \E b \in Account : rows[q] = {b} /\ name[b] = None
          /\ \A t \in Request \ {q} : At(t, "registered") =>
               rows[t] \cap rows[q] = {} /\ call[t].target # call[q].target
      BY <2>1, <2>3 DEF ContactsAreHeld, NewAccounts, At
    <3>2. rows'[q] = rows[q] /\ call'[q] = call[q]
      BY <2>1, <2>3
    <3>3. rows'[r] \cap rows'[q] = {} /\ call'[r].target # call'[q].target
      BY <1>0, <1>1, <2>3, <3>1, <3>2
    <3> QED
      BY <1>0, <2>1, <3>1, <3>2, <3>3 DEF At, NameTaken
  <2> QED
    BY <2>2, <2>3
<1>3. ASSUME NEW c \in Contact \ crossed PROVE OneHolder(c)'
  <2>1. Holders(c)' = Holders(c) /\ NameTaken(c)' = NameTaken(c) /\ OneHolder(c)
    BY <1>0 DEF Holders, NameTaken, ContactsAreHeld
  <2>2. \A q \in Looked(c)' :
          /\ q \in Looked(c) /\ call'[q] = call[q]
          /\ q # r => pc'[q] = pc[q] /\ rows'[q] = rows[q]
    BY <1>0 DEF Looked, Keeps
  <2>3. r \in Looked(c)' => c = call[r].target
    BY <1>0 DEF Looked
  <2> QED
    BY <1>0, <2>1, <2>2, <2>3 DEF OneHolder, SamePerson, At
<1> QED
  BY <1>0, <1>2, <1>3 DEF ContactsAreHeld

(* The account is the first with its contact, and from now on its name is  *)
(* taken: the registrations that found nobody will fail.                   *)
LEMMA CommitRegisterContacts ==
  ASSUME TypeOK, InPlace, ContactsAreHeld, NEW r \in Request, CommitRegister(r)
  PROVE  ContactsAreHeld'
<1>0. /\ Keeps(r) /\ UNCHANGED <<call, crossed>> /\ call[r].kind = "register"
      /\ pc[r] = "registered" /\ pc'[r] = "done" /\ None \notin Contact
  BY CommitTyped, SignInAssumption DEF CommitRegister, Commit, Goto, At, InPlace, Suits, TypeOK, Name
<1>1. PICK t \in Contact : t = call[r].target
  BY <1>0, CallIs
<1>2. PICK a \in Account : rows[r] = {a} /\ name[a] = None
  BY <1>0 DEF ContactsAreHeld, NewAccounts, At
<1>3. \A b \in Account : /\ name'[b] = IF b = a THEN t ELSE name[b]
                         /\ contact'[b] = IF b = a THEN t ELSE contact[b]
  BY <1>1, <1>2 DEF CommitRegister
<1>4. \A q \in Request \ {r} : /\ pc'[q] = pc[q] /\ rows'[q] = rows[q] /\ call'[q] = call[q]
  BY <1>0 DEF Keeps
<1>5. NewAccounts'
  <2> SUFFICES ASSUME NEW q \in Request, At(q, "registered")'
               PROVE  /\ ~NameTaken(call[q].target)'
                      /\ \E b \in Account : (rows[q] = {b} /\ name[b] = None)'
                      /\ \A s \in Request \ {q} : At(s, "registered")' =>
                           rows'[s] \cap rows'[q] = {} /\ call'[s].target # call'[q].target
    BY DEF NewAccounts, At
  <2>1. q # r /\ At(q, "registered")
    BY <1>0, <1>4 DEF At
  <2>2. /\ ~NameTaken(call[q].target)
        /\ \E b \in Account : rows[q] = {b} /\ name[b] = None
        /\ rows[r] \cap rows[q] = {} /\ call[r].target # call[q].target
        /\ \A s \in Request \ {q} : At(s, "registered") =>
             rows[s] \cap rows[q] = {} /\ call[s].target # call[q].target
    BY <1>0, <2>1 DEF ContactsAreHeld, NewAccounts, At
  <2>3. ~NameTaken(call[q].target)'
    BY <1>0, <1>1, <1>3, <2>2 DEF NameTaken
  <2>4. \E b \in Account : (rows[q] = {b} /\ name[b] = None)'
    BY <1>2, <1>3, <1>4, <2>1, <2>2
  <2>5. ASSUME NEW s \in Request \ {q}, At(s, "registered")'
        PROVE  rows'[s] \cap rows'[q] = {} /\ call'[s].target # call'[q].target
    BY <1>0, <1>4, <2>1, <2>2, <2>5 DEF At
  <2> QED
    BY <2>3, <2>4, <2>5
<1>6. ASSUME NEW c \in Contact \ crossed PROVE OneHolder(c)'
  <2>1. OneHolder(c)
    BY DEF ContactsAreHeld
  <2>2. \A q \in Looked(c)' : /\ q \in Looked(c) /\ q # r /\ call'[q] = call[q]
                              /\ pc'[q] = pc[q] /\ rows'[q] = rows[q]
    BY <1>0, <1>4 DEF Looked
  <2>3. CASE c = t
    <3>1. r \in Looked(c)
      BY <1>0, <1>1, <2>3 DEF Looked
    <3>2. Holders(c) = {}
      BY <1>0, <2>1, <3>1 DEF OneHolder, At
    <3>3. \A b \in Holders(c)' : b = a
      BY <1>3, <3>2 DEF Holders
    <3>4. NameTaken(c)'
      BY <1>3, <2>3 DEF NameTaken
    <3>5. \A q \in Looked(c)' : call[q].kind = "register" /\ ~At(q, "registered")
      BY <1>0, <1>1, <2>1, <2>2, <2>3, <3>1 DEF OneHolder, ContactsAreHeld, NewAccounts, At, Looked
    <3>6. \A q \in Looked(c)' : pc[q] = "insert"
      <4> TAKE q \in Looked(c)'
      <4>1. call[q].kind = "register" /\ pc[q] # "registered" /\ q \in Looked(c) /\ q \in Request
        BY <2>2, <3>5 DEF At, Looked
      <4>2. pc[q] \in {"bind_now", "bound", "insert", "registered"}
        BY <4>1 DEF Looked
      <4> QED
        BY <4>1, <4>2 DEF InPlace, Suits
    <3> QED
      BY <2>2, <3>3, <3>4, <3>5, <3>6 DEF OneHolder, SamePerson, At
  <2>4. CASE c # t
    <3>1. Holders(c)' \subseteq Holders(c)
      BY <1>3, <2>4 DEF Holders
    <3>2. NameTaken(c) => NameTaken(c)'
      BY <1>0, <1>2, <1>3 DEF NameTaken
    <3> QED
      BY <2>1, <2>2, <3>1, <3>2 DEF OneHolder, SamePerson, At
  <2> QED
    BY <2>3, <2>4
<1> QED
  BY <1>0, <1>5, <1>6 DEF ContactsAreHeld

LEMMA StepContacts ==
  ASSUME TypeOK, InPlace, ContactsAreHeld, NEW r \in Request, Step(r)
  PROVE  ContactsAreHeld'
<1>0. Keeps(r)
  BY Typed
<1>1. ASSUME UNCHANGED <<name, contact, crossed>>, pc'[r] \notin Mid
      PROVE  ContactsAreHeld'
  BY <1>0, <1>1, ContactFrame DEF Keeps
<1>2. CASE \/ Begin(r) \/ ReadToken(r) \/ TakeToken(r) \/ ReadCaptcha(r) \/ TakeCaptcha(r)
  <2>1. UNCHANGED <<name, contact, crossed>>
    BY <1>2 DEF Begin, ReadToken, TakeToken, ReadCaptcha, TakeCaptcha, table, past
  <2>2. pc'[r] \notin Mid
    BY <1>2, BeginTyped DEF ReadToken, TakeToken, ReadCaptcha, TakeCaptcha, Goto, TypeOK, Mid
  <2> QED
    BY <1>1, <2>1, <2>2
<1>3. CASE \/ Gate(r) \/ ReadCount(r) \/ WriteCount(r) \/ CountAddress(r) \/ Password(r)
           \/ Welcome(r) \/ NobodyToWelcome(r) \/ CheckSend(r) \/ SendCode(r)
  <2>1. UNCHANGED <<name, contact, crossed>>
    BY <1>3 DEF Gate, ReadCount, WriteCount, CountAddress, Password, Welcome, NobodyToWelcome,
                CheckSend, SendCode, Rollback, table, past
  <2>2. pc'[r] \notin Mid
    BY <1>3 DEF Gate, ReadCount, WriteCount, CountAddress, Password, Welcome, NobodyToWelcome,
                CheckSend, SendCode, Commit, Rollback, Goto, TypeOK, Mid
  <2> QED
    BY <1>1, <2>1, <2>2
<1>4. CASE UnknownToken(r) \/ ReadCode(r) \/ ClearCode(r) \/ Reset(r) \/ Lock(r)
  <2>1. UNCHANGED <<name, contact, crossed>>
    BY <1>4 DEF UnknownToken, ReadCode, ClearCode, Reset, Lock, table, past
  <2>2. pc'[r] \notin Mid
    BY <1>4 DEF UnknownToken, ReadCode, ClearCode, Reset, Lock, Commit, Goto, TypeOK, Mid
  <2> QED
    BY <1>1, <2>1, <2>2
<1>5. CASE Exists(r)
  <2>1. CASE Holders(call[r].target) # {}
    BY <1>1, <1>5, <2>1 DEF Exists, Goto, table, TypeOK, Mid
  <2> QED
    BY <1>5, <2>1, ExistsContacts
<1>6. CASE Insert(r)
  <2>1. CASE NameTaken(call[r].target)
    BY <1>1, <1>6, <2>1 DEF Insert, Rollback, Goto, table, TypeOK, Mid
  <2> QED
    BY <1>6, <2>1, InsertContacts
<1> QED
  BY <1>2, <1>3, <1>4, <1>5, <1>6, ReadHolderContacts, BindContacts, CommitBindContacts,
     CommitRegisterContacts DEF Step

-----------------------------------------------------------------------------
(* Passes *)

LEMMA PassesDiffer ==
  /\ Token # Captcha /\ Token \in Scarce /\ Captcha \in Scarce
  /\ \A n : CodePass(n) # Token /\ CodePass(n) # Captcha
  /\ \A m, n : CodePass(m) = CodePass(n) => m = n
  /\ \A n \in 1 .. MaxCodes : CodePass(n) \in Scarce
BY DEF Token, Captcha, CodePass, Scarce

(* Steps that bring no pass into use.                                      *)
LEMMA PassFrame ==
  ASSUME TypeOK, PassesAreSpent, shared \subseteq shared',
         \A q \in Request, p \in Scarce : Uses(q, p)' => Uses(q, p),
         \A q \in Request : /\ got'[q] = Token => token' = "gone"
                            /\ got'[q] = Captcha => captcha' = "gone"
                            /\ got'[q] = got[q] \/ got'[q] \in {Token, Captcha}
                            /\ pc'[q] # "idle" => call'[q].code <= sent
                            /\ At(q, "clear")' => At(q, "clear") /\ call'[q] = call[q],
         sent' = sent, \A c \in Contact : code'[c] \in {code[c], 0}
  PROVE  PassesAreSpent'
<1>1. UsedOnce'
  BY DEF PassesAreSpent, UsedOnce
<1>2. UsedUp'
  <2>1. ASSUME NEW r \in Request, NEW n \in 0 .. MaxCodes, got'[r] = CodePass(n)
        PROVE  n <= sent' /\ \A c \in Contact : code'[c] = n => n = 0
    <3>1. got[r] = CodePass(n)
      BY <2>1, PassesDiffer
    <3> QED
      BY <3>1 DEF PassesAreSpent, UsedUp
  <2> QED
    BY <2>1 DEF UsedUp
<1>3. CodesApart'
  <2>1. \A c \in Contact : code[c] \in Nat /\ code'[c] \in Nat /\ sent \in Nat
    BY DEF TypeOK
  <2>2. \A c \in Contact : code'[c] <= sent'
    BY <2>1 DEF PassesAreSpent, CodesApart
  <2>3. \A c, d \in Contact : code'[c] = code'[d] => code'[c] = 0 \/ c = d
    BY <2>1 DEF PassesAreSpent, CodesApart
  <2>4. ASSUME NEW r \in Request, At(r, "clear")'
        PROVE  /\ call'[r].code # 0
               /\ \A c \in Contact : code'[c] = call'[r].code => c = call'[r].target
    BY <2>4 DEF PassesAreSpent, CodesApart
  <2> QED
    BY <2>2, <2>3, <2>4 DEF CodesApart, At
<1> QED
  BY <1>1, <1>2, <1>3 DEF PassesAreSpent

(* A request goes on, and its transaction may commit. *)
LEMMA PassStep ==
  ASSUME TypeOK, PassesAreSpent, NEW r \in Request, Keeps(r), Active(r), ~At(r, "captcha"),
         UNCHANGED <<token, code, sent, shared, call>>, pc'[r] \notin {"take_token", "clear"},
         \/ UNCHANGED <<captcha, got>>
         \/ call[r].pass = "captcha" /\ captcha' = "gone" /\ got' = [got EXCEPT ![r] = Captcha]
  PROVE  PassesAreSpent'
<1>1. \A q \in Request \ {r} : pc'[q] = pc[q] /\ got'[q] = got[q]
  BY DEF Keeps
<1>2. got'[r] = got[r] \/ (call[r].pass = "captcha" /\ got'[r] = Captcha)
  BY DEF TypeOK
<1>3. ASSUME NEW q \in Request, NEW p \in Scarce, Uses(q, p)' PROVE Uses(q, p)
  <2>1. CASE q = r
    BY <1>2, <1>3, <2>1 DEF Uses, At, Active
  <2>2. CASE q # r
    BY <1>1, <1>3, <2>2 DEF Uses, At, Active
  <2> QED
    BY <2>1, <2>2
<1>4. \A q \in Request : /\ got'[q] = Token => token' = "gone"
                         /\ got'[q] = Captcha => captcha' = "gone"
                         /\ got'[q] = got[q] \/ got'[q] \in {Token, Captcha}
  <2> TAKE q \in Request
  <2>1. got'[q] = got[q] \/ (got'[q] = Captcha /\ captcha' = "gone")
    BY <1>1 DEF TypeOK
  <2>2. /\ got[q] = Token => token = "gone"
        /\ got[q] = Captcha => captcha = "gone"
    BY DEF PassesAreSpent, UsedUp
  <2> QED
    BY <2>1, <2>2, PassesDiffer
<1>5. \A q \in Request : /\ pc'[q] # "idle" => call'[q].code <= sent
                         /\ At(q, "clear")' => At(q, "clear") /\ call'[q] = call[q]
  <2> TAKE q \in Request
  <2>1. pc[q] # "idle" => call[q].code <= sent
    BY DEF PassesAreSpent, CodesApart
  <2> QED
    BY <1>1, <2>1 DEF At, Active
<1> QED
  BY <1>3, <1>4, <1>5, PassFrame

LEMMA PlainPasses ==
  ASSUME TypeOK, InPlace, PassesAreSpent, NEW r \in Request, Keeps(r),
         \/ TakeCaptcha(r) \/ Gate(r) \/ ReadCount(r) \/ WriteCount(r) \/ CountAddress(r)
         \/ Password(r) \/ Welcome(r) \/ NobodyToWelcome(r) \/ CheckSend(r) \/ UnknownToken(r)
         \/ Reset(r) \/ ReadHolder(r) \/ Bind(r) \/ CommitBind(r)
         \/ Lock(r) \/ Exists(r) \/ Insert(r) \/ CommitRegister(r)
  PROVE  PassesAreSpent'
<1>1. CASE \/ TakeCaptcha(r) \/ Gate(r) \/ ReadCount(r) \/ WriteCount(r) \/ Password(r)
           \/ NobodyToWelcome(r) \/ CheckSend(r) \/ UnknownToken(r)
  <2>1. /\ Active(r) /\ ~At(r, "captcha")
        /\ UNCHANGED <<token, code, sent, shared, call, captcha, got>>
    BY <1>1 DEF TakeCaptcha, Gate, ReadCount, WriteCount, Password, NobodyToWelcome, CheckSend,
                UnknownToken, Rollback, At, Active, redis, table, past
  <2>2. pc'[r] \notin {"take_token", "clear"}
    BY <1>1 DEF TakeCaptcha, Gate, ReadCount, WriteCount, Password, NobodyToWelcome, CheckSend,
                UnknownToken, Rollback, Goto, TypeOK
  <2> QED
    BY <2>1, <2>2, PassStep
<1>2. CASE ReadHolder(r) \/ Bind(r) \/ Lock(r) \/ Exists(r) \/ Insert(r)
  <2>1. /\ Active(r) /\ ~At(r, "captcha")
        /\ UNCHANGED <<token, code, sent, shared, call, captcha, got>>
    BY <1>2 DEF ReadHolder, Bind, Lock, Exists, Insert, Rollback, At, Active, redis, table, past
  <2>2. pc'[r] \notin {"take_token", "clear"}
    BY <1>2 DEF ReadHolder, Bind, Lock, Exists, Insert, Rollback, Goto, TypeOK
  <2> QED
    BY <2>1, <2>2, PassStep
<1>3. CASE CountAddress(r) \/ Welcome(r) \/ Reset(r) \/ CommitBind(r) \/ CommitRegister(r)
  <2>1. /\ Active(r) /\ ~At(r, "captcha")
        /\ UNCHANGED <<token, code, sent, shared, call>>
    BY <1>3 DEF CountAddress, Welcome, Reset, CommitBind, CommitRegister, At, Active, redis
  <2>2. pc'[r] \notin {"take_token", "clear"}
    BY <1>3 DEF CountAddress, Welcome, Reset, CommitBind, CommitRegister, Commit, Rollback, Goto, TypeOK
  <2>3. \/ UNCHANGED <<captcha, got>>
        \/ call[r].pass = "captcha" /\ captcha' = "gone" /\ got' = [got EXCEPT ![r] = Captcha]
    BY <1>3 DEF CountAddress, Welcome, Reset, CommitBind, CommitRegister, Commit, Rollback, table
  <2> QED
    BY <2>1, <2>2, <2>3, PassStep
<1> QED
  BY <1>1, <1>2, <1>3

(* A request that begins, and one whose token or captcha is not there, use *)
(* nothing yet.                                                            *)
LEMMA BeginPasses ==
  ASSUME TypeOK, InPlace, PassesAreSpent, NEW r \in Request, Keeps(r), Begin(r)
  PROVE  PassesAreSpent'
<1>1. /\ pc'[r] \in {"token", "captcha", "gate"} /\ pc[r] = "idle"
      /\ pc'[r] = "captcha" <=> call'[r].pass = "captcha"
      /\ call'[r].code <= sent
      /\ UNCHANGED <<redis, table, got, shared>>
  BY BeginTyped
<1>2. \A q \in Request \ {r} : pc'[q] = pc[q] /\ call'[q] = call[q]
  BY DEF Keeps
<1>3. ASSUME NEW q \in Request, NEW p \in Scarce, Uses(q, p)' PROVE Uses(q, p)
  BY <1>1, <1>2, <1>3 DEF Uses, At, Active
<1>4. \A q \in Request : /\ got'[q] = Token => token' = "gone"
                         /\ got'[q] = Captcha => captcha' = "gone"
  BY <1>1 DEF PassesAreSpent, UsedUp, redis, table
<1>5. \A q \in Request : /\ pc'[q] # "idle" => call'[q].code <= sent
                         /\ At(q, "clear")' => At(q, "clear") /\ call'[q] = call[q]
  BY <1>1, <1>2 DEF PassesAreSpent, CodesApart, At
<1> QED
  BY <1>1, <1>3, <1>4, <1>5, PassFrame DEF redis

(* Requests that have read the token: another one that has, or that has    *)
(* passed with it, makes it shared.                                        *)
LEMMA ReadTokenPasses ==
  ASSUME TypeOK, InPlace, PassesAreSpent, NEW r \in Request, Keeps(r), ReadToken(r)
  PROVE  PassesAreSpent'
<1>1. /\ pc[r] = "token" /\ UNCHANGED <<token, code, sent, call, captcha, got>>
      /\ pc'[r] \in {"take_token", "done"} /\ shared \subseteq shared'
      /\ pc'[r] = "take_token" => token = "out" /\ (Token \in shared' \/
           \A q \in Request \ {r} : ~At(q, "take_token"))
  BY DEF ReadToken, At, Goto, TypeOK, redis, table
<1>2. \A q \in Request \ {r} : pc'[q] = pc[q]
  BY DEF Keeps
<1>3. ASSUME NEW q \in Request, NEW p \in Scarce, Uses(q, p)'
      PROVE  Uses(q, p) \/ (q = r /\ p = Token /\ pc'[r] = "take_token")
  BY <1>1, <1>2, <1>3, PassesDiffer DEF Uses, At, Active
<1>4. UsedOnce'
  <2> SUFFICES ASSUME NEW p \in Scarce, NEW q \in Request, NEW t \in Request,
                      Uses(q, p)', Uses(t, p)', q # t
               PROVE  p \in shared'
    BY DEF UsedOnce
  <2>1. CASE Uses(q, p) /\ Uses(t, p)
    BY <1>1, <2>1 DEF PassesAreSpent, UsedOnce
  <2>2. ASSUME p = Token, pc'[r] = "take_token", NEW s \in Request \ {r}, Uses(s, Token)
        PROVE  Token \in shared'
    <3>1. got[s] # Token
      BY <1>1, <2>2 DEF PassesAreSpent, UsedUp
    <3>2. At(s, "take_token")
      BY <2>2, <3>1, PassesDiffer DEF Uses
    <3> QED
      BY <1>1, <2>2, <3>2
  <2> QED
    BY <1>3, <2>1, <2>2
<1>5. UsedUp'
  BY <1>1 DEF PassesAreSpent, UsedUp
<1>6. CodesApart'
  BY <1>1, <1>2 DEF PassesAreSpent, CodesApart, At
<1> QED
  BY <1>4, <1>5, <1>6 DEF PassesAreSpent

LEMMA TakeTokenPasses ==
  ASSUME TypeOK, InPlace, PassesAreSpent, NEW r \in Request, Keeps(r), TakeToken(r)
  PROVE  PassesAreSpent'
<1>1. /\ pc[r] = "take_token" /\ UNCHANGED <<code, sent, call, captcha, shared>>
      /\ pc'[r] = "gate" /\ token' = "gone" /\ got'[r] = Token
  BY DEF TakeToken, At, Goto, TypeOK, table
<1>2. \A q \in Request \ {r} : pc'[q] = pc[q] /\ got'[q] = got[q]
  BY DEF Keeps
<1>3. call[r].pass # "captcha" \/ Uses(r, Captcha)
  BY <1>1 DEF Uses, At, Active
<1>4. ASSUME NEW q \in Request, NEW p \in Scarce, Uses(q, p)' PROVE Uses(q, p)
  BY <1>1, <1>2, <1>3, <1>4, PassesDiffer DEF Uses, At, Active
<1>5. \A q \in Request : /\ got'[q] = Token => token' = "gone"
                         /\ got'[q] = Captcha => captcha' = "gone"
                         /\ got'[q] = got[q] \/ got'[q] \in {Token, Captcha}
  BY <1>1, <1>2, PassesDiffer DEF PassesAreSpent, UsedUp
<1>6. \A q \in Request : /\ pc'[q] # "idle" => call'[q].code <= sent
                         /\ At(q, "clear")' => At(q, "clear") /\ call'[q] = call[q]
  BY <1>1, <1>2 DEF PassesAreSpent, CodesApart, At
<1> QED
  BY <1>1, <1>4, <1>5, <1>6, PassFrame

LEMMA ReadCaptchaPasses ==
  ASSUME TypeOK, InPlace, PassesAreSpent, NEW r \in Request, Keeps(r), ReadCaptcha(r)
  PROVE  PassesAreSpent'
<1>1. /\ pc[r] = "captcha" /\ UNCHANGED <<token, code, sent, call, captcha, got>>
      /\ pc'[r] \in {"take_captcha", "done"} /\ shared \subseteq shared'
      /\ pc'[r] = "take_captcha" => captcha = "out" /\ (Captcha \in shared' \/
           \A q \in Request \ {r} : ~(Active(q) /\ call[q].pass = "captcha" /\ ~At(q, "captcha")))
  BY DEF ReadCaptcha, At, Goto, TypeOK, redis, table
<1>2. \A q \in Request \ {r} : pc'[q] = pc[q]
  BY DEF Keeps
<1>3. ASSUME NEW q \in Request, NEW p \in Scarce, Uses(q, p)'
      PROVE  Uses(q, p) \/ (q = r /\ p = Captcha /\ pc'[r] = "take_captcha")
  BY <1>1, <1>2, <1>3, PassesDiffer DEF Uses, At, Active
<1>4. UsedOnce'
  <2> SUFFICES ASSUME NEW p \in Scarce, NEW q \in Request, NEW t \in Request,
                      Uses(q, p)', Uses(t, p)', q # t
               PROVE  p \in shared'
    BY DEF UsedOnce
  <2>1. CASE Uses(q, p) /\ Uses(t, p)
    BY <1>1, <2>1 DEF PassesAreSpent, UsedOnce
  <2>2. ASSUME p = Captcha, pc'[r] = "take_captcha", NEW s \in Request \ {r}, Uses(s, Captcha)
        PROVE  Captcha \in shared'
    <3>1. got[s] # Captcha
      BY <1>1, <2>2 DEF PassesAreSpent, UsedUp
    <3>2. Active(s) /\ call[s].pass = "captcha" /\ ~At(s, "captcha")
      BY <2>2, <3>1, PassesDiffer DEF Uses
    <3> QED
      BY <1>1, <2>2, <3>2
  <2> QED
    BY <1>3, <2>1, <2>2
<1>5. UsedUp'
  BY <1>1 DEF PassesAreSpent, UsedUp
<1>6. CodesApart'
  BY <1>1, <1>2 DEF PassesAreSpent, CodesApart, At
<1> QED
  BY <1>4, <1>5, <1>6 DEF PassesAreSpent

(* The new code is larger than all before it, so it is nobody's pass yet.  *)
LEMMA SendCodePasses ==
  ASSUME TypeOK, InPlace, PassesAreSpent, NEW r \in Request, Keeps(r), SendCode(r)
  PROVE  PassesAreSpent'
<1>1. /\ pc[r] = "send" /\ pc'[r] = "done" /\ UNCHANGED <<token, call, shared>>
      /\ sent \in Nat /\ sent' = sent + 1
      /\ \A c \in Contact : code'[c] = IF c = call[r].target THEN sent + 1 ELSE code[c]
      /\ \/ UNCHANGED <<captcha, got>>
         \/ call[r].pass = "captcha" /\ captcha' = "gone" /\ got' = [got EXCEPT ![r] = Captcha]
  BY DEF SendCode, Commit, Goto, At, TypeOK
<1>2. \A q \in Request \ {r} : pc'[q] = pc[q] /\ got'[q] = got[q]
  BY DEF Keeps
<1>3. got'[r] = got[r] \/ (call[r].pass = "captcha" /\ got'[r] = Captcha)
  BY <1>1 DEF TypeOK
<1>4. ASSUME NEW q \in Request, NEW p \in Scarce, Uses(q, p)' PROVE Uses(q, p)
  <2>1. CASE q = r
    BY <1>1, <1>3, <1>4, <2>1 DEF Uses, At, Active
  <2>2. CASE q # r
    BY <1>1, <1>2, <1>4, <2>2 DEF Uses, At, Active
  <2> QED
    BY <2>1, <2>2
<1>5. UsedOnce'
  BY <1>1, <1>4 DEF PassesAreSpent, UsedOnce
<1>6. \A c \in Contact : code[c] \in Nat /\ code[c] <= sent
  BY DEF PassesAreSpent, CodesApart, TypeOK
<1>7. UsedUp'
  <2>1. ASSUME NEW q \in Request
        PROVE  /\ got'[q] = Token => token' = "gone"
               /\ got'[q] = Captcha => captcha' = "gone"
    BY <1>1, <1>2, <1>3, PassesDiffer DEF PassesAreSpent, UsedUp, TypeOK
  <2>2. ASSUME NEW q \in Request, NEW n \in 0 .. MaxCodes, got'[q] = CodePass(n)
        PROVE  n <= sent' /\ \A c \in Contact : code'[c] = n => n = 0
    <3>1. got[q] = CodePass(n)
      BY <1>2, <1>3, <2>2, PassesDiffer
    <3>2. n <= sent /\ \A c \in Contact : code[c] = n => n = 0
      BY <3>1 DEF PassesAreSpent, UsedUp
    <3> QED
      BY <1>1, <3>2, SignInAssumption
  <2> QED
    BY <2>1, <2>2 DEF UsedUp
<1>8. CodesApart'
  <2>1. \A c \in Contact : code'[c] <= sent'
    BY <1>1, <1>6
  <2>2. \A c, d \in Contact : code'[c] = code'[d] => code'[c] = 0 \/ c = d
    <3>1. \A c, d \in Contact : code[c] = code[d] => code[c] = 0 \/ c = d
      BY DEF PassesAreSpent, CodesApart
    <3> QED
      BY <1>1, <1>6, <3>1
  <2>3. \A q \in Request : pc[q] # "idle" => call[q].code \in Nat /\ call[q].code <= sent
    BY CallIs, SignInAssumption DEF PassesAreSpent, CodesApart
  <2>4. \A q \in Request : pc'[q] # "idle" => call'[q].code <= sent'
    BY <1>1, <1>2, <2>3
  <2>5. ASSUME NEW q \in Request, At(q, "clear")'
        PROVE  /\ call'[q].code # 0
               /\ \A c \in Contact : code'[c] = call'[q].code => c = call'[q].target
    <3>1. At(q, "clear")
      BY <1>1, <1>2, <2>5 DEF At
    <3>2. /\ call[q].code # 0 /\ call[q].code \in Nat /\ call[q].code <= sent
          /\ \A c \in Contact : code[c] = call[q].code => c = call[q].target
      BY <2>3, <3>1 DEF PassesAreSpent, CodesApart, At
    <3> QED
      BY <1>1, <3>2
  <2> QED
    BY <2>1, <2>2, <2>4, <2>5 DEF CodesApart, At
<1> QED
  BY <1>5, <1>7, <1>8 DEF PassesAreSpent

(* A code that is still out has let nobody pass: only those that have read *)
(* it too can share it.                                                    *)
LEMMA ReadCodePasses ==
  ASSUME TypeOK, InPlace, PassesAreSpent, NEW r \in Request, Keeps(r), ReadCode(r)
  PROVE  PassesAreSpent'
<1> DEFINE c == call[r].code
<1>0. call[r].target \in Contact /\ c \in 0 .. MaxCodes /\ call[r].pass = "code"
  BY CallIs DEF ReadCode, At, InPlace, Suits, CodeKind
<1>1. /\ pc[r] = "verify" /\ UNCHANGED <<token, code, sent, call, captcha, got>>
      /\ pc'[r] \in {"clear", "count"} /\ shared \subseteq shared'
      /\ pc'[r] = "clear" =>
           /\ c # 0 /\ code[call[r].target] = c
           /\ CodePass(c) \in shared' \/
                \A q \in Request \ {r} : ~(At(q, "clear") /\ call[q].code = c)
  BY DEF ReadCode, At, Goto, TypeOK, redis, table
<1>2. \A q \in Request \ {r} : pc'[q] = pc[q]
  BY DEF Keeps
<1>3. ASSUME NEW q \in Request, NEW p \in Scarce, Uses(q, p)'
      PROVE  Uses(q, p) \/ (q = r /\ p = CodePass(c) /\ pc'[r] = "clear")
  <2>1. CASE q = r
    BY <1>0, <1>1, <1>3, <2>1, PassesDiffer DEF Uses, At, Active
  <2>2. CASE q # r
    BY <1>1, <1>2, <1>3, <2>2 DEF Uses, At, Active
  <2> QED
    BY <2>1, <2>2
<1>4. UsedOnce'
  <2> SUFFICES ASSUME NEW p \in Scarce, NEW q \in Request, NEW t \in Request,
                      Uses(q, p)', Uses(t, p)', q # t
               PROVE  p \in shared'
    BY DEF UsedOnce
  <2>1. CASE Uses(q, p) /\ Uses(t, p)
    BY <1>1, <2>1 DEF PassesAreSpent, UsedOnce
  <2>2. ASSUME pc'[r] = "clear", NEW s \in Request \ {r}, Uses(s, CodePass(c))
        PROVE  CodePass(c) \in shared'
    <3>1. got[s] # CodePass(c)
      BY <1>0, <1>1, <2>2 DEF PassesAreSpent, UsedUp
    <3>2. At(s, "clear") /\ call[s].code = c
      BY <2>2, <3>1, PassesDiffer DEF Uses
    <3> QED
      BY <1>1, <2>2, <3>2
  <2> QED
    BY <1>3, <2>1, <2>2
<1>5. UsedUp'
  BY <1>1 DEF PassesAreSpent, UsedUp
<1>6. CodesApart'
  BY <1>0, <1>1, <1>2 DEF PassesAreSpent, CodesApart, At
<1> QED
  BY <1>4, <1>5, <1>6 DEF PassesAreSpent

(* Only the contact of the request can have its code, and has no more.     *)
LEMMA ClearCodePasses ==
  ASSUME TypeOK, InPlace, PassesAreSpent, NEW r \in Request, Keeps(r), ClearCode(r)
  PROVE  PassesAreSpent'
<1> DEFINE n == call[r].code
<1>0. call[r].target \in Contact /\ n \in 0 .. MaxCodes /\ call[r].pass = "code"
  BY CallIs DEF ClearCode, At, InPlace, Suits, CodeKind
<1>1. /\ pc[r] = "clear" /\ UNCHANGED <<token, sent, call, captcha, shared>>
      /\ pc'[r] \in {"gate_again", "reset", "bind", "register", "done"}
      /\ got'[r] = CodePass(n) /\ sent \in Nat
      /\ \A d \in Contact : /\ code[d] \in Nat
                            /\ code'[d] = IF d = call[r].target THEN 0 ELSE code[d]
  BY DEF ClearCode, At, Goto, TypeOK, table
<1>2. \A q \in Request \ {r} : pc'[q] = pc[q] /\ got'[q] = got[q]
  BY DEF Keeps
<1>3. /\ n # 0 /\ n <= sent
      /\ \A d \in Contact : code[d] = n => d = call[r].target
  BY <1>1 DEF PassesAreSpent, CodesApart, At
<1>4. ASSUME NEW q \in Request, NEW p \in Scarce, Uses(q, p)' PROVE Uses(q, p)
  <2>1. CASE q = r
    BY <1>0, <1>1, <1>4, <2>1 DEF Uses, At, Active
  <2>2. CASE q # r
    BY <1>1, <1>2, <1>4, <2>2 DEF Uses, At, Active
  <2> QED
    BY <2>1, <2>2
<1>5. UsedOnce'
  BY <1>1, <1>4 DEF PassesAreSpent, UsedOnce
<1>6. UsedUp'
  <2>1. ASSUME NEW q \in Request
        PROVE  /\ got'[q] = Token => token' = "gone"
               /\ got'[q] = Captcha => captcha' = "gone"
    BY <1>1, <1>2, PassesDiffer DEF PassesAreSpent, UsedUp
  <2>2. ASSUME NEW q \in Request, NEW m \in 0 .. MaxCodes, got'[q] = CodePass(m)
        PROVE  m <= sent' /\ \A d \in Contact : code'[d] = m => m = 0
    <3>1. CASE q = r
      <4>1. m = n
        BY <1>1, <2>2, <3>1, PassesDiffer
      <4> QED
        BY <1>1, <1>3, <4>1
    <3>2. CASE q # r
      BY <1>1, <1>2, <2>2, <3>2 DEF PassesAreSpent, UsedUp
    <3> QED
      BY <3>1, <3>2
  <2> QED
    BY <2>1, <2>2 DEF UsedUp
<1>7. CodesApart'
  <2>1. \A d \in Contact : code'[d] <= sent'
    BY <1>1 DEF PassesAreSpent, CodesApart
  <2>2. \A d, e \in Contact : code'[d] = code'[e] => code'[d] = 0 \/ d = e
    BY <1>1 DEF PassesAreSpent, CodesApart
  <2>3. ASSUME NEW q \in Request, pc'[q] # "idle"
        PROVE  /\ call'[q].code <= sent'
               /\ pc'[q] = "clear" =>
                    /\ call'[q].code # 0
                    /\ \A d \in Contact : code'[d] = call'[q].code => d = call'[q].target
    BY <1>1, <1>2, <2>3 DEF PassesAreSpent, CodesApart, At
  <2> QED
    BY <2>1, <2>2, <2>3 DEF CodesApart, At
<1> QED
  BY <1>5, <1>6, <1>7 DEF PassesAreSpent

LEMMA StepPasses ==
  ASSUME TypeOK, InPlace, PassesAreSpent, NEW r \in Request, Step(r)
  PROVE  PassesAreSpent'
BY Typed, PlainPasses, BeginPasses, ReadTokenPasses, TakeTokenPasses, ReadCaptchaPasses,
   SendCodePasses, ReadCodePasses, ClearCodePasses DEF Step

LEMMA AmbientPasses ==
  ASSUME TypeOK, InPlace, PassesAreSpent, Ambient
  PROVE  PassesAreSpent'
<1>1. UNCHANGED <<pc, call, got, sent, shared>>
  BY AmbientTyped
<1>2. \A c \in Contact : code'[c] \in {code[c], 0}
  <2>1. ASSUME NEW d \in Contact, ExpireCode(d) PROVE \A c \in Contact : code'[c] \in {code[c], 0}
    BY <2>1 DEF ExpireCode, TypeOK
  <2> QED
    BY <2>1 DEF Ambient, Lapse, MakeToken, MakeCaptcha, ExpireBlock, ExpireCount, FreeAddress,
                ExpireRate, Unblock, ExpireToken, ExpireCaptcha, redis
<1>3. /\ token = "gone" => token' = "gone"
      /\ captcha = "gone" => captcha' = "gone"
  BY DEF Ambient, Lapse, MakeToken, MakeCaptcha, ExpireBlock, ExpireCount, FreeAddress,
         ExpireRate, ExpireCode, Unblock, ExpireToken, ExpireCaptcha, redis, table
<1>4. \A q \in Request, p \in Scarce : Uses(q, p)' => Uses(q, p)
  BY <1>1 DEF Uses, At, Active
<1>5. \A q \in Request : /\ got'[q] = Token => token' = "gone"
                         /\ got'[q] = Captcha => captcha' = "gone"
                         /\ pc'[q] # "idle" => call'[q].code <= sent
                         /\ At(q, "clear")' => At(q, "clear") /\ call'[q] = call[q]
  BY <1>1, <1>3 DEF PassesAreSpent, UsedUp, CodesApart, At
<1> QED
  BY <1>1, <1>2, <1>4, <1>5, PassFrame

-----------------------------------------------------------------------------
(* Failures that happened *)

LEMMA FailedFinite ==
  ASSUME NEW k, NEW x, NEW how
  PROVE  IsFiniteSet(Failed(k, x, how)) /\ Cardinality(Failed(k, x, how)) \in Nat
<1>1. IsFiniteSet(Failed(k, x, how))
  BY FS_Subset, SignInAssumption DEF Failed
<1> QED
  BY <1>1, FS_CardinalityType

(* A failure that is forgiven happened all the same.                       *)
LEMMA EverFailedStays ==
  ASSUME TypeOK, TypeOK', NEW k, NEW x,
         \A q \in Request : /\ fail[q] = "none" <=> fail'[q] = "none"
                            /\ fail[q] # "none" => call'[q] = call[q]
  PROVE  EverFailed(k, x)' = EverFailed(k, x)
BY DEF EverFailed, Failed, KeyOf, TypeOK

(* Counters and blocks that only go down, and no new failure.              *)
LEMMA CountsFrame ==
  ASSUME TypeOK, TypeOK', CountsAreEarned,
         \A q \in Request : /\ fail[q] = "none" <=> fail'[q] = "none"
                            /\ fail[q] # "none" => call'[q] = call[q],
         \A k \in Key : /\ block'[k] => block[k]
                        /\ \A x \in Address : count'[k][x] <= count[k][x],
         \A q \in Request : pc'[q] = "counted" =>
           /\ call'[q] = call[q] /\ KeyOf(q) \in Key /\ call[q].addr \in Address
           /\ \/ pc[q] = "counted" /\ seen'[q] = seen[q]
              \/ seen'[q] = count[KeyOf(q)][call[q].addr]
  PROVE  CountsAreEarned'
<1>1. \A k, x : EverFailed(k, x)' = EverFailed(k, x)
  BY EverFailedStays
<1>2. \A k, x : Cardinality(EverFailed(k, x)) \in Nat
  BY FailedFinite DEF EverFailed
<1>3. \A k \in Key, x \in Address : count[k][x] \in Nat /\ count'[k][x] \in Nat
  BY DEF TypeOK
<1>4. \A k \in Key, x \in Address : count'[k][x] <= Cardinality(EverFailed(k, x)')
  BY <1>1, <1>2, <1>3 DEF CountsAreEarned
<1>5. ASSUME NEW q \in Request, pc'[q] = "counted"
      PROVE  (seen[q] <= Cardinality(EverFailed(KeyOf(q), call[q].addr)))'
  <2>1. PICK k \in Key : k = KeyOf(q) /\ k = KeyOf(q)'
    BY <1>5 DEF KeyOf
  <2>2. PICK x \in Address : x = call[q].addr /\ x = call'[q].addr
    BY <1>5
  <2>3. seen'[q] <= Cardinality(EverFailed(k, x))
    <3>1. count[k][x] <= Cardinality(EverFailed(k, x))
      BY DEF CountsAreEarned
    <3> QED
      BY <1>5, <2>1, <2>2, <3>1 DEF CountsAreEarned, At
  <2> QED
    BY <1>1, <2>1, <2>2, <2>3
<1>7. BlocksAreEarned'
  BY <1>1 DEF CountsAreEarned, BlocksAreEarned, EverFailed
<1> QED
  BY <1>4, <1>5, <1>7 DEF CountsAreEarned, At

LEMMA WriteCountFails ==
  ASSUME TypeOK, InPlace, NEW r \in Request, WriteCount(r), NEW k \in Key, NEW x \in Address,
         NEW how, "counts" \in how, "none" \notin how
  PROVE  /\ k = KeyOf(r) /\ x = call[r].addr =>
              Cardinality(Failed(k, x, how)') = Cardinality(Failed(k, x, how)) + 1
         /\ ~(k = KeyOf(r) /\ x = call[r].addr) => Failed(k, x, how)' = Failed(k, x, how)
<1>1. /\ fail[r] = "none" /\ UNCHANGED call /\ fail'[r] = "counts"
      /\ \A q \in Request \ {r} : fail'[q] = fail[q]
  BY DEF WriteCount, At, InPlace, Suits, TypeOK
<1>2. r \notin Failed(k, x, how)
  BY <1>1 DEF Failed
<1>3. k = KeyOf(r) /\ x = call[r].addr => Failed(k, x, how)' = Failed(k, x, how) \cup {r}
  BY <1>1 DEF Failed, KeyOf
<1>4. ~(k = KeyOf(r) /\ x = call[r].addr) => Failed(k, x, how)' = Failed(k, x, how)
  BY <1>1 DEF Failed, KeyOf
<1> QED
  BY <1>2, <1>3, <1>4, FailedFinite, FS_AddElement

(* The counter that is written is one more than one that was earned, and   *)
(* this failure is one more.                                               *)
LEMMA WriteCountEarned ==
  ASSUME TypeOK, InPlace, CountsAreEarned, NEW r \in Request, WriteCount(r)
  PROVE  CountsAreEarned'
<1>0. Keeps(r) /\ TypeOK'
  BY ClearTyped
<1>1. PICK K \in Key : K = KeyOf(r)
  BY CallIs DEF WriteCount, At
<1>2. PICK A \in Address : A = call[r].addr
  BY CallIs DEF WriteCount, At
<1>3. /\ pc[r] = "counted" /\ pc'[r] # "counted" /\ UNCHANGED call /\ seen[r] \in Nat
      /\ \A k \in Key, x \in Address :
           /\ count[k][x] \in Nat
           /\ count'[k][x] = IF k = K /\ x = A THEN seen[r] + 1 ELSE count[k][x]
      /\ \A k \in Key : block'[k] <=> block[k] \/ (k = K /\ seen[r] + 1 >= Limit)
  <2>1. pc[r] = "counted" /\ pc'[r] # "counted" /\ UNCHANGED call /\ seen[r] \in Nat
    BY DEF WriteCount, At, Goto, TypeOK
  <2>2. ASSUME NEW k \in Key, NEW x \in Address
        PROVE  /\ count[k][x] \in Nat
               /\ count'[k][x] = IF k = K /\ x = A THEN seen[r] + 1 ELSE count[k][x]
    BY <1>1, <1>2 DEF WriteCount, TypeOK
  <2>3. ASSUME NEW k \in Key
        PROVE  block'[k] <=> block[k] \/ (k = K /\ seen[r] + 1 >= Limit)
    BY <1>1 DEF WriteCount, TypeOK
  <2> QED
    BY <2>1, <2>2, <2>3
<1>4. ASSUME NEW k \in Key, NEW x \in Address
      PROVE  /\ Cardinality(EverFailed(k, x)) \in Nat
             /\ Cardinality(EverFailed(k, x)') = IF k = K /\ x = A
                                                 THEN Cardinality(EverFailed(k, x)) + 1
                                                 ELSE Cardinality(EverFailed(k, x))
  BY <1>1, <1>2, WriteCountFails, FailedFinite DEF EverFailed
<1>5. seen[r] <= Cardinality(EverFailed(K, A))
  BY <1>1, <1>2, <1>3 DEF CountsAreEarned, At
<1>6. \A k \in Key, x \in Address : count[k][x] <= Cardinality(EverFailed(k, x))
  BY DEF CountsAreEarned
<1>7. ASSUME NEW k \in Key, NEW x \in Address
      PROVE  count'[k][x] <= Cardinality(EverFailed(k, x)')
  <2>1. CASE k = K /\ x = A
    BY <1>3, <1>4, <1>5, <2>1
  <2>2. CASE ~(k = K /\ x = A)
    BY <1>3, <1>4, <1>6, <2>2
  <2> QED
    BY <2>1, <2>2
<1>8. ASSUME NEW q \in Request, pc'[q] = "counted"
      PROVE  (seen[q] <= Cardinality(EverFailed(KeyOf(q), call[q].addr)))'
  <2>1. q # r /\ pc[q] = "counted" /\ seen'[q] = seen[q] /\ seen[q] \in Nat
    BY <1>0, <1>3, <1>8 DEF Keeps, TypeOK
  <2>2. PICK k \in Key : k = KeyOf(q) /\ k = KeyOf(q)'
    BY <1>3, <2>1, CallIs DEF KeyOf
  <2>3. PICK x \in Address : x = call[q].addr /\ x = call'[q].addr
    BY <1>3, <2>1, CallIs
  <2>4. seen[q] <= Cardinality(EverFailed(k, x))
    BY <2>1, <2>2, <2>3 DEF CountsAreEarned, At
  <2>5. seen'[q] <= Cardinality(EverFailed(k, x)')
    BY <1>4, <2>1, <2>4
  <2> QED
    BY <2>2, <2>3, <2>5
<1>9. BlocksAreEarned'
  <2> SUFFICES ASSUME NEW k \in Key, block'[k]
               PROVE  \E x \in Address : Cardinality(EverFailed(k, x)') >= Limit
    BY DEF BlocksAreEarned, EverFailed
  <2>1. CASE block[k]
    <3>1. PICK x \in Address : Cardinality(EverFailed(k, x)) >= Limit
      BY <2>1 DEF CountsAreEarned, BlocksAreEarned, EverFailed
    <3> QED
      BY <1>4, <3>1, SignInAssumption
  <2>2. CASE ~block[k]
    <3>1. k = K /\ seen[r] + 1 >= Limit
      BY <1>3, <2>2
    <3>2. Cardinality(EverFailed(K, A)') >= seen[r] + 1
      BY <1>3, <1>4, <1>5
    <3>3. Cardinality(EverFailed(K, A)') \in Nat
      BY <1>4
    <3> QED
      BY <1>3, <3>1, <3>2, <3>3, SignInAssumption
  <2> QED
    BY <2>1, <2>2
<1> QED
  BY <1>7, <1>8, <1>9 DEF CountsAreEarned, At

LEMMA ForgiveIs ==
  ASSUME TypeOK, NEW k, NEW as, Forgive(k, as)
  PROVE  /\ \A l \in Key, x \in Address :
              /\ l = k /\ x \in as => count'[l][x] = 0
              /\ l # k \/ x \notin as => count'[l][x] = count[l][x]
              /\ count[l][x] \in Nat /\ count'[l][x] <= count[l][x]
         /\ \A q \in Request : fail'[q] = IF fail[q] = "counts" /\ KeyOf(q) = k /\ call[q].addr \in as
                                          THEN "forgiven" ELSE fail[q]
<1>1. count' = [count EXCEPT ![k] = [x \in Address |-> IF x \in as THEN 0 ELSE count[k][x]]]
  BY DEF Forgive, TypeOK
<1>2. \A l \in Key, x \in Address : count[l][x] \in Nat
  BY DEF TypeOK
<1>3. \A l \in Key, x \in Address :
        /\ l = k /\ x \in as => count'[l][x] = 0
        /\ l # k \/ x \notin as => count'[l][x] = count[l][x]
  BY <1>1 DEF TypeOK
<1>4. ASSUME NEW l \in Key, NEW x \in Address
      PROVE  count'[l][x] <= count[l][x]
  <2>1. PICK n \in Nat : n = count[l][x]
    BY <1>2
  <2>2. count'[l][x] = 0 \/ count'[l][x] = n
    BY <1>3, <2>1
  <2> QED
    BY <2>1, <2>2
<1>5. \A q \in Request : fail'[q] = IF fail[q] = "counts" /\ KeyOf(q) = k /\ call[q].addr \in as
                                    THEN "forgiven" ELSE fail[q]
  BY DEF Forgive
<1> QED
  BY <1>2, <1>3, <1>4, <1>5

LEMMA StepCounts ==
  ASSUME TypeOK, InPlace, CountsAreEarned, NEW r \in Request, Step(r)
  PROVE  CountsAreEarned'
<1>0. TypeOK' /\ Keeps(r)
  BY Typed
<1>1. ASSUME UNCHANGED <<fail, count, block>>, fail[r] # "none" => call'[r] = call[r],
             pc'[r] # "counted" \/ ReadCount(r)
      PROVE  CountsAreEarned'
  <2>1. \A q \in Request : fail[q] # "none" => call'[q] = call[q]
    BY <1>0, <1>1 DEF Keeps
  <2>2. \A k \in Key, x \in Address : count'[k][x] <= count[k][x]
    <3>1. \A k \in Key, x \in Address : count[k][x] \in Nat
      BY DEF TypeOK
    <3> QED
      BY <1>1, <3>1
  <2>3. ASSUME NEW q \in Request, pc'[q] = "counted"
        PROVE  /\ call'[q] = call[q] /\ KeyOf(q) \in Key /\ call[q].addr \in Address
               /\ \/ pc[q] = "counted" /\ seen'[q] = seen[q]
                  \/ seen'[q] = count[KeyOf(q)][call[q].addr]
    <3>1. CASE q = r
      <4>1. ReadCount(r) /\ pc[r] = "count" /\ call'[r] = call[r]
        BY <1>1, <2>3, <3>1 DEF ReadCount, At
      <4>2. seen'[r] = count[KeyOf(r)][call[r].addr]
        BY <4>1 DEF ReadCount, TypeOK
      <4> QED
        BY <3>1, <4>1, <4>2, CallIs
    <3>2. CASE q # r
      BY <1>0, <2>3, <3>2, CallIs DEF Keeps
    <3> QED
      BY <3>1, <3>2
  <2> QED
    BY <1>0, <1>1, <2>1, <2>2, <2>3, CountsFrame
<1>2. CASE Begin(r) \/ ReadToken(r) \/ TakeToken(r) \/ ReadCaptcha(r) \/ TakeCaptcha(r)
  <2>1. UNCHANGED <<fail, count, block>> /\ (fail[r] # "none" => call'[r] = call[r])
    BY <1>2, BeginTyped DEF ReadToken, TakeToken, ReadCaptcha, TakeCaptcha, redis, past
  <2>2. pc'[r] # "counted"
    BY <1>2, BeginTyped DEF ReadToken, TakeToken, ReadCaptcha, TakeCaptcha, Goto, TypeOK
  <2> QED
    BY <1>1, <2>1, <2>2
<1>3. CASE \/ Gate(r) \/ ReadCount(r) \/ CountAddress(r) \/ Password(r) \/ NobodyToWelcome(r)
           \/ CheckSend(r) \/ SendCode(r) \/ UnknownToken(r) \/ ReadCode(r) \/ ClearCode(r)
  <2>1. UNCHANGED <<fail, count, block, call>>
    BY <1>3 DEF Gate, ReadCount, CountAddress, Password, NobodyToWelcome, CheckSend, SendCode,
                UnknownToken, ReadCode, ClearCode, redis, past
  <2>2. pc'[r] # "counted" \/ ReadCount(r)
    BY <1>3 DEF Gate, CountAddress, Password, NobodyToWelcome, CheckSend, SendCode, UnknownToken,
                ReadCode, ClearCode, Commit, Rollback, Goto, TypeOK
  <2> QED
    BY <1>1, <2>1, <2>2
<1>4. CASE \/ Reset(r) \/ ReadHolder(r) \/ Bind(r) \/ CommitBind(r)
           \/ Lock(r) \/ Exists(r) \/ Insert(r) \/ CommitRegister(r)
  <2>1. UNCHANGED <<fail, count, block, call>>
    BY <1>4 DEF Reset, ReadHolder, Bind, CommitBind, Lock, Exists, Insert, CommitRegister, redis, past
  <2>2. pc'[r] # "counted"
    BY <1>4 DEF Reset, ReadHolder, Bind, CommitBind, Lock, Exists, Insert, CommitRegister,
                Commit, Rollback, Goto, TypeOK
  <2> QED
    BY <1>1, <2>1, <2>2
<1>5. CASE Welcome(r)
  <2>1. PICK k, as : Forgive(k, as) /\ block' = [block EXCEPT ![k] = FALSE]
    BY <1>5 DEF Welcome
  <2>2. UNCHANGED <<call, seen>> /\ pc'[r] = "done"
    BY <1>5 DEF Welcome, Commit, Goto, TypeOK
  <2>3. \A l \in Key, x \in Address : count[l][x] \in Nat /\ count'[l][x] <= count[l][x]
    BY <2>1, ForgiveIs
  <2>4. \A q \in Request : fail[q] = "none" <=> fail'[q] = "none"
    BY <2>1 DEF Forgive, TypeOK
  <2>5. \A l \in Key : block'[l] => block[l]
    BY <2>1 DEF TypeOK
  <2>6. \A q \in Request : pc'[q] = "counted" =>
          pc[q] = "counted" /\ seen'[q] = seen[q] /\ KeyOf(q) \in Key /\ call[q].addr \in Address
    BY <1>0, <2>2, CallIs DEF Keeps
  <2> QED
    BY <1>0, <2>2, <2>3, <2>4, <2>5, <2>6, CountsFrame
<1> QED
  BY <1>2, <1>3, <1>4, <1>5, WriteCountEarned DEF Step

LEMMA AmbientCounts ==
  ASSUME TypeOK, InPlace, CountsAreEarned, Ambient
  PROVE  CountsAreEarned'
<1>1. /\ TypeOK' /\ UNCHANGED <<pc, call, seen>>
      /\ \A q \in Request : fail[q] = "none" <=> fail'[q] = "none"
  BY AmbientTyped
<1>2. /\ UNCHANGED count \/ \E k, as : Forgive(k, as)
      /\ UNCHANGED block \/ \E k : block' = [block EXCEPT ![k] = FALSE]
  BY DEF Ambient, Lapse, MakeToken, MakeCaptcha, ExpireBlock, ExpireCount, FreeAddress, ExpireRate,
         ExpireCode, Unblock, ExpireToken, ExpireCaptcha, redis
<1>3. \A k \in Key, x \in Address : count[k][x] \in Nat /\ count'[k][x] <= count[k][x]
  <2>1. \A k \in Key, x \in Address : count[k][x] \in Nat
    BY DEF TypeOK
  <2>2. CASE UNCHANGED count
    BY <2>1, <2>2
  <2>3. ASSUME NEW l, NEW as, Forgive(l, as)
        PROVE  \A k \in Key, x \in Address : count'[k][x] <= count[k][x]
    BY <2>3, ForgiveIs
  <2> QED
    BY <1>2, <2>1, <2>2, <2>3
<1>4. \A k \in Key : block'[k] => block[k]
  BY <1>2 DEF TypeOK
<1>5. \A q \in Request : pc'[q] = "counted" =>
        pc[q] = "counted" /\ seen'[q] = seen[q] /\ KeyOf(q) \in Key /\ call[q].addr \in Address
  BY <1>1, CallIs
<1> QED
  BY <1>1, <1>3, <1>4, <1>5, CountsFrame

-----------------------------------------------------------------------------
(* Failures of requests that are alone on their key *)

LEMMA LiftStays ==
  ASSUME NEW k, LiftedByCode(k),
         \A q \in Request : pc[q] = "done" =>
           pc'[q] = "done" /\ got'[q] = got[q] /\ call'[q] = call[q]
  PROVE  LiftedByCode(k)'
BY DEF LiftedByCode, At

LEMMA OneByOneFrame ==
  ASSUME OneByOne, mixed \subseteq mixed', UNCHANGED call,
         \A q \in Request : pc'[q] \notin {"idle", "done"} => pc[q] \notin {"idle", "done"}
  PROVE  OneByOne'
BY DEF OneByOne, Active, KeyOf

(* Nothing about the counters changes.                                     *)
LEMMA LoneFrame ==
  ASSUME TypeOK, InPlace, LoneRequests, UNCHANGED <<count, block, mixed, fail, call>>,
         \A q \in Request :
           /\ pc'[q] \notin {"idle", "done"} => pc[q] \notin {"idle", "done"}
           /\ pc[q] = "done" => pc'[q] = "done" /\ got'[q] = got[q]
           /\ pc'[q] = "counted" => \/ pc[q] = "counted" /\ seen'[q] = seen[q]
                                    \/ seen'[q] = count[KeyOf(q)][call[q].addr]
           /\ pc'[q] \in {"password", "welcome"} /\ call[q].kind = "password" =>
                pc[q] \in {"password", "welcome"} \/ ~block[KeyOf(q)]
  PROVE  LoneRequests'
<1>1. OneByOne'
  BY OneByOneFrame DEF LoneRequests
<1>2. UpToDate'
  BY DEF LoneRequests, UpToDate, At, Active, KeyOf
<1>3. LoneFailuresAreCounted'
  <2>1. \A k, x : Failed(k, x, {"counts"})' = Failed(k, x, {"counts"})
    BY DEF Failed, KeyOf
  <2>2. \A k : LiftedByCode(k) => LiftedByCode(k)'
    BY LiftStays
  <2> QED
    BY <2>1, <2>2 DEF LoneRequests, LoneFailuresAreCounted
<1> QED
  BY <1>1, <1>2, <1>3 DEF LoneRequests

LEMMA BeginLone ==
  ASSUME TypeOK, InPlace, LoneRequests, NEW r \in Request, Begin(r)
  PROVE  LoneRequests'
<1>1. /\ TypeOK' /\ Keeps(r) /\ pc'[r] \in {"token", "captcha", "gate"} /\ pc[r] = "idle"
      /\ fail[r] = "none" /\ UNCHANGED <<count, block, seen, got, fail>>
      /\ mixed' = LET k == <<Class(call'[r].kind), call'[r].target>> IN Disturbs(k, r)
  BY BeginTyped DEF redis
<1>2. \A q \in Request \ {r} : pc'[q] = pc[q] /\ call'[q] = call[q]
  BY <1>1 DEF Keeps
<1>3. mixed \subseteq mixed' /\ \A q \in Request \ {r} : Active(q) /\ KeyOf(q) = KeyOf(r)' =>
                                                    KeyOf(r)' \in mixed'
  BY <1>1 DEF Disturbs, KeyOf
<1>4. OneByOne'
  <2> SUFFICES ASSUME NEW k \in Key, k \notin mixed', NEW q \in Request, NEW t \in Request,
                      Active(q)', Active(t)', KeyOf(q)' = k, KeyOf(t)' = k
               PROVE  q = t
    BY DEF OneByOne
  <2>1. CASE q # r /\ t # r
    BY <1>2, <1>3, <2>1 DEF LoneRequests, OneByOne, Active, KeyOf
  <2>2. CASE q = r \/ t = r
    BY <1>2, <1>3, <2>2 DEF Active, KeyOf
  <2> QED
    BY <2>1, <2>2
<1>5. UpToDate'
  BY <1>1, <1>2, <1>3 DEF LoneRequests, UpToDate, At, Active, KeyOf
<1>6. LoneFailuresAreCounted'
  <2>1. \A k, x : Failed(k, x, {"counts"})' = Failed(k, x, {"counts"})
    BY <1>1, <1>2 DEF Failed, KeyOf
  <2>2. \A k : LiftedByCode(k) => LiftedByCode(k)'
    BY <1>1, <1>2, LiftStays
  <2> QED
    BY <1>1, <1>3, <2>1, <2>2 DEF LoneRequests, LoneFailuresAreCounted
<1> QED
  BY <1>4, <1>5, <1>6 DEF LoneRequests

(* The one request at work on a key knows the counter when it writes it.   *)
LEMMA WriteCountLone ==
  ASSUME TypeOK, InPlace, LoneRequests, NEW r \in Request, WriteCount(r)
  PROVE  LoneRequests'
<1>0. Keeps(r) /\ TypeOK'
  BY ClearTyped
<1>1. PICK K \in Key : K = KeyOf(r)
  BY CallIs DEF WriteCount, At
<1>2. PICK A \in Address : A = call[r].addr
  BY CallIs DEF WriteCount, At
<1>3. /\ pc[r] = "counted" /\ pc'[r] \in {"account", "ip"} /\ UNCHANGED <<call, mixed, got>>
      /\ seen[r] \in Nat
  BY DEF WriteCount, At, Goto, TypeOK
<1>4. ASSUME NEW k \in Key, NEW x \in Address
      PROVE  /\ k = K /\ x = A => count'[k][x] = seen[r] + 1
             /\ k # K \/ x # A => count'[k][x] = count[k][x]
  BY <1>1, <1>2 DEF WriteCount, TypeOK
<1>5. ASSUME NEW k \in Key
      PROVE  block'[k] <=> block[k] \/ (k = K /\ seen[r] + 1 >= Limit)
  BY <1>1 DEF WriteCount, TypeOK
<1>6. \A q \in Request \ {r} : pc'[q] = pc[q] /\ seen'[q] = seen[q] /\ got'[q] = got[q]
  BY <1>0 DEF Keeps
<1>7. OneByOne'
  BY <1>3, <1>6, OneByOneFrame DEF LoneRequests
<1>8. UpToDate'
  <2> SUFFICES ASSUME NEW q \in Request, Active(q)', KeyOf(q) \notin mixed
               PROVE  /\ pc'[q] = "counted" => seen'[q] = count'[KeyOf(q)][call[q].addr]
                      /\ pc'[q] \in {"password", "welcome"} /\ call[q].kind = "password" =>
                           ~block'[KeyOf(q)]
    BY <1>3 DEF UpToDate, KeyOf, At
  <2>1. CASE q = r
    BY <1>3, <2>1
  <2>2. CASE q # r
    <3>1. Active(q) /\ Active(r) /\ KeyOf(q) \in Key /\ call[q].addr \in Address
      BY <1>3, <1>6, <2>2, CallIs DEF Active
    <3>2. KeyOf(q) # K
      BY <1>1, <2>2, <3>1 DEF LoneRequests, OneByOne
    <3>3. /\ count'[KeyOf(q)][call[q].addr] = count[KeyOf(q)][call[q].addr]
          /\ block'[KeyOf(q)] <=> block[KeyOf(q)]
      BY <1>4, <1>5, <3>1, <3>2
    <3> QED
      BY <1>6, <2>2, <3>1, <3>3 DEF LoneRequests, UpToDate, At
  <2> QED
    BY <2>1, <2>2
<1>9. LoneFailuresAreCounted'
  <2> SUFFICES ASSUME NEW k \in Key, k \notin mixed, NEW x \in Address
               PROVE  /\ count'[k][x] = Cardinality(Failed(k, x, {"counts"})')
                      /\ Cardinality(Failed(k, x, {"counts"})') >= Limit =>
                           block'[k] \/ LiftedByCode(k)'
    BY <1>3 DEF LoneFailuresAreCounted
  <2>1. /\ count[k][x] = Cardinality(Failed(k, x, {"counts"}))
        /\ Cardinality(Failed(k, x, {"counts"})) >= Limit => block[k] \/ LiftedByCode(k)
    BY DEF LoneRequests, LoneFailuresAreCounted
  <2>2. CASE k = K /\ x = A
    <3>1. seen[r] = count[k][x]
      BY <1>1, <1>2, <1>3, <2>2 DEF LoneRequests, UpToDate, Active, At
    <3>2. Cardinality(Failed(k, x, {"counts"})') = Cardinality(Failed(k, x, {"counts"})) + 1
      BY <1>1, <1>2, <2>2, WriteCountFails
    <3> QED
      BY <1>4, <1>5, <2>1, <2>2, <3>1, <3>2
  <2>3. CASE ~(k = K /\ x = A)
    <3>1. Failed(k, x, {"counts"})' = Failed(k, x, {"counts"})
      BY <1>1, <1>2, <2>3, WriteCountFails
    <3>2. LiftedByCode(k) => LiftedByCode(k)'
      BY <1>3, <1>6, LiftStays
    <3> QED
      BY <1>4, <1>5, <2>1, <2>3, <3>1, <3>2
  <2> QED
    BY <2>2, <2>3
<1> QED
  BY <1>7, <1>8, <1>9 DEF LoneRequests

(* Failures are forgiven together with their counters; who else is at work *)
(* on the key makes it mixed.                                              *)
LEMMA ForgiveLone ==
  ASSUME TypeOK, InPlace, LoneRequests, NEW k, NEW as, Forgive(k, as), UNCHANGED call,
         \A l \in Key : block'[l] => block[l],
         \A l \in Key \ {k} : block'[l] = block[l],
         mixed \subseteq mixed',
         \A q \in Request :
           /\ pc'[q] \notin {"idle", "done"} =>
                pc'[q] = pc[q] /\ seen'[q] = seen[q] /\ (KeyOf(q) = k => k \in mixed')
           /\ pc[q] = "done" => pc'[q] = "done" /\ got'[q] = got[q],
         k \in Key \ mixed' => \A x \in Address \ as :
           Cardinality(Failed(k, x, {"counts"})) >= Limit => block'[k] \/ LiftedByCode(k)'
  PROVE  LoneRequests'
<1>0. /\ \A l \in Key, x \in Address :
           /\ l = k /\ x \in as => count'[l][x] = 0
           /\ l # k \/ x \notin as => count'[l][x] = count[l][x]
           /\ count[l][x] \in Nat /\ count'[l][x] <= count[l][x]
      /\ \A q \in Request : fail'[q] = IF fail[q] = "counts" /\ KeyOf(q) = k /\ call[q].addr \in as
                                       THEN "forgiven" ELSE fail[q]
  BY ONLY TypeOK, Forgive(k, as), ForgiveIs
<1>1. OneByOne'
  BY OneByOneFrame DEF LoneRequests
<1>2. UpToDate'
  <2> SUFFICES ASSUME NEW q \in Request, Active(q)', KeyOf(q) \notin mixed'
               PROVE  /\ pc'[q] = "counted" => seen'[q] = count'[KeyOf(q)][call[q].addr]
                      /\ pc'[q] \in {"password", "welcome"} /\ call[q].kind = "password" =>
                           ~block'[KeyOf(q)]
    BY DEF UpToDate, KeyOf, At
  <2>1. /\ Active(q) /\ pc'[q] = pc[q] /\ seen'[q] = seen[q] /\ KeyOf(q) # k
        /\ KeyOf(q) \in Key /\ call[q].addr \in Address /\ KeyOf(q) \notin mixed
    BY CallIs DEF Active
  <2>2. count'[KeyOf(q)][call[q].addr] = count[KeyOf(q)][call[q].addr]
    BY <1>0, <2>1
  <2> QED
    BY <2>1, <2>2 DEF LoneRequests, UpToDate, At
<1>3. LoneFailuresAreCounted'
  <2> SUFFICES ASSUME NEW l \in Key, l \notin mixed', NEW x \in Address
               PROVE  /\ count'[l][x] = Cardinality(Failed(l, x, {"counts"})')
                      /\ Cardinality(Failed(l, x, {"counts"})') >= Limit =>
                           block'[l] \/ LiftedByCode(l)'
    BY DEF LoneFailuresAreCounted
  <2>1. /\ count[l][x] = Cardinality(Failed(l, x, {"counts"}))
        /\ Cardinality(Failed(l, x, {"counts"})) >= Limit => block[l] \/ LiftedByCode(l)
    BY DEF LoneRequests, LoneFailuresAreCounted
  <2>2. \A q \in Request : fail'[q] = "counts" <=>
                             fail[q] = "counts" /\ ~(KeyOf(q) = k /\ call[q].addr \in as)
    BY <1>0
  <2>3. CASE l = k /\ x \in as
    <3>1. Failed(l, x, {"counts"})' = {}
      BY <2>2, <2>3 DEF Failed, KeyOf
    <3>2. Cardinality({}) = 0 /\ ~(0 >= Limit)
      BY FS_EmptySet, SignInAssumption
    <3>3. count'[l][x] = 0
      BY <1>0, <2>3
    <3> QED
      BY <3>1, <3>2, <3>3
  <2>4. CASE ~(l = k /\ x \in as)
    <3>1. Failed(l, x, {"counts"})' = Failed(l, x, {"counts"})
      BY <2>2, <2>4 DEF Failed, KeyOf
    <3>2. count'[l][x] = count[l][x]
      BY <1>0, <2>4
    <3>3. LiftedByCode(l) => LiftedByCode(l)'
      BY LiftStays
    <3> QED
      BY <2>1, <2>4, <3>1, <3>2, <3>3
  <2> QED
    BY <2>3, <2>4
<1> QED
  BY <1>1, <1>2, <1>3 DEF LoneRequests

(* A login that succeeds lifts the block of the user.  One by password was *)
(* let in by the gate, so that there was none.                             *)
LEMMA WelcomeLone ==
  ASSUME TypeOK, InPlace, LoneRequests, NEW r \in Request, Welcome(r)
  PROVE  LoneRequests'
<1>0. /\ Keeps(r) /\ UNCHANGED <<call, seen>> /\ pc[r] = "welcome" /\ pc'[r] = "done"
      /\ call[r].kind = "password" \/ (call[r].kind = "login" /\ got[r] # None)
      /\ got'[r] = got[r] \/ got'[r] = Captcha
  <2>1. Keeps(r)
    BY CommitTyped
  <2>2. UNCHANGED <<call, seen>> /\ pc[r] = "welcome" /\ pc'[r] = "done"
    BY DEF Welcome, Commit, Goto, At, TypeOK
  <2>3. call[r].kind = "password" \/ (call[r].kind = "login" /\ got[r] # None)
    BY <2>2 DEF InPlace, Suits
  <2>4. got'[r] = got[r] \/ got'[r] = Captcha
    BY DEF Welcome, Commit, TypeOK
  <2> QED
    BY <2>1, <2>2, <2>3, <2>4
<1>1. PICK u \in Users(r) :
        /\ Forgive(<<"login", u>>, {call[r].addr})
        /\ block' = [block EXCEPT ![<<"login", u>>] = FALSE]
        /\ mixed' = Disturbs(<<"login", u>>, r)
  BY DEF Welcome
<1> DEFINE k == <<"login", u>>
<1>2. /\ \A l \in Key : block'[l] => block[l]
      /\ \A l \in Key \ {k} : block'[l] = block[l]
  BY <1>1 DEF TypeOK
<1>3. mixed \subseteq mixed' /\ \A q \in Request \ {r} : Active(q) /\ KeyOf(q) = k => k \in mixed'
  BY <1>1 DEF Disturbs
<1>4. \A q \in Request \ {r} : pc'[q] = pc[q] /\ seen'[q] = seen[q] /\ got'[q] = got[q]
  BY <1>0 DEF Keeps
<1>5. \A q \in Request :
        /\ pc'[q] \notin {"idle", "done"} =>
             pc'[q] = pc[q] /\ seen'[q] = seen[q] /\ (KeyOf(q) = k => k \in mixed')
        /\ pc[q] = "done" => pc'[q] = "done" /\ got'[q] = got[q]
  BY <1>0, <1>3, <1>4 DEF Active
<1>6. ASSUME k \in Key \ mixed', NEW x \in Address, Cardinality(Failed(k, x, {"counts"})) >= Limit
      PROVE  LiftedByCode(k)'
  <2>1. CASE call[r].kind = "password"
    <3>1. KeyOf(r) = k
      BY <2>1 DEF Users, KeyOf, Class
    <3>2. ~block[k]
      BY <1>0, <1>3, <1>6, <2>1, <3>1 DEF LoneRequests, UpToDate, Active
    <3>3. LiftedByCode(k)
      BY <1>3, <1>6, <3>2 DEF LoneRequests, LoneFailuresAreCounted
    <3> HIDE DEF k
    <3> QED
      BY <1>0, <1>5, <3>3, LiftStays
  <2>2. CASE call[r].kind = "login" /\ got[r] # None
    <3>1. got'[r] # None
      BY <1>0, <2>2, NoneAssumption DEF Passes
    <3>2. k[1] = "login"
      OBVIOUS
    <3> QED
      BY <1>0, <2>2, <3>1, <3>2 DEF LiftedByCode, At
  <2> QED
    BY <1>0, <2>1, <2>2
<1>7. k \in Key \ mixed' => \A x \in Address \ {call[r].addr} :
        Cardinality(Failed(k, x, {"counts"})) >= Limit => block'[k] \/ LiftedByCode(k)'
  BY <1>6
<1> HIDE DEF k
<1>8. Forgive(k, {call[r].addr})
  BY <1>1 DEF k
<1>9. PICK as : as = {call[r].addr} /\ Forgive(k, as)
  BY <1>8
<1> QED
  BY <1>0, <1>2, <1>3, <1>5, <1>7, <1>9, ForgiveLone

LEMMA StepLone ==
  ASSUME TypeOK, InPlace, LoneRequests, NEW r \in Request, Step(r)
  PROVE  LoneRequests'
<1>0. TypeOK' /\ Keeps(r)
  BY Typed
<1>1. ASSUME UNCHANGED <<count, block, mixed, fail, call>>, pc[r] \notin {"idle", "done"},
             pc'[r] = "counted" => seen'[r] = count[KeyOf(r)][call[r].addr],
             pc'[r] \in {"password", "welcome"} /\ call[r].kind = "password" =>
               pc[r] \in {"password", "welcome"} \/ ~block[KeyOf(r)]
      PROVE  LoneRequests'
  <2>1. \A q \in Request \ {r} : pc'[q] = pc[q] /\ seen'[q] = seen[q] /\ got'[q] = got[q]
    BY <1>0 DEF Keeps
  <2>2. \A q \in Request :
          /\ pc'[q] \notin {"idle", "done"} => pc[q] \notin {"idle", "done"}
          /\ pc[q] = "done" => pc'[q] = "done" /\ got'[q] = got[q]
          /\ pc'[q] = "counted" => \/ pc[q] = "counted" /\ seen'[q] = seen[q]
                                   \/ seen'[q] = count[KeyOf(q)][call[q].addr]
          /\ pc'[q] \in {"password", "welcome"} /\ call[q].kind = "password" =>
               pc[q] \in {"password", "welcome"} \/ ~block[KeyOf(q)]
    BY <1>1, <2>1
  <2> QED
    BY <1>1, <2>2, LoneFrame
<1>2. CASE ReadToken(r) \/ TakeToken(r) \/ ReadCaptcha(r) \/ TakeCaptcha(r)
  <2>1. UNCHANGED <<count, block, mixed, fail, call>> /\ pc[r] \notin {"idle", "done"}
    BY <1>2 DEF ReadToken, TakeToken, ReadCaptcha, TakeCaptcha, At, redis, past
  <2>2. pc'[r] \notin {"counted", "password", "welcome"}
    BY <1>2 DEF ReadToken, TakeToken, ReadCaptcha, TakeCaptcha, Goto, TypeOK
  <2> QED
    BY <1>1, <2>1, <2>2
<1>3. CASE \/ CountAddress(r) \/ NobodyToWelcome(r) \/ CheckSend(r) \/ SendCode(r)
           \/ UnknownToken(r) \/ ReadCode(r) \/ ClearCode(r) \/ Reset(r)
  <2>1. UNCHANGED <<count, block, mixed, fail, call>> /\ pc[r] \notin {"idle", "done"}
    BY <1>3 DEF CountAddress, NobodyToWelcome, CheckSend, SendCode, UnknownToken, ReadCode,
                ClearCode, Reset, At, redis, past
  <2>2. pc'[r] \notin {"counted", "password", "welcome"}
    BY <1>3 DEF CountAddress, NobodyToWelcome, CheckSend, SendCode, UnknownToken, ReadCode,
                ClearCode, Reset, Commit, Rollback, Goto, TypeOK
  <2> QED
    BY <1>1, <2>1, <2>2
<1>4. CASE \/ ReadHolder(r) \/ Bind(r) \/ CommitBind(r) \/ Lock(r) \/ Exists(r)
           \/ Insert(r) \/ CommitRegister(r)
  <2>1. UNCHANGED <<count, block, mixed, fail, call>> /\ pc[r] \notin {"idle", "done"}
    BY <1>4 DEF ReadHolder, Bind, CommitBind, Lock, Exists, Insert, CommitRegister, At, redis, past
  <2>2. pc'[r] \notin {"counted", "password", "welcome"}
    BY <1>4 DEF ReadHolder, Bind, CommitBind, Lock, Exists, Insert, CommitRegister,
                Commit, Rollback, Goto, TypeOK
  <2> QED
    BY <1>1, <2>1, <2>2
<1>5. CASE Gate(r)
  <2>1. UNCHANGED <<count, block, mixed, fail, call>> /\ pc[r] \in {"gate", "gate_again"}
    BY <1>5 DEF Gate, redis, past
  <2>2. CASE addrBlock[call[r].addr] \/ block[KeyOf(r)]
    <3>1. pc'[r] \in {"ip", "done"}
      BY <1>5, <2>2 DEF Gate, Goto, TypeOK
    <3> QED
      BY <1>1, <2>1, <3>1
  <2>3. CASE ~block[KeyOf(r)]
    <3>1. pc'[r] # "counted"
      BY <1>5 DEF Gate, Goto, TypeOK
    <3> QED
      BY <1>1, <2>1, <2>3, <3>1
  <2> QED
    BY <2>2, <2>3
<1>6. CASE ReadCount(r)
  <2>1. UNCHANGED <<count, block, mixed, fail, call>> /\ pc[r] \notin {"idle", "done"}
    BY <1>6 DEF ReadCount, At, redis, past
  <2>2. pc'[r] = "counted" /\ seen'[r] = count[KeyOf(r)][call[r].addr]
    BY <1>6 DEF ReadCount, Goto, TypeOK
  <2> QED
    BY <1>1, <2>1, <2>2
<1>7. CASE Password(r)
  <2>1. UNCHANGED <<count, block, mixed, fail, call>> /\ pc[r] = "password"
    BY <1>7 DEF Password, At, redis, past
  <2>2. pc'[r] # "counted"
    BY <1>7 DEF Password, Goto, TypeOK
  <2> QED
    BY <1>1, <2>1, <2>2
<1> QED
  BY <1>2, <1>3, <1>4, <1>5, <1>6, <1>7, BeginLone, WriteCountLone, WelcomeLone DEF Step

LEMMA AmbientLone ==
  ASSUME TypeOK, InPlace, LoneRequests, Ambient
  PROVE  LoneRequests'
<1>1. UNCHANGED <<pc, call, seen, got>>
  BY AmbientTyped
<1>2. ASSUME NEW k, mixed' = Disturbs(k, None)
      PROVE  mixed \subseteq mixed' /\ \A q \in Request : Active(q) /\ KeyOf(q) = k => k \in mixed'
  BY <1>2, SignInAssumption DEF Disturbs
<1>3. ASSUME NEW k \in Key, NEW y \in Address, ExpireCount(k, y)
      PROVE  LoneRequests'
  <2>1. Forgive(k, {y}) /\ mixed' = Disturbs(k, None) /\ UNCHANGED block
    BY <1>3 DEF ExpireCount
  <2>2. \A q \in Request :
          /\ pc'[q] \notin {"idle", "done"} =>
               pc'[q] = pc[q] /\ seen'[q] = seen[q] /\ (KeyOf(q) = k => k \in mixed')
          /\ pc[q] = "done" => pc'[q] = "done" /\ got'[q] = got[q]
    BY <1>1, <1>2, <2>1 DEF Active
  <2>3. k \in Key \ mixed' => \A x \in Address \ {y} :
          Cardinality(Failed(k, x, {"counts"})) >= Limit => block'[k] \/ LiftedByCode(k)'
    <3>1. LiftedByCode(k) => LiftedByCode(k)'
      BY <1>1, LiftStays
    <3>2. k \in Key \ mixed' => k \notin mixed
      BY <1>2, <2>1
    <3> QED
      BY <2>1, <3>1, <3>2 DEF LoneRequests, LoneFailuresAreCounted
  <2>4. PICK as : as = {y} /\ Forgive(k, as)
    BY <2>1
  <2>5. mixed \subseteq mixed'
    BY <1>2, <2>1
  <2> QED
    BY <1>1, <2>1, <2>2, <2>3, <2>4, <2>5, ForgiveLone
<1>4. ASSUME NEW a \in Account, Unblock(a)
      PROVE  LoneRequests'
  <2>1. PICK k : /\ Forgive(k, Address) /\ mixed' = Disturbs(k, None)
                 /\ block' = [block EXCEPT ![k] = FALSE]
    BY <1>4 DEF Unblock
  <2>2. \A q \in Request :
          /\ pc'[q] \notin {"idle", "done"} =>
               pc'[q] = pc[q] /\ seen'[q] = seen[q] /\ (KeyOf(q) = k => k \in mixed')
          /\ pc[q] = "done" => pc'[q] = "done" /\ got'[q] = got[q]
    BY <1>1, <1>2, <2>1 DEF Active
  <2>3. /\ \A l \in Key : block'[l] => block[l]
        /\ \A l \in Key \ {k} : block'[l] = block[l]
    BY <2>1 DEF TypeOK
  <2>4. mixed \subseteq mixed'
    BY <1>2, <2>1
  <2>5. k \in Key \ mixed' => \A x \in Address \ Address :
          Cardinality(Failed(k, x, {"counts"})) >= Limit => block'[k] \/ LiftedByCode(k)'
    OBVIOUS
  <2> QED
    BY <1>1, <2>1, <2>2, <2>3, <2>4, <2>5, ForgiveLone
<1>5. ASSUME NEW k \in Key, ExpireBlock(k)
      PROVE  LoneRequests'
  <2>1. /\ UNCHANGED <<count, mixed, fail, call>>
        /\ \A l \in Key : block'[l] <=> block[l] /\ l # k
        /\ \A x \in Address : count[k][x] < Limit
    BY <1>1, <1>5 DEF ExpireBlock, TypeOK
  <2>2. OneByOne'
    BY <1>1, <2>1, OneByOneFrame DEF LoneRequests
  <2>3. UpToDate'
    <3>1. \A q \in Request : Active(q) => KeyOf(q) \in Key
      BY CallIs DEF Active
    <3> QED
      BY <1>1, <2>1, <3>1 DEF LoneRequests, UpToDate, At, Active, KeyOf
  <2>4. LoneFailuresAreCounted'
    <3> SUFFICES ASSUME NEW l \in Key, l \notin mixed, NEW x \in Address
                 PROVE  /\ count[l][x] = Cardinality(Failed(l, x, {"counts"})')
                        /\ Cardinality(Failed(l, x, {"counts"})') >= Limit =>
                             block'[l] \/ LiftedByCode(l)'
      BY <2>1 DEF LoneFailuresAreCounted
    <3>1. Failed(l, x, {"counts"})' = Failed(l, x, {"counts"})
      BY <2>1 DEF Failed, KeyOf
    <3>2. LiftedByCode(l) => LiftedByCode(l)'
      BY <1>1, LiftStays
    <3>3. /\ count[l][x] = Cardinality(Failed(l, x, {"counts"}))
          /\ Cardinality(Failed(l, x, {"counts"})) >= Limit => block[l] \/ LiftedByCode(l)
      BY DEF LoneRequests, LoneFailuresAreCounted
    <3>4. l = k => ~(count[l][x] >= Limit)
      <4>1. count[l][x] \in Nat
        BY DEF TypeOK
      <4> QED
        BY <2>1, <4>1, SignInAssumption
    <3> QED
      BY <2>1, <3>1, <3>2, <3>3, <3>4
  <2> QED
    BY <2>2, <2>3, <2>4 DEF LoneRequests
<1>6. CASE UNCHANGED <<count, block, mixed, fail, call>>
  BY <1>1, <1>6, LoneFrame
<1> QED
  BY <1>3, <1>4, <1>5, <1>6 DEF Ambient, Lapse, MakeToken, MakeCaptcha, FreeAddress, ExpireRate,
     ExpireCode, ExpireToken, ExpireCaptcha, redis, past

-----------------------------------------------------------------------------
(* The invariant and what follows from it *)

LEMMA AtMostOne ==
  ASSUME NEW S, IsFiniteSet(S)
  PROVE  Cardinality(S) <= 1 <=> SamePerson(S)
<1>1. Cardinality(S) \in Nat
  BY FS_CardinalityType
<1>2. ASSUME Cardinality(S) <= 1 PROVE SamePerson(S)
  <2>1. Cardinality(S) = 0 \/ Cardinality(S) = 1
    BY <1>1, <1>2
  <2>2. S = {} \/ \E x : S = {x}
    BY <2>1, FS_EmptySet, FS_Singleton
  <2> QED
    BY <2>2 DEF SamePerson
<1>3. ASSUME SamePerson(S) PROVE Cardinality(S) <= 1
  <2>1. S = {} \/ \E x : S = {x}
    BY <1>3 DEF SamePerson
  <2>2. Cardinality(S) = 0 \/ Cardinality(S) = 1
    BY <2>1, FS_EmptySet, FS_Singleton
  <2> QED
    BY <2>2
<1> QED
  BY <1>2, <1>3

LEMMA HoldersFinite ==
  ASSUME NEW c
  PROVE  IsFiniteSet(Holders(c))
BY FS_Subset, SignInAssumption DEF Holders

LEMMA InitHolds == Init => SignInInv
<1> SUFFICES ASSUME Init PROVE SignInInv
  OBVIOUS
<1>1. /\ pc = [r \in Request |-> "idle"] /\ call = [r \in Request |-> None]
      /\ got = [r \in Request |-> None] /\ fail = [r \in Request |-> "none"]
      /\ seen = [r \in Request |-> 0] /\ rows = [r \in Request |-> {}]
      /\ count = [k \in Key |-> [x \in Address |-> 0]] /\ block = [k \in Key |-> FALSE]
  BY DEF Init
<1>2. PICK out \in Contact \cup {None} :
        /\ code = [c \in Contact |-> IF c = out THEN 1 ELSE 0]
        /\ sent = IF out = None THEN 0 ELSE 1
  BY DEF Init
<1>3. None \notin Contact
  BY SignInAssumption DEF Name
<1>4. sent \in Nat /\ code \in [Contact -> Nat] /\ \A c \in Contact : code[c] <= sent
  BY <1>2, <1>3
<1>5. TypeOK
  <2>1. name \in [Account -> Name \cup {None}] /\ contact \in [Account -> Contact \cup {None}]
    BY DEF Init, Name
  <2>2. 0 \in Nat
    OBVIOUS
  <2> QED
    BY <1>1, <1>4, <2>1, <2>2 DEF TypeOK, Place
<1>6. InPlace
  BY <1>1 DEF InPlace, Suits
<1>7. PassesAreSpent
  <2>1. \A q \in Request, p \in Scarce : ~Uses(q, p)
    <3>1. Scarce \subseteq Passes
      BY SignInAssumption DEF Scarce, Passes
    <3> QED
      BY <1>1, <3>1, NoneAssumption DEF Uses, At, Active
  <2>2. UsedOnce
    BY <2>1 DEF UsedOnce
  <2>3. UsedUp
    BY <1>1, NoneAssumption DEF UsedUp, Passes
  <2>4. CodesApart
    BY <1>1, <1>2, <1>4 DEF CodesApart, At
  <2> QED
    BY <2>2, <2>3, <2>4 DEF PassesAreSpent
<1>8. ContactsAreHeld
  <2>1. \A c \in Contact : SamePerson(Holders(c))
    BY AtMostOne, HoldersFinite DEF Init
  <2>2. \A c : Looked(c) = {}
    BY <1>1 DEF Looked
  <2> QED
    BY <1>1, <2>1, <2>2 DEF ContactsAreHeld, OneHolder, NewAccounts, At
<1>9. \A k \in Key, x \in Address : count[k][x] = 0 /\ ~block[k]
  BY <1>1
<1>10. CountsAreEarned
  <2>1. \A k, x : Cardinality(EverFailed(k, x)) \in Nat
    BY FailedFinite DEF EverFailed
  <2>2. \A k \in Key : ~block[k]
    BY <1>1
  <2> QED
    BY <1>1, <1>9, <2>1, <2>2 DEF CountsAreEarned, BlocksAreEarned, At
<1>11. LoneRequests
  <2>1. \A k, x : Failed(k, x, {"counts"}) = {}
    BY <1>1 DEF Failed
  <2>2. Cardinality({}) = 0 /\ ~(0 >= Limit)
    BY FS_EmptySet, SignInAssumption
  <2> QED
    BY <1>1, <1>9, <2>1, <2>2
       DEF LoneRequests, OneByOne, UpToDate, LoneFailuresAreCounted, Active
<1> QED
  BY <1>5, <1>6, <1>7, <1>8, <1>10, <1>11 DEF SignInInv

LEMMA AmbientContacts ==
  ASSUME TypeOK, InPlace, ContactsAreHeld, Ambient
  PROVE  ContactsAreHeld'
<1>1. UNCHANGED <<name, contact, pc, call, rows, crossed>>
  BY AmbientTyped
<1> QED
  BY <1>1, ContactFrame

LEMMA Preserved == SignInInv /\ [Next]_vars => SignInInv'
<1> SUFFICES ASSUME SignInInv, [Next]_vars PROVE SignInInv'
  OBVIOUS
<1>0. TypeOK /\ InPlace /\ PassesAreSpent /\ ContactsAreHeld /\ CountsAreEarned /\ LoneRequests
  BY DEF SignInInv
<1>1. ASSUME NEW r \in Request, Step(r) PROVE SignInInv'
  BY <1>0, <1>1, Typed, StepPasses, StepContacts, StepCounts, StepLone DEF SignInInv
<1>2. CASE Ambient
  BY <1>0, <1>2, AmbientTyped, AmbientPasses, AmbientContacts, AmbientCounts, AmbientLone DEF SignInInv
<1>3. CASE UNCHANGED vars
  <2> USE <1>0, <1>3 DEF vars, redis, table, past
  <2>1. TypeOK' /\ InPlace'
    BY DEF TypeOK, InPlace, Suits
  <2>2. PassesAreSpent'
    BY DEF PassesAreSpent, UsedOnce, UsedUp, CodesApart, Uses, At, Active
  <2>3. ContactsAreHeld'
    BY ContactFrame
  <2>4. BlocksAreEarned' /\ LoneFailuresAreCounted'
    BY DEF CountsAreEarned, LoneRequests, BlocksAreEarned, LoneFailuresAreCounted, LiftedByCode,
           Failed, KeyOf, At
  <2>5. CountsAreEarned'
    BY <2>4 DEF CountsAreEarned, EverFailed, Failed, KeyOf, At
  <2>6. LoneRequests'
    BY LoneFrame
  <2> QED
    BY <2>1, <2>2, <2>3, <2>5, <2>6 DEF SignInInv
<1> QED
  BY <1>1, <1>2, <1>3 DEF Next, Ambient

(* In every reachable state each request is where its call can be, a pass  *)
(* that served is gone, whoever looks at the account of a contact knows    *)
(* its holder, counters are earned, and undisturbed ones exact (the steps  *)
(* of AuthUtil, verify_token_cache, SendAndVerifyCodeUtil and BlockUtil).  *)
THEOREM Invariance == Spec => []SignInInv
<1> QED
  BY InitHolds, Preserved, PTL DEF Spec

(* A token, a captcha or a code lets one request pass, unless two had read *)
(* it before either deleted it (verify_token_cache, CaptchaAuth.valid,     *)
(* SendAndVerifyCodeUtil.verify).                                          *)
THEOREM PassesServe == Spec => []PassesServeOnce
<1>1. SignInInv => PassesServeOnce
  <2> SUFFICES ASSUME SignInInv, NEW p \in Scarce, p \notin shared
               PROVE  Cardinality({r \in Request : got[r] = p}) <= 1
    BY DEF PassesServeOnce, Scarce
  <2>1. IsFiniteSet({r \in Request : got[r] = p})
    BY FS_Subset, SignInAssumption
  <2>2. SamePerson({r \in Request : got[r] = p})
    BY DEF SignInInv, PassesAreSpent, UsedOnce, Uses, SamePerson
  <2> QED
    BY <2>1, <2>2, AtMostOne
<1> QED
  BY <1>1, Invariance, PTL

(* Two accounts have one contact only if a bind overlapped another request *)
(* for it, although the lock of a registration is released before it       *)
(* commits: the proof does not use that lock (RegisterViewAPIView, bind). *)
THEOREM ContactsDiffer == Spec => []ContactsStayDistinct
<1>1. SignInInv => ContactsStayDistinct
  BY AtMostOne, HoldersFinite DEF SignInInv, ContactsAreHeld, OneHolder, ContactsStayDistinct
<1> QED
  BY <1>1, Invariance, PTL

(* Nobody is blocked for failures that did not happen, however the reads   *)
(* and writes of the counters interleave (incr_failed_count).              *)
THEOREM BlocksEarned == Spec => []BlocksAreEarned
<1>1. SignInInv => BlocksAreEarned
  BY DEF SignInInv, CountsAreEarned
<1> QED
  BY <1>1, Invariance, PTL

(* As long as no two requests worked on a key at once, its counters are    *)
(* exact and Limit failures block it, but for a login by code              *)
(* (incr_failed_count, login_success).                                     *)
THEOREM LoneFailures == Spec => []LoneFailuresAreCounted
<1>1. SignInInv => LoneFailuresAreCounted
  BY DEF SignInInv, LoneRequests
<1> QED
  BY <1>1, Invariance, PTL

=============================================================================
