---------------------------- MODULE SettingsSync ----------------------------
(***************************************************************************)
(* The system settings.  They are rows of a table, and attributes of the   *)
(* settings object of every process.  A process reads the table when it    *)
(* starts and then subscribes to a Redis channel; a form that changes a    *)
(* setting publishes the new value when the row is saved, inside the       *)
(* transaction of the request.                                             *)
(***************************************************************************)
EXTENDS FiniteSets, Naturals, Sequences, SequencesExt

CONSTANTS
  Process,      \* web servers and workers
  Name,         \* settings
  Value,        \* their values
  Default,      \* the value of the configuration file
  Garbled,      \* a row encrypted under another SECRET_KEY
  NoRow,        \* no row of the name
  Editor,       \* administrators
  MaxForms,     \* bound: forms sent
  MaxFaults     \* bound: lost connections, crashes, failures

ASSUME SettingsAssumption ==
  /\ Default \in Value
  /\ Garbled # NoRow /\ {Garbled, NoRow} \cap Value = {}
  /\ MaxForms \in Nat /\ MaxFaults \in Nat

VARIABLES
  row,          \* row[n]: the committed row
  editor,       \* editor[e]: a request that saves a form
  state,        \* state[p]: how far a process has come
  memory,       \* memory[p][n]: attribute of the settings object
  queue,        \* queue[p]: published to the process, not handled yet
  missed,       \* history: names whose last change was not told to p
  forms, faults

vars == <<row, editor, state, memory, queue, missed, forms, faults>>

(* The value that a row gives to a process that reads it. *)
Effective(n) == IF row[n] = NoRow THEN Default ELSE row[n]

Idle ==
  [pc |-> "idle", form |-> <<>>, name |-> <<>>, seen |-> NoRow, draft |-> <<>>]

Init ==
  /\ row \in [Name -> {NoRow, Default, Garbled}]
  /\ editor = [e \in Editor |-> Idle]
  /\ state = [p \in Process |-> "down"]
  /\ memory = [p \in Process |-> [n \in Name |-> Default]]
  /\ queue = [p \in Process |-> <<>>]
  /\ missed = [p \in Process |-> {}]
  /\ forms = 0 /\ faults = 0

-----------------------------------------------------------------------------
(* A process *)

(* Rows that an open transaction has written are locked. *)
Locked(n) == \E e \in Editor : n \in DOMAIN editor[e].draft

(* The attributes start from the configuration file. *)
Boot(p) ==
  /\ state[p] = "down"
  /\ state' = [state EXCEPT ![p] = "booted"]
  /\ memory' = [memory EXCEPT ![p] = [n \in Name |-> Default]]
  /\ missed' = [missed EXCEPT ![p] = {}]
  /\ UNCHANGED <<row, editor, queue, forms, faults>>

(* refresh_all_settings: the rows in an order of the database's own; the   *)
(* first that cannot be read ends the loop, and the error is dropped.      *)
Refresh(p) ==
  /\ state[p] = "booted"
  /\ \E read \in SUBSET {n \in Name : row[n] \in Value} :
       /\ \/ read = {n \in Name : row[n] \in Value}
          \/ \E n \in Name : row[n] = Garbled
       /\ memory' = [memory EXCEPT ![p] =
                       [n \in Name |-> IF n \in read THEN row[n] ELSE @[n]]]
       /\ missed' = [missed EXCEPT ![p] =
                       {n \in Name : \/ Locked(n)
                                     \/ row[n] # NoRow /\ n \notin read}]
  /\ state' = [state EXCEPT ![p] = "loaded"]
  /\ UNCHANGED <<row, editor, queue, forms, faults>>

Subscribe(p) ==
  /\ state[p] = "loaded"
  /\ state' = [state EXCEPT ![p] = "listening"]
  /\ UNCHANGED <<row, editor, memory, queue, missed, forms, faults>>

(* The first subscription is not tried again: the thread that sends         *)
(* django_ready ends, and the process hears nothing until it is restarted. *)
SubscribeFails(p) ==
  /\ state[p] = "loaded" /\ faults < MaxFaults
  /\ state' = [state EXCEPT ![p] = "deaf"]
  /\ faults' = faults + 1
  /\ UNCHANGED <<row, editor, memory, queue, missed, forms>>

(* Mutant: every message is handled in a thread of its own. *)
HandleInThreads(p) ==
  /\ state[p] = "listening"
  /\ \E i \in DOMAIN queue[p] :
       /\ memory' = [memory EXCEPT ![p][queue[p][i].name] = queue[p][i].value]
       /\ queue' = [queue EXCEPT ![p] = RemoveAt(@, i)]
  /\ UNCHANGED <<row, editor, state, missed, forms, faults>>

(* One thread takes the messages in the order of the channel. *)
Handle(p) ==
  /\ state[p] = "listening" /\ queue[p] # <<>>
  /\ memory' = [memory EXCEPT ![p][Head(queue[p]).name] = Head(queue[p]).value]
  /\ queue' = [queue EXCEPT ![p] = Tail(@)]
  /\ UNCHANGED <<row, editor, state, missed, forms, faults>>

(* The handler raises: the message is logged and dropped. *)
HandleFails(p) ==
  /\ state[p] = "listening" /\ queue[p] # <<>> /\ faults < MaxFaults
  /\ queue' = [queue EXCEPT ![p] = Tail(@)]
  /\ missed' = [missed EXCEPT ![p] = @ \cup {Head(queue[p]).name}]
  /\ faults' = faults + 1
  /\ UNCHANGED <<row, editor, state, memory, forms>>

(* What was published and not read yet is lost with the connection. *)
LoseConnection(p) ==
  /\ state[p] = "listening" /\ faults < MaxFaults
  /\ state' = [state EXCEPT ![p] = "lost"]
  /\ missed' = [missed EXCEPT ![p] = @ \cup {m.name : m \in ToSet(queue[p])}]
  /\ queue' = [queue EXCEPT ![p] = <<>>]
  /\ faults' = faults + 1
  /\ UNCHANGED <<row, editor, memory, forms>>

(* Mutant: a lost connection is not taken up again. *)
RetryNever(p) == FALSE /\ UNCHANGED vars

(* retry subscribes again until it succeeds, and reads nothing anew. *)
Retry(p) ==
  /\ state[p] = "lost"
  /\ state' = [state EXCEPT ![p] = "listening"]
  /\ UNCHANGED <<row, editor, memory, queue, missed, forms, faults>>

Crash(p) ==
  /\ state[p] # "down" /\ faults < MaxFaults
  /\ state' = [state EXCEPT ![p] = "down"]
  /\ queue' = [queue EXCEPT ![p] = <<>>]
  /\ faults' = faults + 1
  /\ UNCHANGED <<row, editor, memory, missed, forms>>

-----------------------------------------------------------------------------
(* A form: perform_update, item by item, in one transaction *)

Forms == UNION {[names -> Value] : names \in SUBSET Name \ {{}}}

Send(e) ==
  /\ editor[e].pc = "idle" /\ forms < MaxForms
  /\ \E form \in Forms : editor' = [editor EXCEPT ![e] = [Idle EXCEPT
                            !.pc = "item", !.form = form]]
  /\ forms' = forms + 1
  /\ UNCHANGED <<row, state, memory, queue, missed, faults>>

Rest(e) == [n \in DOMAIN editor[e].form \ {editor[e].name} |-> editor[e].form[n]]

(* update_or_create looks for the row and compares.  A row that cannot be  *)
(* decrypted raises, and what the form changed so far is committed.        *)
Look(e) ==
  /\ editor[e].pc = "item"
  /\ \E n \in DOMAIN editor[e].form :
       editor' = [editor EXCEPT
         ![e].name = n, ![e].seen = row[n],
         ![e].pc = IF row[n] = Garbled THEN "commit" ELSE "compare"]
  /\ UNCHANGED <<row, state, memory, queue, missed, forms, faults>>

(* No row is saved, and nothing is published, when the value is the same. *)
Skip(e) ==
  /\ editor[e].pc = "compare"
  /\ editor[e].seen = editor[e].form[editor[e].name]
  /\ editor' = [editor EXCEPT ![e].form = Rest(e),
                              ![e].pc = IF Rest(e) = <<>> THEN "commit" ELSE "item"]
  /\ UNCHANGED <<row, state, memory, queue, missed, forms, faults>>

Differs(e) ==
  /\ editor[e].pc = "compare"
  /\ editor[e].seen # editor[e].form[editor[e].name]

(* An insert fails when another form has inserted the name before. *)
Duplicate(e) == editor[e].seen = NoRow /\ row[editor[e].name] # NoRow

Listening == {p \in Process : state[p] = "listening"}

Publish(n, v) ==
  /\ queue' = [p \in Process |->
                 IF p \in Listening THEN Append(queue[p], [name |-> n, value |-> v])
                 ELSE queue[p]]
  /\ missed' = [p \in Process |-> IF p \in Listening THEN missed[p] \ {n}
                                  ELSE missed[p] \cup {n}]

(* setting.save waits for the lock of the row; post_save publishes. *)
Save(e) ==
  LET n == editor[e].name  v == editor[e].form[n]
  IN  /\ Differs(e) /\ ~Locked(n) /\ ~Duplicate(e)
      /\ Publish(n, v)
      /\ editor' = [editor EXCEPT
           ![e].draft = [m \in DOMAIN @ \cup {n} |-> IF m = n THEN v ELSE @[m]],
           ![e].form = Rest(e), ![e].pc = IF Rest(e) = <<>> THEN "commit" ELSE "item"]
      /\ UNCHANGED <<row, state, memory, forms, faults>>

(* Redis refuses the message: post_save raises after the row was written,  *)
(* the rest of the form is left out, and the transaction commits.          *)
PublishFails(e) ==
  LET n == editor[e].name  v == editor[e].form[n]
  IN  /\ Differs(e) /\ ~Locked(n) /\ ~Duplicate(e) /\ faults < MaxFaults
      /\ missed' = [p \in Process |-> missed[p] \cup {n}]
      /\ editor' = [editor EXCEPT
           ![e].draft = [m \in DOMAIN @ \cup {n} |-> IF m = n THEN v ELSE @[m]],
           ![e].pc = "commit"]
      /\ faults' = faults + 1
      /\ UNCHANGED <<row, state, memory, queue, forms>>

Commit(e) ==
  /\ editor[e].pc = "commit"
  /\ row' = [n \in Name |-> IF n \in DOMAIN editor[e].draft
                            THEN editor[e].draft[n] ELSE row[n]]
  /\ editor' = [editor EXCEPT ![e] = Idle]
  /\ UNCHANGED <<state, memory, queue, missed, forms, faults>>

(* The transaction fails, what it has published stays published. *)
Undo(e) ==
  /\ editor' = [editor EXCEPT ![e] = Idle]
  /\ missed' = [p \in Process |-> missed[p] \cup DOMAIN editor[e].draft]
  /\ UNCHANGED <<row, state, memory, queue, forms>>

(* A duplicate name, or two forms that wait for each other's rows. *)
Reject(e) ==
  /\ Differs(e)
  /\ \/ Duplicate(e) /\ ~Locked(editor[e].name)
     \/ Locked(editor[e].name) /\ editor[e].draft # <<>>
  /\ Undo(e)
  /\ UNCHANGED faults

Abort(e) ==
  /\ editor[e].pc # "idle" /\ faults < MaxFaults
  /\ Undo(e)
  /\ faults' = faults + 1

(* The list of the settings deletes rows, without a signal. *)
Delete(n) ==
  /\ row[n] # NoRow /\ ~Locked(n) /\ forms < MaxForms
  /\ row' = [row EXCEPT ![n] = NoRow]
  /\ missed' = [p \in Process |-> missed[p] \cup {n}]
  /\ forms' = forms + 1
  /\ UNCHANGED <<editor, state, memory, queue, faults>>

-----------------------------------------------------------------------------

Run(p) == Boot(p) \/ Refresh(p) \/ Subscribe(p) \/ Handle(p) \/ Retry(p)

Fill(e) == Look(e) \/ Skip(e) \/ Save(e) \/ Commit(e) \/ Reject(e)

Next ==
  \/ \E p \in Process : \/ Run(p) \/ SubscribeFails(p) \/ HandleFails(p)
                       \/ LoseConnection(p) \/ Crash(p)
  \/ \E e \in Editor : Send(e) \/ Fill(e) \/ PublishFails(e) \/ Abort(e)
  \/ \E n \in Name : Delete(n)

Spec == Init /\ [][Next]_vars

(* The process manager starts processes again, the threads of a process    *)
(* and the requests go on.                                                 *)
FairSpec ==
  /\ Spec
  /\ \A p \in Process : WF_vars(Run(p))
  /\ \A e \in Editor : WF_vars(Fill(e))

-----------------------------------------------------------------------------

Quiet(p, n) ==
  /\ state[p] = "listening" /\ ~Locked(n)
  /\ \A m \in ToSet(queue[p]) : m.name # n

(* A process that has handled what it was sent holds the value of the row, *)
(* unless the last change of the name was never told to it: made between   *)
(* its reading and its subscription, lost with the connection, rolled back *)
(* or deleted.  The next publication of the name repairs it.               *)
StaleOnlyIfMissed ==
  \A p \in Process, n \in Name :
    Quiet(p, n) /\ n \notin missed[p] => memory[p][n] = Effective(n)

(* The invariant that keeps them fresh.  What a process will hold of a name *)
(* once it has handled its queue is m, its memory, or the last of the queue. *)
Settles(q, m, n, v) ==
  \/ m = v /\ \A i \in DOMAIN q : q[i].name # n
  \/ \E i \in DOMAIN q : /\ q[i] = [name |-> n, value |-> v]
                         /\ \A j \in DOMAIN q : j > i => q[j].name # n

Message == [name : Name, value : Value]
Parts == UNION {[names -> Value] : names \in SUBSET Name}

TypeOK ==
  /\ row \in [Name -> Value \cup {NoRow, Garbled}]
  /\ editor \in [Editor -> [pc : {"idle", "item", "compare", "commit"},
                            form : Parts, name : Name \cup {<<>>},
                            seen : Value \cup {NoRow, Garbled}, draft : Parts]]
  /\ state \in [Process -> {"down", "booted", "loaded", "listening", "lost", "deaf"}]
  /\ memory \in [Process -> [Name -> Value]]
  /\ queue \in [Process -> Seq(Message)]
  /\ missed \in [Process -> SUBSET Name]

FormsAreSound ==
  \A e \in Editor :
    /\ editor[e].pc = "idle" => editor[e].draft = <<>>
    /\ editor[e].pc = "compare" => editor[e].name \in DOMAIN editor[e].form

OnlyListenersAreTold == \A p \in Process : state[p] # "listening" => queue[p] = <<>>

BootsFromDefaults ==
  \A p \in Process : state[p] = "booted" => \A n \in Name : memory[p][n] = Default

(* What is written to a name in an open form, or the value of the row.     *)
Latest(n) ==
  {editor[e].draft[n] : e \in {d \in Editor : n \in DOMAIN editor[d].draft}}
  \cup (IF Locked(n) THEN {} ELSE {Effective(n)})

HoldsTheLatest ==
  \A p \in Process, n \in Name : state[p] \notin {"down", "booted"} /\ n \notin missed[p] =>
    \A v \in Latest(n) : Settles(queue[p], memory[p][n], n, v)

SettingsInv ==
  TypeOK /\ FormsAreSound /\ OnlyListenersAreTold /\ BootsFromDefaults /\ HoldsTheLatest

(* A process whose first subscription succeeded comes to listen again and, *)
(* name by name, to the value of the row or to a change it was not told.   *)
EveryProcessConverges ==
  \A p \in Process, n \in Name :
    []<>(\/ state[p] = "deaf"
         \/ /\ state[p] = "listening"
            /\ n \in missed[p] \/ memory[p][n] = Effective(n))

=============================================================================
