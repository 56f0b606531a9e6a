------------------------------ MODULE Services ------------------------------
(***************************************************************************)
(* The processes of an installation: manage.py start, stop and restart of  *)
(* services, each a process with a pid file, and the daemon that a start   *)
(* leaves behind to watch them.  Commands share only the pid files and the *)
(* operating system.  A command is a stack of frames: a SIGTERM pushes the *)
(* handler's frame on whatever the daemon was doing.                       *)
(***************************************************************************)
EXTENDS FiniteSets, Naturals, Sequences, SequencesExt

CONSTANTS
  Service,      \* gunicorn, celery_default, beat, flower
  Command,      \* runs of manage.py
  Lists,        \* bound: the services that a command may be given, in its order
  None,         \* no process, no service, no daemon
  MaxRetry,     \* BaseService.max_retry
  MaxPid,       \* bound: processes; the system does not use a pid again that
                \* a pid file or a command still has
  MaxFaults     \* bound: services that crash, commands that are killed

ASSUME ServicesAssumption ==
  /\ MaxRetry \in Nat /\ MaxPid \in Nat /\ MaxFaults \in Nat
  /\ Lists \subseteq Seq(Service)
  /\ None \notin Service \cup Command \cup (1 .. MaxPid)

VARIABLES
  proc,         \* proc[p]: service and state of process p, and the daemon in
                \* whose process group it is
  pidFile,      \* pidFile[s]: contents of <service>.pid
  daemon,       \* contents of server.pid
  command,      \* command[c]: what it is and what it does
  faults,
  raced,        \* history: services that two commands worked on at once, or
                \* one that died at it
  upset         \* history: a command was killed or died of an exception

vars == <<proc, pidFile, daemon, command, faults, raced, upset>>

Pid == 1 .. MaxPid
Free == [of |-> None, state |-> "free", group |-> None]

(* A process that has ended and was not waited for still answers os.kill(p, 0). *)
Alive(p) == p # None /\ proc[p] # Free
Processes(s) == {p \in Pid : Alive(p) /\ proc[p].of = s}

(* BaseService.is_running: the pid of the file is that of a process. *)
Running(s) == Alive(pidFile[s])

(* What a command goes through, service by service in each phase. *)
Plan(op) ==
  CASE op = "start" -> <<"prepare", "start", "enter", "watch", "stop">>
    [] op = "stop" -> <<"stop">>
    [] op = "stop_all" -> <<"stop", "signal">>
    [] op = "restart" -> <<"stop", "prepare", "start", "enter", "watch", "stop">>

Frame(plan, ss) == [plan |-> plan, todo |-> ss, at |-> "next", s |-> None, p |-> None]

New == [begun |-> FALSE, on |-> <<>>, stack |-> <<>>, daemon |-> FALSE, leave |-> FALSE,
        term |-> FALSE,
        retry |-> [s \in Service |-> 0]]

Init ==
  /\ proc = [p \in Pid |-> Free]
  /\ pidFile = [s \in Service |-> None]
  /\ daemon = None
  /\ command = [c \in Command |-> New]
  /\ faults = 0 /\ raced = {} /\ upset = FALSE

-----------------------------------------------------------------------------
(* Frames *)

Lives(c) == command[c].stack # <<>>
Top(c) == Head(command[c].stack)
Phase(c) == Head(Top(c).plan)
In(c, phase, at) == Lives(c) /\ Phase(c) = phase /\ Top(c).at = at

(* The top frame goes on as f, or gives way to the one below. *)
Go(c, f) == command' = [command EXCEPT ![c].stack = <<f>> \o Tail(@)]
Now(c, s) == Top(c).todo # <<>> /\ s = Head(Top(c).todo)
Done(c, s) == Go(c, [Top(c) EXCEPT !.todo = Tail(@), !.at = "next", !.s = None, !.p = None])
At(c, s, at) == Go(c, [Top(c) EXCEPT !.s = s, !.at = at])

Ended == [New EXCEPT !.begun = TRUE]

(* A command ends; the lock of its daemon context goes with it, unless it  *)
(* is killed.                                                              *)
Ends(c) ==
  /\ command' = [command EXCEPT ![c] = Ended]
  /\ daemon' = IF daemon = c THEN None ELSE daemon

(* The signal handler's exception ends the frames below with it.           *)
Interrupted(c) ==
  {s \in Service : \E i \in 2 .. Len(command[c].stack) : command[c].stack[i].s = s}

(* Other commands at work on a service.                                    *)
Works(d, s) == \E i \in DOMAIN command[d].stack : command[d].stack[i].s = s
Race(c, s) ==
  raced' = IF \E d \in Command \ {c} : Works(d, s) THEN raced \cup {s} ELSE raced

Begin(c) ==
  /\ ~command[c].begun
  /\ \E op \in {"start", "stop", "stop_all", "restart"}, ss \in Lists :
       /\ op = "stop_all" => ToSet(ss) = Service
       /\ command' = [command EXCEPT ![c].begun = TRUE, ![c].on = ss,
                                     ![c].stack = <<Frame(Plan(op), ss)>>]
  /\ UNCHANGED <<proc, pidFile, daemon, faults, raced, upset>>

(* Mutant: the watch returns without cleaning up. *)
TurnLeaves(c) ==
  /\ Lives(c)
  /\ Top(c).todo = <<>> /\ Top(c).at = "next"
  /\ Phase(c) \in {"start", "watch", "stop"}
  /\ LET f == Top(c)
         rest == IF Phase(c) = "watch"
                 THEN IF command[c].leave THEN <<>> ELSE f.plan
                 ELSE Tail(f.plan)
     IN IF rest # <<>>
        THEN /\ Go(c, [f EXCEPT !.plan = rest, !.todo = command[c].on])
             /\ UNCHANGED daemon
        ELSE IF Len(command[c].stack) > 1
        THEN command' = [command EXCEPT ![c].stack = Tail(@)] /\ UNCHANGED daemon
        ELSE Ends(c)
  /\ UNCHANGED <<proc, pidFile, faults, raced, upset>>

(* The next phase, for all services of the command.  The watch goes round  *)
(* until the command is told to leave; the last phase ends the frame.      *)
Turn(c) ==
  /\ Lives(c)
  /\ Top(c).todo = <<>> /\ Top(c).at = "next"
  /\ Phase(c) \in {"start", "watch", "stop"}
  /\ LET f == Top(c)
         again == Phase(c) = "watch" /\ ~command[c].leave
         rest == IF again THEN f.plan ELSE Tail(f.plan)
     IN IF rest # <<>>
        THEN /\ Go(c, [f EXCEPT !.plan = rest, !.todo = command[c].on])
             /\ UNCHANGED daemon
        ELSE IF Len(command[c].stack) > 1
        THEN command' = [command EXCEPT ![c].stack = Tail(@)] /\ UNCHANGED daemon
        ELSE Ends(c)
  /\ UNCHANGED <<proc, pidFile, faults, raced, upset>>

-----------------------------------------------------------------------------
(* Starting and watching *)

(* The port, the database, its tables and the settings are checked before  *)
(* a start; the command exits if they are not ready in time.  A restart    *)
(* has stopped the services by then.                                       *)
Prepare(c) ==
  /\ Lives(c) /\ Phase(c) = "prepare"
  /\ \/ Go(c, [Top(c) EXCEPT !.plan = Tail(@)]) /\ UNCHANGED daemon
     \/ Ends(c)
  /\ UNCHANGED <<proc, pidFile, faults, raced, upset>>

(* BaseService.start leaves a service alone that is running; otherwise it  *)
(* removes the pid file,                                                   *)
StartService(c, s) ==
  /\ \/ In(c, "start", "next") /\ Now(c, s)
     \/ In(c, "watch", "restart") /\ s = Top(c).s
  /\ IF Running(s)
     THEN Done(c, s) /\ UNCHANGED <<pidFile, raced>>
     ELSE /\ At(c, s, "spawn")
          /\ pidFile' = [pidFile EXCEPT ![s] = None]
          /\ Race(c, s)
  /\ UNCHANGED <<proc, daemon, faults, upset>>

Unused ==
  {p \in Pid : /\ proc[p] = Free
               /\ \A s \in Service : pidFile[s] # p
               /\ \A c \in Command : \A i \in DOMAIN command[c].stack :
                    command[c].stack[i].p # p}

(* opens a process, which a daemon has in its process group,               *)
Spawn(c) ==
  /\ Lives(c) /\ Top(c).at = "spawn"
  /\ \E p \in Unused :
       /\ \A q \in Unused : p <= q
       /\ proc' = [proc EXCEPT ![p] =
                     [of |-> Top(c).s, state |-> "up",
                      group |-> IF Phase(c) = "watch" THEN c ELSE None]]
       /\ Go(c, [Top(c) EXCEPT !.at = "write", !.p = p])
  /\ UNCHANGED <<pidFile, daemon, faults, raced, upset>>

(* and writes its pid.                                                     *)
WritePid(c) ==
  /\ Lives(c) /\ Top(c).at = "write"
  /\ pidFile' = [pidFile EXCEPT ![Top(c).s] = Top(c).p]
  /\ Done(c, Top(c).s)
  /\ UNCHANGED <<proc, daemon, faults, raced, upset>>

(* The command becomes the daemon, unless server.pid is there.             *)
Enter(c) ==
  /\ Lives(c) /\ Phase(c) = "enter"
  /\ IF daemon = None
     THEN /\ daemon' = c
          /\ command' = [command EXCEPT ![c].daemon = TRUE,
               ![c].stack = <<[Top(c) EXCEPT !.plan = Tail(@), !.todo = command[c].on]>>]
     ELSE UNCHANGED daemon /\ command' = [command EXCEPT ![c] = Ended]
  /\ UNCHANGED <<proc, pidFile, faults, raced, upset>>

(* Mutant: after the last retry the daemon goes on, and leaves the service down. *)
WatchGivesUp(c, s) ==
  /\ In(c, "watch", "next") /\ Now(c, s)
  /\ IF Running(s) \/ command[c].retry[s] > MaxRetry
     THEN Done(c, s) /\ UNCHANGED raced
     ELSE /\ command' = [command EXCEPT ![c].retry[s] = @ + 1,
               ![c].stack = <<[Top(c) EXCEPT !.s = s, !.at = "restart"]>> \o Tail(@)]
          /\ Race(c, s)
  /\ UNCHANGED <<proc, pidFile, daemon, faults, upset>>

(* A watched service that is not running is restarted, but only so often:  *)
(* then the daemon leaves.  The counter never goes back.                   *)
Watch(c, s) ==
  /\ In(c, "watch", "next") /\ Now(c, s)
  /\ IF Running(s) THEN Done(c, s) /\ UNCHANGED raced
     ELSE IF command[c].retry[s] > MaxRetry
     THEN /\ command' = [command EXCEPT ![c].leave = TRUE,
               ![c].stack = <<[Top(c) EXCEPT !.plan = Tail(@), !.todo = command[c].on]>>
                              \o Tail(@)]
          /\ UNCHANGED raced
     ELSE /\ command' = [command EXCEPT ![c].retry[s] = @ + 1,
               ![c].stack = <<[Top(c) EXCEPT !.s = s, !.at = "restart"]>> \o Tail(@)]
          /\ Race(c, s)
  /\ UNCHANGED <<proc, pidFile, daemon, faults, upset>>

-----------------------------------------------------------------------------
(* Stopping *)

(* BaseService.stop passes over a service that is not running,             *)
StopService(c, s) ==
  /\ In(c, "stop", "next") /\ Now(c, s)
  /\ IF Running(s) THEN At(c, s, "kill") /\ Race(c, s)
     ELSE Done(c, s) /\ UNCHANGED raced
  /\ UNCHANGED <<proc, pidFile, daemon, faults, upset>>

(* and sends SIGTERM to the pid it reads again.  If there is no such       *)
(* process by now the command ends with an exception; if there is no pid   *)
(* file the signal goes to pid 0, the process group of the command itself. *)
Kill(c) ==
  /\ Lives(c) /\ Top(c).at = "kill"
  /\ LET p == pidFile[Top(c).s]
         mine(q) == IF p = None THEN proc[q].group = c ELSE q = p
     IN /\ proc' = [q \in Pid |-> IF Alive(q) /\ mine(q)
                                  THEN [proc[q] EXCEPT !.state = "dying"] ELSE proc[q]]
        /\ \/ /\ Alive(p) \/ (p = None /\ command[c].daemon)
              /\ command' = [command EXCEPT ![c].term = @ \/ p = None,
                     ![c].stack = <<[Top(c) EXCEPT !.at = "wait"]>> \o Tail(@)]
              /\ UNCHANGED <<daemon, raced, upset>>
           \/ /\ ~Alive(p) /\ ~(p = None /\ command[c].daemon)
              /\ Ends(c)
              /\ raced' = raced \cup Interrupted(c)
              /\ upset' = TRUE
  /\ UNCHANGED <<pidFile, faults>>

(* Mutant: the pid file is removed whether or not the process has ended. *)
WaitNot(c) ==
  /\ Lives(c) /\ Top(c).at = "wait"
  /\ At(c, Top(c).s, "unlink")
  /\ UNCHANGED <<proc, pidFile, daemon, faults, raced, upset>>

(* waits a second, gives up if the process is still there,                 *)
Wait(c) ==
  /\ Lives(c) /\ Top(c).at = "wait"
  /\ IF Running(Top(c).s) THEN Done(c, Top(c).s) ELSE At(c, Top(c).s, "unlink")
  /\ UNCHANGED <<proc, pidFile, daemon, faults, raced, upset>>

(* and removes the pid file otherwise.                                     *)
Unlink(c) ==
  /\ Lives(c) /\ Top(c).at = "unlink"
  /\ pidFile' = [pidFile EXCEPT ![Top(c).s] = None]
  /\ Done(c, Top(c).s)
  /\ UNCHANGED <<proc, daemon, faults, raced, upset>>

(* A stop of all services sends SIGTERM to the daemon, if it lives, and    *)
(* removes server.pid.                                                     *)
Signal(c) ==
  /\ Lives(c) /\ Phase(c) = "signal"
  /\ command' = [d \in Command |->
       IF d = c THEN Ended
       ELSE IF d = daemon /\ Lives(d) THEN [command[d] EXCEPT !.term = TRUE]
       ELSE command[d]]
  /\ daemon' = None
  /\ UNCHANGED <<proc, pidFile, faults, raced, upset>>

(* The handler: clean_up tells the watch to leave and stops the services,  *)
(* on top of whatever the daemon was doing.                                *)
Handle(c) ==
  /\ Lives(c) /\ command[c].term
  /\ command' = [command EXCEPT ![c].term = FALSE, ![c].leave = TRUE,
                                ![c].stack = <<Frame(<<"stop">>, command[c].on)>> \o @]
  /\ UNCHANGED <<proc, pidFile, daemon, faults, raced, upset>>

-----------------------------------------------------------------------------
(* The operating system *)

(* A process that got SIGTERM ends and is waited for.                      *)
Exit(p) ==
  /\ proc[p].state = "dying"
  /\ proc' = [proc EXCEPT ![p] = Free]
  /\ UNCHANGED <<pidFile, daemon, command, faults, raced, upset>>

Crash(p) ==
  /\ faults < MaxFaults /\ faults' = faults + 1
  /\ proc[p].state = "up"
  /\ proc' = [proc EXCEPT ![p].state = "dying"]
  /\ UNCHANGED <<pidFile, daemon, command, raced, upset>>

(* SIGKILL, or the end of the terminal: server.pid stays.                  *)
KillCommand(c) ==
  /\ faults < MaxFaults /\ faults' = faults + 1
  /\ Lives(c)
  /\ command' = [command EXCEPT ![c] = Ended]
  /\ upset' = TRUE
  /\ raced' = raced \cup {s \in Service : Works(c, s)}
  /\ UNCHANGED <<proc, pidFile, daemon>>

-----------------------------------------------------------------------------
Step(c) ==
  \/ Handle(c)
  \/ /\ ~command[c].term
     /\ \/ Turn(c) \/ Prepare(c) \/ Spawn(c) \/ WritePid(c) \/ Enter(c)
        \/ Kill(c) \/ Wait(c) \/ Unlink(c) \/ Signal(c)
        \/ \E s \in Service : StartService(c, s) \/ Watch(c, s) \/ StopService(c, s)

Next ==
  \/ \E c \in Command : Begin(c) \/ Step(c) \/ KillCommand(c)
  \/ \E p \in Pid : Exit(p) \/ Crash(p)

Spec == Init /\ [][Next]_vars

(* Commands go on, and a process that got SIGTERM ends. *)
FairSpec ==
  /\ Spec
  /\ \A c \in Command : WF_vars(Step(c))
  /\ \A p \in Pid : WF_vars(Exit(p))

-----------------------------------------------------------------------------
(* A service has one process, unless two commands worked on it at once, a  *)
(* command was killed at that, or the daemon's signal handler died of an   *)
(* exception on top of it (BaseService.start, stop).  The daemon and its   *)
(* handler may work on it at once.                                         *)
OneProcessPerService ==
  \A s \in Service \ raced : Cardinality(Processes(s)) <= 1

(* After a stop of all services that found the daemon no service is left,  *)
(* even if the signal came while the daemon restarted one, unless two      *)
(* commands worked on it at once, another command runs, or one has died    *)
(* (ServicesUtil.stop, clean_up, watch).                                   *)
StopEndsAll ==
  (\E c \in Command : Lives(c) /\ command[c].term)
    ~> \/ \A s \in Service \ raced : Processes(s) = {}
       \/ upset
       \/ \E d \in Command : Lives(d) /\ ~command[d].term /\ ~command[d].leave

(* A watched service that is not running is started again, or the daemon   *)
(* stops watching, though a stop that is not for all services undoes it    *)
(* for a while (ServicesUtil.watch, BaseService.watch).                    *)
Watched(s) ==
  \E c \in Command : /\ c = daemon /\ Lives(c)
                     /\ s \in ToSet(command[c].on) /\ ~command[c].leave

WatchedComesBack ==
  \A s \in Service : Watched(s) /\ ~Running(s) ~> Running(s) \/ ~Watched(s)

=============================================================================
