------------------------- MODULE SessionSupervisor -------------------------
(***************************************************************************)
(* The lifecycle of the bridge's services: session_supervisor.py starts    *)
(* and stops a service by its pid file, operator_cli.py does so for the    *)
(* whole stack and supervises it, and the review page runs both as         *)
(* commands.  Each command is a process of its own; nothing but the pid    *)
(* files, the ports and the pause file connects them, and there is no lock.*)
(*                                                                         *)
(* A command is a list of tasks, one per call of the code: start or stop a *)
(* service, pause, resume, wait until the local services answer.           *)
(***************************************************************************)
EXTENDS Naturals, Sequences, SequencesExt

CONSTANTS
  NoPid,
  Pids,         \* pids the operating system hands out
  Local,        \* the local services in the order they are started
  Mode,         \* the operator mode: "ngrok", "cloudflare" or "external"
  Shells,       \* where commands are run: terminals, and the review page
  Supervisor,   \* the actor that supervises
  Commands,     \* the commands that are run
  Events,       \* what else may happen: "supervisor", "sigterm", "death", "kill"
  MaxEvents,    \* how many commands and other events there are in all
  Binding       \* "quick": a service binds its port within the 0.4 s of its start,
                \* "slow": before start_operator stops waiting, "late": maybe never

Ported == {"review", "mcp"}
Services == {"review", "mcp", "ngrok", "cloudflared"}
EventKinds == {"supervisor", "sigterm", "death", "kill"}
Actors == Shells \cup {Supervisor}
MaybePids == Pids \cup {NoPid}

CommandNames == {"start", "stop", "restart", "start-session", "stop-session",
                 "restart-session", "start-service", "stop-service", "restart-service"}

ASSUME PidsAssumption == NoPid \notin Pids /\ Pids # {}
ASSUME LocalAssumption == Local \in Seq(Ported)
ASSUME ModeAssumption == Mode \in {"ngrok", "cloudflare", "external"}
ASSUME EventsAssumption == Events \subseteq EventKinds /\ MaxEvents \in Nat
ASSUME ActorsAssumption == Supervisor \notin Shells
ASSUME CommandsAssumption == Commands \subseteq CommandNames

VARIABLES
  proc,     \* proc[p]: the service, "foreign" or "free": what runs as pid p
  dying,    \* pids that were sent a signal
  bound,    \* bound[s]: the pid that listens on the port of s
  pidfile,  \* pidfile[s]: the pid in <s>.pid, NoPid if there is no file
  meta,     \* the pid in the metadata of the connector
  paused,   \* operator.paused exists
  todo,     \* todo[a]: the tasks a has still to do
  pc,       \* where each actor is in the first of them
  got,      \* got[a]: the pid it has read or started
  failed,   \* failed[a]: a task of it has failed; only the supervisor asks for that
  phase,    \* of the supervisor: "off" at first, then "up", "leaving" and "down"
  term,     \* the supervisor has been asked to stop
  used      \* how many commands and other events there were

vars == <<proc, dying, bound, pidfile, meta, paused, todo, pc, got, failed, phase, term, used>>
osVars == <<proc, dying, bound>>
files == <<pidfile, meta, paused>>
control == <<todo, pc, got, failed>>

------------------------------------------------------------------------------
(* Commands *)

Task(do, s) == [do |-> do, svc |-> s]
Just(do) == <<[do |-> do, svc |-> "none"]>>
Starts(ss) == [i \in DOMAIN ss |-> Task("start", ss[i])]
Stops(ss) == [i \in DOMAIN ss |-> Task("stop", ss[i])]

Tunnel == IF Mode = "ngrok" THEN <<"ngrok">> ELSE <<>>
(* active_services *)
Active == Local \o Tunnel
Connector == IF Mode = "cloudflare" THEN <<"cloudflared">> ELSE <<>>
Wanted == Range(Active \o Connector)
(* The tunnel of another mode is stopped before this mode's is started. *)
StopOther == IF Mode = "cloudflare" THEN Stops(<<"ngrok">>) ELSE Stops(<<"cloudflared">>)

(* start_session, stop_session and restart_session *)
StartSession == Starts(Active)
StopSession == Stops(<<"ngrok">> \o Reverse(Local))
RestartSession == StopSession \o StartSession
(* start_operator, stop_operator and restart_operator *)
StopAll == Stops(<<"cloudflared">>) \o StopSession
StopOperator == Just("pause") \o StopAll
StartOperator ==
  Just("pause") \o StopOther \o StartSession \o Just("wait") \o Starts(Connector) \o Just("resume")
RestartOperator == StopAll \o StartOperator
GiveUpStart == StopSession \o Just("resume")
(* _ensure_supervised_processes *)
EnsureAll == [i \in DOMAIN (Active \o Connector) |-> Task("ensure", (Active \o Connector)[i])]

(* restart_service; of the services the page may name, mcp stands for both. *)
RestartService == Stops(<<"mcp">>) \o Starts(<<"mcp">>)

TasksOf(command) ==
  CASE command = "start" -> StartOperator
    [] command = "stop" -> StopOperator
    [] command = "restart" -> RestartOperator
    [] command = "start-session" -> StartSession
    [] command = "stop-session" -> StopSession
    [] command = "restart-session" -> RestartSession
    [] command = "start-service" -> Starts(<<"mcp">>)
    [] command = "stop-service" -> Stops(<<"mcp">>)
    [] command = "restart-service" -> RestartService

------------------------------------------------------------------------------
(* What the code asks the operating system *)

Alive(p) == p # NoPid /\ proc[p] # "free"
Reachable(s) == bound[s] # NoPid
(* cloudflared_process_matches_metadata *)
Matches(p) == meta = p /\ proc[p] = "cloudflared"
(* MUTANT: a pid that is alive is the service. *)
AnyAlive(s, p) == Alive(p)

(* The pid in the file is believed to be the service: start leaves it      *)
(* alone, stop terminates it.                                              *)
Believed(s, p) ==
  /\ Alive(p)
  /\ s \in Ported => Reachable(s)
  /\ s = "cloudflared" => Matches(p)

(* _local_service_is_alive; of the connector only the pid is looked at. *)
LooksAlive(s) ==
  \/ Alive(pidfile[s])
  \/ pidfile[s] = NoPid /\ s \in Ported /\ Reachable(s)

Remembered == {pidfile[s] : s \in Services} \cup {got[a] : a \in Actors} \cup {meta}
FreePids == {p \in Pids : proc[p] = "free" /\ p \notin Remembered}
(* Pids differ in nothing but what is remembered of them. *)
NextPid == CHOOSE p \in FreePids : TRUE

(* A pid file may be left from before the last boot, and its pid be that   *)
(* of some other program by now.                                           *)
Old == CHOOSE p \in Pids : TRUE
Init ==
  /\ proc = [p \in Pids |-> IF p = Old THEN "foreign" ELSE "free"]
  /\ \E left \in Wanted \cup {"ngrok", "none"} :
       /\ pidfile = [s \in Services |-> IF s = left THEN Old ELSE NoPid]
       /\ meta = IF left = "cloudflared" THEN Old ELSE NoPid
  /\ dying = {}
  /\ bound = [s \in Ported |-> NoPid]
  /\ paused = FALSE
  /\ todo = [a \in Actors |-> <<>>]
  /\ pc = [a \in Actors |-> "ready"]
  /\ got = [a \in Actors |-> NoPid]
  /\ failed = [a \in Actors |-> FALSE]
  /\ phase = "off"
  /\ term = FALSE
  /\ used = 0

(* The bound on events, and which of them may happen. *)
Occurs == used < MaxEvents /\ used' = used + 1
Happens(event) == event \in Events /\ Occurs
At(a, label, do) == todo[a] # <<>> /\ pc[a] = label /\ Head(todo[a]).do = do
Svc(a) == Head(todo[a]).svc
Goto(a, label) == pc' = [pc EXCEPT ![a] = label]
Turns(a, tasks) == /\ todo' = [todo EXCEPT ![a] = tasks]
                   /\ pc' = [pc EXCEPT ![a] = "ready"]
                   /\ got' = [got EXCEPT ![a] = NoPid]
Done(a) == Turns(a, Tail(todo[a]))
Fails(a) == failed' = [failed EXCEPT ![a] = TRUE]
Untrack(s) == /\ pidfile' = [pidfile EXCEPT ![s] = NoPid]
              /\ meta' = IF s = "cloudflared" THEN NoPid ELSE meta
              /\ UNCHANGED paused
supervision == <<phase, term, used>>

------------------------------------------------------------------------------
(* start_service and start_cloudflared *)

ReadPid(a) ==
  /\ At(a, "ready", "start") \/ At(a, "ready", "stop")
  /\ got' = [got EXCEPT ![a] = pidfile[Svc(a)]]
  /\ Goto(a, "read")
  /\ UNCHANGED <<osVars, files, todo, failed, supervision>>

Reuse(a) ==
  /\ At(a, "read", "start") /\ Believed(Svc(a), got[a])
  /\ Done(a)
  /\ UNCHANGED <<osVars, files, failed, supervision>>

(* The file is removed as stale, whatever it says by now. *)
Clear(a) ==
  /\ At(a, "read", "start") /\ ~Believed(Svc(a), got[a])
  /\ Untrack(Svc(a))
  /\ Goto(a, "cleared")
  /\ UNCHANGED <<osVars, todo, got, failed, supervision>>

(* "reachable but not supervisor-managed" *)
LeaveUnmanaged(a) ==
  /\ At(a, "cleared", "start") /\ Svc(a) \in Ported /\ Reachable(Svc(a))
  /\ Done(a)
  /\ UNCHANGED <<osVars, files, failed, supervision>>

Spawn(a) ==
  /\ At(a, "cleared", "start") /\ (Svc(a) \in Ported => ~Reachable(Svc(a)))
  /\ FreePids # {}
  /\ proc' = [proc EXCEPT ![NextPid] = Svc(a)]
  /\ got' = [got EXCEPT ![a] = NextPid]
  /\ Goto(a, "spawned")
  /\ UNCHANGED <<dying, bound, files, todo, failed, supervision>>

WritePid(a) ==
  /\ At(a, "spawned", "start")
  /\ pidfile' = [pidfile EXCEPT ![Svc(a)] = got[a]]
  /\ Goto(a, IF Svc(a) = "cloudflared" THEN "named" ELSE "started")
  /\ UNCHANGED <<osVars, meta, paused, todo, got, failed, supervision>>

WriteMetadata(a) ==
  /\ At(a, "named", "start")
  /\ meta' = got[a]
  /\ Goto(a, "started")
  /\ UNCHANGED <<osVars, pidfile, paused, todo, got, failed, supervision>>

Bound(s, p) == s \in Ported => bound[s] = p

StayedUp(a) ==
  /\ At(a, "started", "start") /\ Alive(got[a])
  /\ Binding = "quick" => Bound(Svc(a), got[a])
  /\ Done(a)
  /\ UNCHANGED <<osVars, files, failed, supervision>>

(* "exited quickly"; only the connector's start fails with it, and a       *)
(* start_operator then stops what it has started.                          *)
ExitedQuickly(a) ==
  /\ At(a, "started", "start") /\ ~Alive(got[a])
  /\ Untrack(Svc(a))
  /\ IF Svc(a) = "cloudflared"
     THEN /\ Fails(a)
          /\ Turns(a, IF a = Supervisor THEN Tail(todo[a]) ELSE GiveUpStart)
     ELSE Done(a) /\ UNCHANGED failed
  /\ UNCHANGED <<osVars, supervision>>

------------------------------------------------------------------------------
(* stop_service and stop_cloudflared *)

(* No process, a dead one, or one that is not taken for the service. *)
Forget(a) ==
  /\ At(a, "read", "stop") /\ ~Believed(Svc(a), got[a])
  /\ IF got[a] = NoPid /\ Svc(a) # "cloudflared" THEN UNCHANGED files ELSE Untrack(Svc(a))
  /\ Done(a)
  /\ UNCHANGED <<osVars, failed, supervision>>

(* terminate_pid_tree sends a SIGTERM, waits 3 s at most, and sends a        *)
(* SIGKILL.                                                                *)

(* MUTANT: whatever the file names is sent the signal. *)
TerminateAny(a) ==
  /\ At(a, "read", "stop") /\ got[a] # NoPid
  /\ dying' = dying \cup {got[a]}
  /\ Goto(a, "terminated")
  /\ UNCHANGED <<proc, bound, files, todo, got, failed, supervision>>

Terminate(a) ==
  /\ At(a, "read", "stop") /\ Believed(Svc(a), got[a])
  /\ dying' = dying \cup {got[a]}
  /\ Goto(a, "terminated")
  /\ UNCHANGED <<proc, bound, files, todo, got, failed, supervision>>

Stopped(a) ==
  /\ At(a, "terminated", "stop") /\ ~Alive(got[a])
  /\ Untrack(Svc(a))
  /\ Done(a)
  /\ UNCHANGED <<osVars, failed, supervision>>

(* MUTANT: the wait has no end but that of the process. *)
WaitForEnd(a) ==
  /\ At(a, "terminated", "stop") /\ ~Alive(got[a])
  /\ Fails(a)
  /\ Done(a)
  /\ UNCHANGED <<osVars, files, supervision>>

(* "may still be running; pid file kept": it takes longer, or it does not  *)
(* end by a SIGTERM and leads no process group that a SIGKILL would reach. *)
MayStillRun(a) ==
  /\ At(a, "terminated", "stop") /\ Alive(got[a])
  /\ Fails(a)
  /\ Done(a)
  /\ UNCHANGED <<osVars, files, supervision>>

(* The same for a program of somebody else, who may not be sent a signal.  *)
Unsignalled(a) ==
  /\ At(a, "read", "stop") /\ Believed(Svc(a), got[a]) /\ proc[got[a]] = "foreign"
  /\ Fails(a)
  /\ Done(a)
  /\ UNCHANGED <<osVars, files, supervision>>

------------------------------------------------------------------------------
(* The other tasks *)

Pause(a) ==
  /\ At(a, "ready", "pause")
  /\ paused' = TRUE
  /\ Done(a)
  /\ UNCHANGED <<osVars, pidfile, meta, failed, supervision>>

Resume(a) ==
  /\ At(a, "ready", "resume")
  /\ paused' = FALSE
  /\ Done(a)
  /\ UNCHANGED <<osVars, pidfile, meta, failed, supervision>>

(* wait_for_local_bridge *)
Ready(a) ==
  /\ At(a, "ready", "wait") /\ \A i \in DOMAIN Local : Reachable(Local[i])
  /\ Done(a)
  /\ UNCHANGED <<osVars, files, failed, supervision>>

(* 15 seconds are enough for a service that binds its port at all. *)
Overdue(s) == ~Reachable(s) /\ (Binding = "late" \/ \A p \in Pids : proc[p] # s)
NotReady(a) ==
  /\ At(a, "ready", "wait") /\ \E i \in DOMAIN Local : Overdue(Local[i])
  /\ Fails(a)
  /\ Turns(a, GiveUpStart)
  /\ UNCHANGED <<osVars, files, supervision>>

LeaveAlone(a) ==
  /\ At(a, "ready", "ensure") /\ LooksAlive(Svc(a))
  /\ Done(a)
  /\ UNCHANGED <<osVars, files, failed, supervision>>

(* MUTANT: only a pid file that names a dead process is acted on. *)
RecoverNamed(a) ==
  /\ At(a, "ready", "ensure") /\ ~LooksAlive(Svc(a))
  /\ Turns(a, IF pidfile[Svc(a)] = NoPid THEN Tail(todo[a])
              ELSE <<Task("start", Svc(a))>> \o Tail(todo[a]))
  /\ UNCHANGED <<osVars, files, failed, supervision>>

Recover(a) ==
  /\ At(a, "ready", "ensure") /\ ~LooksAlive(Svc(a))
  /\ Turns(a, <<Task("start", Svc(a))>> \o Tail(todo[a]))
  /\ UNCHANGED <<osVars, files, failed, supervision>>

------------------------------------------------------------------------------
(* supervise_operator *)

(* The service manager starts it, and again when it has exited. *)
StartSupervisor ==
  /\ phase \in {"off", "down"} /\ Happens("supervisor")
  /\ phase' = "up" /\ term' = FALSE
  /\ failed' = [failed EXCEPT ![Supervisor] = FALSE]
  /\ Turns(Supervisor, IF paused THEN <<>> ELSE StopOther \o EnsureAll)
  /\ UNCHANGED <<osVars, files>>

Idle(a) == todo[a] = <<>>

(* A round of the loop; the pause file is read at its beginning only. *)
Supervise ==
  /\ phase = "up" /\ Idle(Supervisor) /\ ~term /\ ~failed[Supervisor] /\ ~paused
  /\ Turns(Supervisor, EnsureAll)
  /\ UNCHANGED <<osVars, files, failed, supervision>>

(* SIGTERM or a failed recovery: everything is stopped on the way out. *)
Leave ==
  /\ phase = "up" /\ Idle(Supervisor) /\ (term \/ failed[Supervisor])
  /\ phase' = "leaving"
  /\ Turns(Supervisor, StopAll)
  /\ UNCHANGED <<osVars, files, failed, term, used>>

Left ==
  /\ phase = "leaving" /\ Idle(Supervisor)
  /\ phase' = "down"
  /\ UNCHANGED <<osVars, files, control, term, used>>

Sigterm ==
  /\ phase = "up" /\ ~term /\ Happens("sigterm")
  /\ term' = TRUE
  /\ UNCHANGED <<osVars, files, control, phase>>

------------------------------------------------------------------------------
(* The rest of the world *)

RunCommand(a, command) ==
  /\ Idle(a) /\ Occurs
  /\ Turns(a, TasksOf(command))
  /\ failed' = [failed EXCEPT ![a] = FALSE]
  /\ UNCHANGED <<osVars, files, phase, term>>

(* A command may be killed; the review page does so after 60 s. *)
KillCommand(a) ==
  /\ ~Idle(a) /\ Happens("kill")
  /\ Turns(a, <<>>)
  /\ UNCHANGED <<osVars, files, failed, phase, term>>

Exits(p) == /\ proc' = [proc EXCEPT ![p] = "free"]
            /\ dying' = dying \ {p}
            /\ bound' = [s \in Ported |-> IF bound[s] = p THEN NoPid ELSE bound[s]]

BindPort(p) ==
  /\ proc[p] \in Ported /\ bound[proc[p]] = NoPid
  /\ bound' = [bound EXCEPT ![proc[p]] = p]
  /\ UNCHANGED <<proc, dying, files, control, supervision>>

(* The port is taken: the service exits. *)
LosePort(p) ==
  /\ proc[p] \in Ported /\ bound[proc[p]] \notin {NoPid, p}
  /\ Exits(p)
  /\ UNCHANGED <<files, control, supervision>>

Die(p) ==
  /\ p \in dying
  /\ Exits(p)
  /\ UNCHANGED <<files, control, supervision>>

Crash(p) ==
  /\ proc[p] \in Services /\ Happens("death")
  /\ Exits(p)
  /\ UNCHANGED <<files, control, phase, term>>

StartStep(a) ==
  \/ ReadPid(a) \/ Reuse(a) \/ Clear(a) \/ LeaveUnmanaged(a) \/ Spawn(a) \/ WritePid(a)
  \/ WriteMetadata(a) \/ StayedUp(a) \/ ExitedQuickly(a)
StopStep(a) ==
  Forget(a) \/ Terminate(a) \/ Stopped(a) \/ MayStillRun(a) \/ Unsignalled(a)
OtherStep(a) ==
  \/ Pause(a) \/ Resume(a) \/ Ready(a) \/ NotReady(a) \/ LeaveAlone(a) \/ Recover(a)
Work(a) == StartStep(a) \/ StopStep(a) \/ OtherStep(a)
Process(p) == BindPort(p) \/ LosePort(p) \/ Die(p)

Next ==
  \/ \E a \in Actors : Work(a)
  \/ StartSupervisor \/ Supervise \/ Leave \/ Left \/ Sigterm
  \/ \E a \in Shells : KillCommand(a) \/ \E c \in Commands : RunCommand(a, c)
  \/ \E p \in Pids : Process(p) \/ Crash(p)

Spec == Init /\ [][Next]_vars

(* Processes run on, services bind their ports and end by the signals they *)
(* are sent (other programs need not), the supervisor wakes up every 30    *)
(* seconds; nobody has to run a command, and nobody has to die by itself.  *)
LiveSpec ==
  /\ Spec
  /\ \A a \in Actors : WF_vars(Work(a))
  /\ \A p \in Pids : WF_vars(proc[p] \in Services /\ Process(p))
  /\ WF_vars(Supervise) /\ WF_vars(Leave) /\ WF_vars(Left)

------------------------------------------------------------------------------
(* Properties *)

TypeOK ==
  /\ proc \in [Pids -> Services \cup {"foreign", "free"}]
  /\ dying \subseteq {p \in Pids : proc[p] # "free"}
  /\ bound \in [Ported -> MaybePids]
  /\ \A s \in Ported : bound[s] # NoPid => proc[bound[s]] = s
  /\ pidfile \in [Services -> MaybePids]
  /\ meta \in MaybePids
  /\ paused \in BOOLEAN
  /\ \A a \in Actors : \A i \in DOMAIN todo[a] :
       todo[a][i].do \in {"start", "stop", "pause", "resume", "wait", "ensure"}
  /\ pc \in [Actors -> {"ready", "read", "cleared", "spawned", "named", "started", "terminated"}]
  /\ got \in [Actors -> MaybePids]
  /\ failed \in [Actors -> BOOLEAN]
  /\ phase \in {"off", "down", "up", "leaving"}
  /\ term \in BOOLEAN

Running(s) == {p \in Pids : proc[p] = s}

(* While commands run one after the other, without a supervisor, a pid     *)
(* file left from an earlier boot makes none of them terminate the program *)
(* that has this pid now; only of ngrok nothing but the pid is checked.    *)
OneByOne == phase = "off" /\ \A a, b \in Shells : a = b
SparesOthers ==
  OneByOne =>
    \A p \in dying : proc[p] = "foreign" => p = pidfile["ngrok"]

Up(s) == IF s \in Ported THEN Reachable(s) ELSE Running(s) # {}
Taken(s) == pidfile[s] # NoPid /\ proc[pidfile[s]] = "foreign"
(* Supervision: whatever dies, is stopped or started next to it, while the *)
(* supervisor runs and is not paused every service comes (back) up.        *)
Recovers == \A s \in Wanted :
  (phase = "up") ~> (Up(s) \/ paused \/ phase # "up" \/ Taken(s))

(* Every command ends, also a start whose services never answer and a stop *)
(* of a process that is dead, gone, not the service or not to be ended.    *)
CommandsEnd == \A a \in Shells : ~Idle(a) ~> Idle(a)

==============================================================================
