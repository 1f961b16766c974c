---------------------- MODULE SessionSupervisorProofs ----------------------
(***************************************************************************)
(* Theorems about SessionSupervisor, for any number of shells, pids and    *)
(* events, every operator mode and every set of commands.                  *)
(***************************************************************************)
EXTENDS SessionSupervisor, TLAPS

Tasks == [do : {"start", "stop", "ensure"}, svc : Services]
           \cup [do : {"pause", "resume", "wait"}, svc : {"none"}]

Labels == {"ready", "read", "cleared", "spawned", "named", "started", "terminated"}

OsTypes ==
  /\ proc \in [Pids -> Services \cup {"foreign", "free"}]
  /\ dying \subseteq {p \in Pids : proc[p] # "free"}
  /\ bound \in [Ported -> MaybePids]
  /\ \A s \in Ported : bound[s] # NoPid => proc[bound[s]] = s
FileTypes ==
  /\ pidfile \in [Services -> MaybePids]
  /\ meta \in MaybePids
  /\ paused \in BOOLEAN
(* A task is one the code calls, and only it names what it is done to. *)
ControlTypes ==
  /\ todo \in [Actors -> Seq(Tasks)]
  /\ pc \in [Actors -> Labels]
  /\ got \in [Actors -> MaybePids]
  /\ failed \in [Actors -> BOOLEAN]
PhaseTypes == phase \in {"off", "down", "up", "leaving"} /\ term \in BOOLEAN

TypeInv == OsTypes /\ FileTypes /\ ControlTypes /\ PhaseTypes

------------------------------------------------------------------------------
(* The tasks of the commands *)

LEMMA ServicesListed ==
  /\ Local \in Seq(Services) /\ Reverse(Local) \in Seq(Services)
  /\ Tunnel \in Seq(Services) /\ Connector \in Seq(Services)
  /\ Active \in Seq(Services) /\ Active \o Connector \in Seq(Services)
<1>1. Local \in Seq(Services)
  <2>1. \A s \in Ported : s \in Services BY DEF Ported, Services
  <2>2. Len(Local) \in Nat /\ Local \in [1..Len(Local) -> Ported] BY LocalAssumption
  <2>3. Local \in [1..Len(Local) -> Services] BY <2>1, <2>2
  <2> QED BY <2>2, <2>3
<1>2. Reverse(Local) \in Seq(Services)
  <2>1. Len(Local) \in Nat BY <1>1
  <2>2. \A i \in 1..Len(Local) : Local[(Len(Local) - i) + 1] \in Services
    <3> TAKE i \in 1..Len(Local)
    <3>1. (Len(Local) - i) + 1 \in 1..Len(Local) BY <2>1
    <3> QED BY <1>1, <3>1
  <2> QED BY <2>1, <2>2 DEF Reverse
<1>3. <<>> \in Seq(Services) OBVIOUS
<1>4. \A s \in Services : <<s>> \in Seq(Services) OBVIOUS
<1>5. "ngrok" \in Services /\ "cloudflared" \in Services BY DEF Services
<1>6. Tunnel \in Seq(Services) BY <1>3, <1>4, <1>5 DEF Tunnel
<1>7. Connector \in Seq(Services) BY <1>3, <1>4, <1>5 DEF Connector
<1>8. Active \in Seq(Services) BY <1>1, <1>6 DEF Active
<1>9. Active \o Connector \in Seq(Services) BY <1>7, <1>8
<1> QED BY <1>1, <1>2, <1>6, <1>7, <1>8, <1>9

LEMMA TasksListed ==
  /\ \A ss \in Seq(Services) : Starts(ss) \in Seq(Tasks) /\ Stops(ss) \in Seq(Tasks)
  /\ \A do \in {"pause", "resume", "wait"} : Just(do) \in Seq(Tasks)
  /\ EnsureAll \in Seq(Tasks)
<1>1. ASSUME NEW ss \in Seq(Services), NEW do \in {"start", "stop", "ensure"}
      PROVE  [i \in DOMAIN ss |-> Task(do, ss[i])] \in Seq(Tasks)
  <2>1. DOMAIN ss = 1..Len(ss) /\ Len(ss) \in Nat OBVIOUS
  <2>2. \A i \in 1..Len(ss) : Task(do, ss[i]) \in Tasks
    <3> TAKE i \in 1..Len(ss)
    <3>1. ss[i] \in Services OBVIOUS
    <3> QED BY <3>1 DEF Task, Tasks
  <2> QED BY <2>1, <2>2
<1>2. \A ss \in Seq(Services) : Starts(ss) \in Seq(Tasks) /\ Stops(ss) \in Seq(Tasks)
  BY <1>1 DEF Starts, Stops
<1>3. \A do \in {"pause", "resume", "wait"} : Just(do) \in Seq(Tasks)
  <2> TAKE do \in {"pause", "resume", "wait"}
  <2>1. [do |-> do, svc |-> "none"] \in Tasks BY DEF Tasks
  <2> QED BY <2>1 DEF Just
<1>4. EnsureAll \in Seq(Tasks) BY <1>1, ServicesListed DEF EnsureAll
<1> QED BY <1>2, <1>3, <1>4

LEMMA CommandsListed ==
  /\ StopAll \in Seq(Tasks) /\ GiveUpStart \in Seq(Tasks) /\ StopOther \o EnsureAll \in Seq(Tasks)
  /\ \A c \in Commands : TasksOf(c) \in Seq(Tasks)
<1>1. /\ <<"ngrok">> \in Seq(Services) /\ <<"cloudflared">> \in Seq(Services)
      /\ <<"mcp">> \in Seq(Services)
      /\ <<"ngrok">> \o Reverse(Local) \in Seq(Services)
  BY ServicesListed DEF Services
<1>2. StopOther \in Seq(Tasks) BY <1>1, TasksListed DEF StopOther
<1>3. StartSession \in Seq(Tasks) /\ StopSession \in Seq(Tasks) /\ Starts(Connector) \in Seq(Tasks)
  BY <1>1, ServicesListed, TasksListed DEF StartSession, StopSession
<1>4. /\ Stops(<<"cloudflared">>) \in Seq(Tasks)
      /\ Stops(<<"mcp">>) \in Seq(Tasks) /\ Starts(<<"mcp">>) \in Seq(Tasks)
  BY <1>1, TasksListed
<1>5. Just("pause") \in Seq(Tasks) /\ Just("resume") \in Seq(Tasks) /\ Just("wait") \in Seq(Tasks)
  BY TasksListed
<1> HIDE DEF Tasks
<1>6. StopAll \in Seq(Tasks) /\ GiveUpStart \in Seq(Tasks) BY <1>3, <1>4, <1>5 DEF StopAll, GiveUpStart
<1>7. StopOperator \in Seq(Tasks) BY <1>5, <1>6 DEF StopOperator
<1>8. StartOperator \in Seq(Tasks) BY <1>2, <1>3, <1>5 DEF StartOperator
<1>9. RestartOperator \in Seq(Tasks) BY <1>6, <1>8 DEF RestartOperator
<1>10. RestartService \in Seq(Tasks) /\ RestartSession \in Seq(Tasks)
  BY <1>3, <1>4 DEF RestartService, RestartSession
<1>11. \A c \in CommandNames : TasksOf(c) \in Seq(Tasks)
  BY <1>3, <1>4, <1>7, <1>8, <1>9, <1>10 DEF TasksOf, CommandNames
<1>12. StopOther \o EnsureAll \in Seq(Tasks) BY <1>2, TasksListed
<1> QED BY <1>6, <1>11, <1>12, CommandsAssumption

------------------------------------------------------------------------------
(* What the steps have in common *)

LEMMA TaskAtHand ==
  ASSUME ControlTypes, NEW a \in Actors, todo[a] # <<>>
  PROVE  Head(todo[a]) \in Tasks /\ Tail(todo[a]) \in Seq(Tasks)
<1>1. todo[a] \in Seq(Tasks) BY DEF ControlTypes
<1> HIDE DEF Tasks
<1> QED BY <1>1

LEMMA ServiceAtHand ==
  ASSUME ControlTypes, NEW a \in Actors, NEW label,
         NEW do \in {"start", "stop", "ensure"}, At(a, label, do)
  PROVE  Svc(a) \in Services
<1>1. Head(todo[a]) \in Tasks /\ Head(todo[a]).do = do BY TaskAtHand DEF At
<1>2. Head(todo[a]) \notin [do : {"pause", "resume", "wait"}, svc : {"none"}]
  BY <1>1
<1> QED BY <1>1, <1>2 DEF Svc, Tasks

LEMMA TurnsTypes ==
  ASSUME ControlTypes, NEW a \in Actors, NEW tasks \in Seq(Tasks), Turns(a, tasks),
         failed' \in [Actors -> BOOLEAN]
  PROVE  ControlTypes'
<1>1. todo' = [todo EXCEPT ![a] = tasks] /\ pc' = [pc EXCEPT ![a] = "ready"]
      /\ got' = [got EXCEPT ![a] = NoPid]
  BY DEF Turns
<1>2. todo' \in [Actors -> Seq(Tasks)] BY ONLY <1>1, ControlTypes DEF ControlTypes
<1>3. pc' \in [Actors -> Labels] BY <1>1 DEF ControlTypes, Labels
<1>4. got' \in [Actors -> MaybePids] BY <1>1 DEF ControlTypes, MaybePids
<1> QED BY <1>2, <1>3, <1>4 DEF ControlTypes

LEMMA FailsTypes ==
  ASSUME ControlTypes, NEW a \in Actors, Fails(a) \/ UNCHANGED failed
  PROVE  failed' \in [Actors -> BOOLEAN]
BY DEF ControlTypes, Fails

LEMMA DoneTypes ==
  ASSUME ControlTypes, NEW a \in Actors, todo[a] # <<>>, Done(a), UNCHANGED failed
  PROVE  ControlTypes'
<1>1. Tail(todo[a]) \in Seq(Tasks) BY TaskAtHand
<1>2. failed' \in [Actors -> BOOLEAN] BY DEF ControlTypes
<1> QED BY <1>1, <1>2, TurnsTypes DEF Done

LEMMA UntrackTypes ==
  ASSUME FileTypes, NEW s, Untrack(s)
  PROVE  FileTypes'
BY DEF FileTypes, Untrack, MaybePids

LEMMA ExitsTypes ==
  ASSUME OsTypes, NEW p \in Pids, Exits(p)
  PROVE  OsTypes'
<1>1. /\ proc' = [proc EXCEPT ![p] = "free"] /\ dying' = dying \ {p}
      /\ bound' = [s \in Ported |-> IF bound[s] = p THEN NoPid ELSE bound[s]]
  BY DEF Exits
<1>2. proc' \in [Pids -> Services \cup {"foreign", "free"}] BY <1>1 DEF OsTypes
<1>3. dying' \subseteq {q \in Pids : proc'[q] # "free"} BY <1>1 DEF OsTypes
<1>4. bound' \in [Ported -> MaybePids] BY <1>1 DEF OsTypes, MaybePids
<1>5. \A s \in Ported : bound'[s] # NoPid => proc'[bound'[s]] = s
  <2> SUFFICES ASSUME NEW s \in Ported, bound'[s] # NoPid PROVE proc'[bound'[s]] = s
    OBVIOUS
  <2>1. bound'[s] = bound[s] /\ bound[s] # p /\ bound[s] # NoPid BY <1>1
  <2>2. proc[bound[s]] = s /\ bound[s] \in Pids BY <2>1 DEF OsTypes, MaybePids
  <2> QED BY <1>1, <2>1, <2>2 DEF OsTypes
<1> QED BY <1>2, <1>3, <1>4, <1>5 DEF OsTypes

LEMMA NextPidFree ==
  ASSUME FreePids # {}
  PROVE  NextPid \in Pids /\ proc[NextPid] = "free" /\ NextPid \notin Remembered
BY DEF NextPid, FreePids

------------------------------------------------------------------------------
(* The type invariant *)

LEMMA InitTypes == Init => TypeInv
<1> SUFFICES ASSUME Init PROVE TypeInv
  OBVIOUS
<1>1. Old \in Pids BY PidsAssumption DEF Old
<1>2. OsTypes BY DEF Init, OsTypes, MaybePids
<1>3. FileTypes BY <1>1 DEF Init, FileTypes, MaybePids
<1>4. <<>> \in Seq(Tasks) OBVIOUS
<1>5. ControlTypes BY <1>4 DEF Init, ControlTypes, MaybePids, Labels
<1> QED BY <1>2, <1>3, <1>5 DEF Init, TypeInv, PhaseTypes

LEMMA StartKeepsTypes == ASSUME TypeInv, NEW a \in Actors, StartStep(a) PROVE TypeInv'
<1> USE DEF TypeInv
<1>1. UNCHANGED <<phase, term>> /\ PhaseTypes'
  BY DEF StartStep, ReadPid, Reuse, Clear, LeaveUnmanaged, Spawn, WritePid, WriteMetadata,
         StayedUp, ExitedQuickly, supervision, PhaseTypes
<1>2. UNCHANGED osVars => OsTypes' BY DEF osVars, OsTypes
<1>3. UNCHANGED files => FileTypes' BY DEF files, FileTypes
<1>4. CASE ReadPid(a)
  <2>1. Svc(a) \in Services BY <1>4, ServiceAtHand DEF ReadPid
  <2>2. pidfile[Svc(a)] \in MaybePids BY <2>1 DEF FileTypes
  <2>3. /\ got' = [got EXCEPT ![a] = pidfile[Svc(a)]] /\ pc' = [pc EXCEPT ![a] = "read"]
        /\ UNCHANGED <<todo, failed>>
    BY <1>4 DEF ReadPid, Goto
  <2>4. ControlTypes' BY <2>2, <2>3 DEF ControlTypes, Labels
  <2> QED BY <1>1, <1>2, <1>3, <1>4, <2>4 DEF ReadPid
<1>5. CASE Reuse(a) \/ LeaveUnmanaged(a) \/ StayedUp(a)
  <2>1. ControlTypes' BY <1>5, DoneTypes DEF Reuse, LeaveUnmanaged, StayedUp, At
  <2> QED BY <1>1, <1>2, <1>3, <1>5, <2>1 DEF Reuse, LeaveUnmanaged, StayedUp
<1>6. CASE Clear(a)
  <2>1. FileTypes' BY <1>6, UntrackTypes DEF Clear
  <2>2. ControlTypes' BY <1>6 DEF Clear, Goto, ControlTypes, Labels
  <2> QED BY <1>1, <1>2, <1>6, <2>1, <2>2 DEF Clear
<1>7. CASE Spawn(a)
  <2>1. Svc(a) \in Services BY <1>7, ServiceAtHand DEF Spawn
  <2>2. NextPid \in Pids /\ proc[NextPid] = "free" BY <1>7, NextPidFree DEF Spawn
  <2>3. /\ proc' = [proc EXCEPT ![NextPid] = Svc(a)] /\ UNCHANGED <<dying, bound>>
        /\ got' = [got EXCEPT ![a] = NextPid] /\ pc' = [pc EXCEPT ![a] = "spawned"]
        /\ UNCHANGED <<todo, failed>> /\ UNCHANGED files
    BY <1>7 DEF Spawn, Goto
  <2>4. \A q \in Pids : q # NextPid => proc'[q] = proc[q] BY <2>3 DEF OsTypes
  <2>5. Svc(a) # "free" BY <2>1 DEF Services
  <2>6. proc' \in [Pids -> Services \cup {"foreign", "free"}] BY <2>1, <2>3 DEF OsTypes
  <2>7. dying' \subseteq {q \in Pids : proc'[q] # "free"} BY <2>2, <2>3, <2>4 DEF OsTypes
  <2>8. \A s \in Ported : bound'[s] # NoPid => proc'[bound'[s]] = s
    <3> SUFFICES ASSUME NEW s \in Ported, bound[s] # NoPid PROVE proc'[bound[s]] = s
      BY <2>3
    <3>1. proc[bound[s]] = s /\ bound[s] \in Pids /\ s # "free" BY DEF OsTypes, MaybePids, Ported
    <3> QED BY <2>2, <2>4, <3>1
  <2>9. OsTypes' BY <2>3, <2>6, <2>7, <2>8 DEF OsTypes
  <2>10. ControlTypes' BY <2>2, <2>3 DEF ControlTypes, Labels, MaybePids
  <2> QED BY <1>1, <1>3, <2>3, <2>9, <2>10
<1>8. CASE WritePid(a)
  <2>1. got[a] \in MaybePids BY DEF ControlTypes
  <2>2. pidfile' = [pidfile EXCEPT ![Svc(a)] = got[a]] /\ UNCHANGED <<meta, paused>>
    BY <1>8 DEF WritePid
  <2>3. FileTypes' BY <2>1, <2>2 DEF FileTypes
  <2>4. ControlTypes' BY <1>8 DEF WritePid, Goto, ControlTypes, Labels
  <2> QED BY <1>1, <1>2, <1>8, <2>3, <2>4 DEF WritePid
<1>9. CASE WriteMetadata(a)
  <2>1. FileTypes' BY <1>9 DEF WriteMetadata, FileTypes, ControlTypes
  <2>2. ControlTypes' BY <1>9 DEF WriteMetadata, Goto, ControlTypes, Labels
  <2> QED BY <1>1, <1>2, <1>9, <2>1, <2>2 DEF WriteMetadata
<1>10. CASE ExitedQuickly(a)
  <2>1. FileTypes' BY <1>10, UntrackTypes DEF ExitedQuickly
  <2>2. todo[a] # <<>> BY <1>10 DEF ExitedQuickly, At
  <2>3. failed' \in [Actors -> BOOLEAN] BY <1>10, FailsTypes DEF ExitedQuickly
  <2>4. PICK tasks \in Seq(Tasks) : Turns(a, tasks)
    <3>1. Turns(a, Tail(todo[a])) \/ Turns(a, GiveUpStart) BY <1>10 DEF ExitedQuickly, Done
    <3>2. Tail(todo[a]) \in Seq(Tasks) /\ GiveUpStart \in Seq(Tasks)
      BY <2>2, TaskAtHand, CommandsListed
    <3> QED BY <3>1, <3>2
  <2>5. ControlTypes' BY <2>3, <2>4, TurnsTypes
  <2> QED BY <1>1, <1>2, <1>10, <2>1, <2>5 DEF ExitedQuickly
<1> QED BY <1>4, <1>5, <1>6, <1>7, <1>8, <1>9, <1>10 DEF StartStep

LEMMA StopKeepsTypes == ASSUME TypeInv, NEW a \in Actors, StopStep(a) PROVE TypeInv'
<1> USE DEF TypeInv
<1>1. PhaseTypes' BY DEF StopStep, Forget, Terminate, Stopped, MayStillRun, Unsignalled, supervision, PhaseTypes
<1>2. CASE Forget(a) \/ Stopped(a)
  <2>1. OsTypes' BY <1>2 DEF Forget, Stopped, osVars, OsTypes
  <2>2. UNCHANGED files \/ Untrack(Svc(a)) BY <1>2 DEF Forget, Stopped
  <2>3. FileTypes' BY <2>2, UntrackTypes DEF files, FileTypes
  <2>4. ControlTypes' BY <1>2, DoneTypes DEF Forget, Stopped, At
  <2> QED BY <1>1, <2>1, <2>3, <2>4
<1>3. CASE Terminate(a)
  <2>1. got[a] \in Pids /\ proc[got[a]] # "free"
    BY <1>3 DEF Terminate, Believed, Alive, ControlTypes, MaybePids
  <2>2. OsTypes' BY <1>3, <2>1 DEF Terminate, OsTypes
  <2>3. ControlTypes' BY <1>3 DEF Terminate, Goto, ControlTypes, Labels
  <2>4. FileTypes' BY <1>3 DEF Terminate, files, FileTypes
  <2> QED BY <1>1, <2>2, <2>3, <2>4
<1>4. CASE MayStillRun(a) \/ Unsignalled(a)
  <2>1. OsTypes' /\ FileTypes' BY <1>4 DEF MayStillRun, Unsignalled, osVars, OsTypes, files, FileTypes
  <2>2. failed' \in [Actors -> BOOLEAN] BY <1>4, FailsTypes DEF MayStillRun, Unsignalled
  <2>3. Tail(todo[a]) \in Seq(Tasks) /\ Turns(a, Tail(todo[a]))
    BY <1>4, TaskAtHand DEF MayStillRun, Unsignalled, At, Done
  <2>4. ControlTypes' BY <2>2, <2>3, TurnsTypes
  <2> QED BY <1>1, <2>1, <2>4
<1> QED BY <1>2, <1>3, <1>4 DEF StopStep

LEMMA OtherKeepsTypes == ASSUME TypeInv, NEW a \in Actors, OtherStep(a) PROVE TypeInv'
<1> USE DEF TypeInv
<1>1. OsTypes' /\ PhaseTypes'
  BY DEF OtherStep, Pause, Resume, Ready, NotReady, LeaveAlone, Recover, supervision, PhaseTypes,
         osVars, OsTypes
<1>2. FileTypes'
  BY DEF OtherStep, Pause, Resume, Ready, NotReady, LeaveAlone, Recover, files, FileTypes
<1>3. CASE Pause(a) \/ Resume(a) \/ Ready(a) \/ LeaveAlone(a)
  <2>1. ControlTypes' BY <1>3, DoneTypes DEF Pause, Resume, Ready, LeaveAlone, At
  <2> QED BY <1>1, <1>2, <2>1
<1>4. CASE NotReady(a)
  <2>1. failed' \in [Actors -> BOOLEAN] BY <1>4, FailsTypes DEF NotReady
  <2>2. ControlTypes' BY <1>4, <2>1, TurnsTypes, CommandsListed DEF NotReady
  <2> QED BY <1>1, <1>2, <2>2
<1>5. CASE Recover(a)
  <2>1. Svc(a) \in Services BY <1>5, ServiceAtHand DEF Recover
  <2>2. Tail(todo[a]) \in Seq(Tasks) BY <1>5, TaskAtHand DEF Recover, At
  <2>3. Task("start", Svc(a)) \in Tasks BY <2>1 DEF Task, Tasks
  <2>4. <<Task("start", Svc(a))>> \o Tail(todo[a]) \in Seq(Tasks)
    <3> HIDE DEF Tasks, Task
    <3> QED BY <2>2, <2>3
  <2>5. failed' \in [Actors -> BOOLEAN] BY <1>5 DEF Recover, ControlTypes
  <2>6. ControlTypes' BY <1>5, <2>4, <2>5, TurnsTypes DEF Recover
  <2> QED BY <1>1, <1>2, <2>6
<1> QED BY <1>3, <1>4, <1>5 DEF OtherStep

LEMMA SupervisionKeepsTypes ==
  ASSUME TypeInv, StartSupervisor \/ Supervise \/ Leave \/ Left \/ Sigterm
  PROVE  TypeInv'
<1> USE DEF TypeInv
<1>1. Supervisor \in Actors /\ <<>> \in Seq(Tasks) BY DEF Actors
<1>2. OsTypes' /\ FileTypes' /\ PhaseTypes'
  <2>1. OsTypes' /\ FileTypes'
    BY DEF StartSupervisor, Supervise, Leave, Left, Sigterm, osVars, OsTypes, files, FileTypes
  <2>2. PhaseTypes'
    BY DEF StartSupervisor, Supervise, Leave, Left, Sigterm, supervision, PhaseTypes
  <2> QED BY <2>1, <2>2
<1>3. failed' \in [Actors -> BOOLEAN]
  BY <1>1 DEF StartSupervisor, Supervise, Leave, Left, Sigterm, control, ControlTypes
<1>4. \/ UNCHANGED <<todo, pc, got>>
      \/ \E tasks \in Seq(Tasks) : Turns(Supervisor, tasks)
  BY <1>1, CommandsListed, TasksListed
     DEF StartSupervisor, Supervise, Leave, Left, Sigterm, control
<1>5. ControlTypes'
  <2>1. CASE UNCHANGED <<todo, pc, got>> BY <1>3, <2>1 DEF ControlTypes
  <2>2. CASE \E tasks \in Seq(Tasks) : Turns(Supervisor, tasks)
    BY <1>1, <1>3, <2>2, TurnsTypes
  <2> QED BY <1>4, <2>1, <2>2
<1> QED BY <1>2, <1>5

LEMMA CommandsKeepTypes ==
  ASSUME TypeInv, NEW a \in Shells,
         KillCommand(a) \/ \E c \in Commands : RunCommand(a, c)
  PROVE  TypeInv'
<1> USE DEF TypeInv
<1>1. a \in Actors /\ <<>> \in Seq(Tasks) BY DEF Actors
<1>2. OsTypes' /\ FileTypes' /\ PhaseTypes'
  BY DEF KillCommand, RunCommand, osVars, OsTypes, files, FileTypes, PhaseTypes
<1>3. failed' \in [Actors -> BOOLEAN] BY <1>1 DEF KillCommand, RunCommand, ControlTypes
<1>4. \E tasks \in Seq(Tasks) : Turns(a, tasks)
  BY <1>1, CommandsListed DEF KillCommand, RunCommand
<1>5. ControlTypes' BY <1>1, <1>3, <1>4, TurnsTypes
<1> QED BY <1>2, <1>5

LEMMA ProcessesKeepTypes ==
  ASSUME TypeInv, NEW p \in Pids, Process(p) \/ Crash(p)
  PROVE  TypeInv'
<1> USE DEF TypeInv
<1>1. FileTypes' /\ ControlTypes' /\ PhaseTypes'
  BY DEF Process, BindPort, LosePort, Die, Crash, files, FileTypes, control, ControlTypes,
         supervision, PhaseTypes
<1>2. CASE BindPort(p)
  <2>1. /\ proc[p] \in Ported /\ bound' = [bound EXCEPT ![proc[p]] = p]
        /\ UNCHANGED <<proc, dying>>
    BY <1>2 DEF BindPort
  <2>2. OsTypes' BY <2>1 DEF OsTypes, MaybePids
  <2> QED BY <1>1, <2>2
<1>3. CASE LosePort(p) \/ Die(p) \/ Crash(p)
  BY <1>1, <1>3, ExitsTypes DEF LosePort, Die, Crash
<1> QED BY <1>2, <1>3 DEF Process

LEMMA NextKeepsTypes == ASSUME TypeInv, [Next]_vars PROVE TypeInv'
<1>1. CASE UNCHANGED vars
  BY <1>1 DEF vars, TypeInv, OsTypes, FileTypes, ControlTypes, PhaseTypes
<1>2. CASE Next
  BY <1>2, StartKeepsTypes, StopKeepsTypes, OtherKeepsTypes, SupervisionKeepsTypes,
     CommandsKeepTypes, ProcessesKeepTypes DEF Next, Work
<1> QED BY <1>1, <1>2

(* What a command, the supervisor or a process finds in any variable, and  *)
(* which tasks there are (session_supervisor.py, operator_cli.py).         *)
THEOREM TypeCorrect == Spec => []TypeInv
BY InitTypes, NextKeepsTypes, PTL DEF Spec

(* The types of processes, files and tasks; whoever listens on the port of *)
(* a service is that service (session_supervisor.py).                      *)
THEOREM TypesCorrect == Spec => []TypeOK
<1>1. TypeInv => TypeOK
  <2> SUFFICES ASSUME TypeInv PROVE TypeOK
    OBVIOUS
  <2>1. ASSUME NEW a \in Actors, NEW i \in DOMAIN todo[a]
        PROVE  todo[a][i].do \in {"start", "stop", "pause", "resume", "wait", "ensure"}
    <3>1. todo[a] \in Seq(Tasks) BY DEF TypeInv, ControlTypes
    <3>2. todo[a][i] \in Tasks BY ONLY <3>1, <2>1
    <3> QED BY <3>2 DEF Tasks
  <2> QED BY <2>1 DEF TypeInv, OsTypes, FileTypes, ControlTypes, PhaseTypes, TypeOK, Labels
<1> QED BY TypeCorrect, <1>1, PTL

------------------------------------------------------------------------------
(* Whose pids the files and a shell hold *)

(* Whose pids the files and the shell hold, while commands run one after   *)
(* the other: what a command has read is what the file says, what it has   *)
(* started is nobody else's, and a port whose pid file is out of date has  *)
(* nobody listening.                                                       *)
Foreign(p) == p \in Pids /\ proc[p] = "foreign"
HandInv(a) ==
  /\ todo[a] = <<>> => pc[a] = "ready"
  /\ pc[a] \in {"read", "terminated"} => got[a] = pidfile[Svc(a)]
  /\ pc[a] \in {"cleared", "spawned"} => pidfile[Svc(a)] = NoPid
  /\ pc[a] \in {"spawned", "named", "started"} => got[a] \in Pids /\ ~Foreign(got[a])
  /\ pc[a] \in {"named", "started"} => pidfile[Svc(a)] = got[a]
StaleInv == \A s \in Ported : Foreign(pidfile[s]) => \A p \in Pids : proc[p] # s
SparedInv == \A p \in dying : Foreign(p) => p = pidfile["ngrok"]
OffInv == phase = "off" => todo[Supervisor] = <<>>
AloneInv == OneByOne => (\A a \in Shells : HandInv(a)) /\ StaleInv /\ SparedInv

LEMMA InitAlone == Init => OffInv /\ AloneInv
<1> SUFFICES ASSUME Init PROVE OffInv /\ AloneInv
  OBVIOUS
<1>1. /\ \A a \in Actors : todo[a] = <<>> /\ pc[a] = "ready"
      /\ dying = {} /\ \A p \in Pids : proc[p] \in {"foreign", "free"}
  BY DEF Init
<1>2. StaleInv BY <1>1 DEF StaleInv, Ported
<1> QED BY <1>1, <1>2 DEF OffInv, AloneInv, HandInv, SparedInv, Actors

(* What holds of the one shell there is holds of every shell. *)
LEMMA OneHand ==
  ASSUME NEW a \in Shells, OneByOne', HandInv(a)', StaleInv', SparedInv'
  PROVE  AloneInv'
<1>1. \A b \in Shells : b = a BY DEF OneByOne
<1> QED BY <1>1 DEF AloneInv

LEMMA TurnsHand ==
  ASSUME TypeInv, NEW a \in Actors, NEW tasks, Turns(a, tasks)
  PROVE  HandInv(a)'
<1>1. pc'[a] = "ready" BY DEF Turns, TypeInv, ControlTypes
<1> QED BY <1>1 DEF HandInv

LEMMA UntrackStale ==
  ASSUME TypeInv, StaleInv, NEW s, Untrack(s), UNCHANGED proc
  PROVE  StaleInv'
<1> SUFFICES ASSUME NEW t \in Ported, Foreign(pidfile'[t]) PROVE \A p \in Pids : proc[p] # t
  BY DEF StaleInv, Foreign
<1>1. pidfile'[t] = pidfile[t] \/ pidfile'[t] = NoPid
  BY DEF Untrack, TypeInv, FileTypes, Ported, Services
<1>2. pidfile'[t] = pidfile[t] BY <1>1, PidsAssumption DEF Foreign
<1> QED BY <1>2 DEF StaleInv

LEMMA UntrackSpared ==
  ASSUME TypeInv, SparedInv, NEW s, Untrack(s), UNCHANGED <<proc, dying>>,
         s = "ngrok" => ~Foreign(pidfile["ngrok"])
  PROVE  SparedInv'
<1> SUFFICES ASSUME NEW p \in dying, Foreign(p) PROVE p = pidfile'["ngrok"]
  BY DEF SparedInv, Foreign
<1>1. p = pidfile["ngrok"] BY DEF SparedInv
<1>2. s # "ngrok" BY <1>1
<1>3. pidfile'["ngrok"] = pidfile["ngrok"] BY <1>2 DEF Untrack, TypeInv, FileTypes, Services
<1> QED BY <1>1, <1>3

LEMMA WorkIsDone == ASSUME NEW a, Work(a) PROVE todo[a] # <<>> /\ UNCHANGED phase
BY DEF Work, StartStep, StopStep, OtherStep, At, ReadPid, Reuse, Clear, LeaveUnmanaged, Spawn,
       WritePid, WriteMetadata, StayedUp, ExitedQuickly, Forget, Terminate, Stopped, MayStillRun, Unsignalled, Pause, Resume,
       Ready, NotReady, LeaveAlone, Recover, supervision

(* A step that leaves pids, files and signals alone and turns to the next task. *)
LEMMA TurnKeepsAlone ==
  ASSUME TypeInv, StaleInv, SparedInv, OneByOne', NEW a \in Shells, NEW tasks, Turns(a, tasks),
         UNCHANGED <<proc, dying, pidfile>>
  PROVE  AloneInv'
<1>1. a \in Actors BY DEF Actors
<1>2. HandInv(a)' BY <1>1, TurnsHand
<1>3. StaleInv' BY DEF StaleInv, Foreign
<1>4. SparedInv' BY DEF SparedInv, Foreign
<1> QED BY <1>2, <1>3, <1>4, OneHand

LEMMA ExitsKeepsAlone ==
  ASSUME TypeInv, AloneInv, OneByOne, OneByOne', NEW p \in Pids, Exits(p),
         UNCHANGED <<pidfile, todo, pc, got>>
  PROVE  AloneInv'
<1>1. /\ \A q \in Pids : proc'[q] \in {proc[q], "free"}
      /\ dying' \subseteq dying
  BY DEF Exits, TypeInv, OsTypes
<1>2. \A q : Foreign(q)' => Foreign(q) BY <1>1 DEF Foreign
<1>3. StaleInv'
  <2> SUFFICES ASSUME NEW s \in Ported, Foreign(pidfile[s])', NEW q \in Pids PROVE proc'[q] # s
    BY DEF StaleInv
  <2>1. Foreign(pidfile[s]) BY <1>2
  <2>2. proc[q] # s BY <2>1 DEF StaleInv, AloneInv
  <2>3. s # "free" BY DEF Ported
  <2> QED BY <1>1, <2>2, <2>3
<1>4. SparedInv' BY <1>1, <1>2 DEF SparedInv, AloneInv
<1>5. \A a \in Shells : HandInv(a)'
  <2> TAKE a \in Shells
  <2>1. HandInv(a) BY DEF AloneInv
  <2>2. Svc(a)' = Svc(a) BY DEF Svc
  <2> QED BY <1>2, <2>1, <2>2 DEF HandInv
<1> QED BY <1>3, <1>4, <1>5 DEF AloneInv

LEMMA StartKeepsAlone ==
  ASSUME TypeInv, AloneInv, OneByOne, OneByOne', NEW a \in Shells, StartStep(a)
  PROVE  AloneInv'
<1>1. a \in Actors /\ HandInv(a) /\ StaleInv /\ SparedInv /\ ControlTypes
  BY DEF Actors, AloneInv, TypeInv
<1>2. ASSUME UNCHANGED <<proc, dying, pidfile>> PROVE StaleInv' /\ SparedInv'
  BY <1>1, <1>2 DEF StaleInv, SparedInv, Foreign
<1>3. pc \in [Actors -> Labels] /\ got \in [Actors -> MaybePids] BY DEF TypeInv, ControlTypes
<1>4. pidfile \in [Services -> MaybePids] BY DEF TypeInv, FileTypes
<1>5. UNCHANGED todo => Svc(a)' = Svc(a) BY DEF Svc
<1>6. CASE ReadPid(a)
  <2>1. Svc(a) \in Services BY <1>1, <1>6, ServiceAtHand DEF ReadPid
  <2>2. /\ UNCHANGED <<proc, dying, pidfile, todo>>
        /\ got'[a] = pidfile[Svc(a)] /\ pc'[a] = "read" /\ todo[a] # <<>>
    BY <1>1, <1>3, <1>6 DEF ReadPid, Goto, At, osVars, files
  <2>3. HandInv(a)' BY <1>5, <2>2 DEF HandInv
  <2> QED BY <1>2, <2>2, <2>3, OneHand
<1>7. CASE Reuse(a) \/ LeaveUnmanaged(a) \/ StayedUp(a)
  <2>1. UNCHANGED <<proc, dying, pidfile>> /\ Turns(a, Tail(todo[a]))
    BY <1>7 DEF Reuse, LeaveUnmanaged, StayedUp, Done, osVars, files
  <2> QED BY <1>1, <2>1, TurnKeepsAlone
<1>8. CASE Clear(a)
  <2>1. Svc(a) \in Services BY <1>1, <1>8, ServiceAtHand DEF Clear
  <2>2. /\ At(a, "read", "start") /\ ~Believed(Svc(a), got[a]) /\ Untrack(Svc(a))
        /\ UNCHANGED <<proc, dying, todo>> /\ pc'[a] = "cleared"
    BY <1>1, <1>3, <1>8 DEF Clear, Goto, osVars
  <2>3. got[a] = pidfile[Svc(a)] BY <1>1, <2>2 DEF HandInv, At
  <2>4. Svc(a) = "ngrok" => ~Foreign(pidfile["ngrok"])
    BY <2>2, <2>3, PidsAssumption DEF Believed, Alive, Foreign, Ported
  <2>5. StaleInv' /\ SparedInv' BY <1>1, <2>2, <2>4, UntrackStale, UntrackSpared
  <2>6. pidfile'[Svc(a)] = NoPid BY <1>4, <2>1, <2>2 DEF Untrack
  <2>7. HandInv(a)' BY <1>5, <2>2, <2>6 DEF HandInv, At
  <2> QED BY <2>5, <2>7, OneHand
<1>9. CASE Spawn(a)
  <2>1. Svc(a) \in Services /\ Svc(a) # "foreign"
    <3>1. Svc(a) \in Services BY <1>1, <1>9, ServiceAtHand DEF Spawn
    <3> QED BY <3>1 DEF Services
  <2>2. NextPid \in Pids /\ proc[NextPid] = "free" /\ NextPid \notin Remembered
    BY <1>9, NextPidFree DEF Spawn
  <2>3. /\ At(a, "cleared", "start") /\ UNCHANGED <<dying, pidfile, todo>>
        /\ proc' = [proc EXCEPT ![NextPid] = Svc(a)]
        /\ got'[a] = NextPid /\ pc'[a] = "spawned"
    BY <1>1, <1>3, <1>9 DEF Spawn, Goto, files
  <2>4. /\ proc'[NextPid] = Svc(a)
        /\ \A q \in Pids : q # NextPid => proc'[q] = proc[q]
    BY <2>2, <2>3 DEF TypeInv, OsTypes
  <2>5. \A q : Foreign(q)' => Foreign(q) BY <2>1, <2>4 DEF Foreign
  <2>6. pidfile'[Svc(a)] = NoPid BY <1>1, <2>3 DEF HandInv, At
  <2>7. StaleInv'
    <3> SUFFICES ASSUME NEW s \in Ported, Foreign(pidfile[s])', NEW q \in Pids
                 PROVE  proc'[q] # s
      BY DEF StaleInv
    <3>1. Foreign(pidfile[s]) /\ pidfile[s] # NoPid
      BY <2>3, <2>5, PidsAssumption DEF Foreign
    <3>2. proc[q] # s BY <1>1, <3>1 DEF StaleInv
    <3>3. s # Svc(a) BY <2>3, <2>6, <3>1
    <3> QED BY <2>4, <3>2, <3>3
  <2>8. SparedInv' BY <1>1, <2>3, <2>5 DEF SparedInv
  <2>9. HandInv(a)' BY <1>5, <2>1, <2>2, <2>3, <2>4, <2>6 DEF HandInv, At, Foreign
  <2> QED BY <2>7, <2>8, <2>9, OneHand
<1>10. CASE WritePid(a)
  <2>1. Svc(a) \in Services BY <1>1, <1>10, ServiceAtHand DEF WritePid
  <2>2. /\ At(a, "spawned", "start") /\ UNCHANGED <<proc, dying, todo, got>>
        /\ pidfile' = [pidfile EXCEPT ![Svc(a)] = got[a]]
        /\ pc'[a] \in {"named", "started"}
    BY <1>1, <1>3, <1>10 DEF WritePid, Goto, osVars
  <2>3. got[a] \in Pids /\ ~Foreign(got[a]) /\ pidfile[Svc(a)] = NoPid
    BY <1>1, <2>2 DEF HandInv, At
  <2>4. /\ pidfile'[Svc(a)] = got[a]
        /\ \A s \in Services : s # Svc(a) => pidfile'[s] = pidfile[s]
    BY <1>4, <2>1, <2>2
  <2>5. StaleInv'
    <3> SUFFICES ASSUME NEW s \in Ported, Foreign(pidfile[s])', NEW q \in Pids
                 PROVE  proc'[q] # s
      BY DEF StaleInv
    <3>1. Foreign(pidfile'[s]) BY <2>2 DEF Foreign
    <3>2. s # Svc(a) /\ s \in Services BY <2>3, <2>4, <3>1 DEF Ported, Services
    <3>3. Foreign(pidfile[s]) BY <2>4, <3>1, <3>2
    <3> QED BY <1>1, <2>2, <3>3 DEF StaleInv
  <2>6. SparedInv'
    <3> SUFFICES ASSUME NEW q \in dying, Foreign(q) PROVE q = pidfile'["ngrok"]
      BY <2>2 DEF SparedInv, Foreign
    <3>1. q = pidfile["ngrok"] /\ q # NoPid BY <1>1, PidsAssumption DEF SparedInv, Foreign
    <3>2. Svc(a) # "ngrok" BY <2>3, <3>1
    <3> QED BY <2>4, <3>1, <3>2 DEF Services
  <2>7. ~Foreign(got[a])' BY <2>2, <2>3 DEF Foreign
  <2>8. HandInv(a)' BY <1>5, <2>2, <2>3, <2>4, <2>7 DEF HandInv, At
  <2> QED BY <2>5, <2>6, <2>8, OneHand
<1>11. CASE WriteMetadata(a)
  <2>1. /\ At(a, "named", "start") /\ UNCHANGED <<proc, dying, pidfile, todo, got>>
        /\ pc'[a] = "started"
    BY <1>1, <1>3, <1>11 DEF WriteMetadata, Goto, osVars
  <2>2. ~Foreign(got[a]) => ~Foreign(got[a])' BY <2>1 DEF Foreign
  <2>3. HandInv(a)' BY <1>1, <1>5, <2>1, <2>2 DEF HandInv, At
  <2> QED BY <1>2, <2>1, <2>3, OneHand
<1>12. CASE ExitedQuickly(a)
  <2>1. /\ At(a, "started", "start") /\ ~Alive(got[a]) /\ Untrack(Svc(a))
        /\ UNCHANGED <<proc, dying>>
    BY <1>12 DEF ExitedQuickly, osVars
  <2>2. pidfile[Svc(a)] = got[a] BY <1>1, <2>1 DEF HandInv, At
  <2>3. Svc(a) = "ngrok" => ~Foreign(pidfile["ngrok"])
    BY <2>1, <2>2, PidsAssumption DEF Alive, Foreign
  <2>4. StaleInv' /\ SparedInv' BY <1>1, <2>1, <2>3, UntrackStale, UntrackSpared
  <2>5. Turns(a, Tail(todo[a])) \/ Turns(a, GiveUpStart) BY <1>12 DEF ExitedQuickly, Done
  <2>6. HandInv(a)' BY <1>1, <2>5, TurnsHand
  <2> QED BY <2>4, <2>6, OneHand
<1> QED BY <1>6, <1>7, <1>8, <1>9, <1>10, <1>11, <1>12 DEF StartStep

(* Only what is believed to be the service is sent a signal: a service     *)
(* that has a port, if it is reachable, which it is not while the file     *)
(* names somebody else; the connector, if the metadata name it.            *)
LEMMA StopKeepsAlone ==
  ASSUME TypeInv, AloneInv, OneByOne, OneByOne', NEW a \in Shells, StopStep(a)
  PROVE  AloneInv'
<1>1. a \in Actors /\ HandInv(a) /\ StaleInv /\ SparedInv /\ ControlTypes
  BY DEF Actors, AloneInv, TypeInv
<1>2. Svc(a) \in Services
  <2>1. \E label : At(a, label, "stop") BY DEF StopStep, Forget, Terminate, Stopped, MayStillRun, Unsignalled
  <2> QED BY <1>1, <2>1, ServiceAtHand DEF TypeInv
<1>3. todo[a] # <<>> /\ got[a] = pidfile[Svc(a)]
  BY <1>1 DEF StopStep, Forget, Terminate, Stopped, MayStillRun, Unsignalled, At, HandInv
<1>4. CASE Forget(a) \/ Stopped(a)
  <2>1. /\ UNCHANGED files \/ Untrack(Svc(a))
        /\ UNCHANGED <<proc, dying>> /\ Turns(a, Tail(todo[a]))
    BY <1>4 DEF Forget, Stopped, Done, osVars
  <2>2. Svc(a) = "ngrok" => ~Foreign(pidfile["ngrok"])
    BY <1>3, <1>4, PidsAssumption DEF Forget, Stopped, Believed, Alive, Foreign, Ported
  <2>3. CASE UNCHANGED files
    BY <1>1, <2>1, <2>3, TurnKeepsAlone DEF files
  <2>4. CASE Untrack(Svc(a))
    <3>1. StaleInv' /\ SparedInv' BY <1>1, <2>1, <2>2, <2>4, UntrackStale, UntrackSpared
    <3>2. HandInv(a)' BY <1>1, <2>1, TurnsHand
    <3> QED BY <3>1, <3>2, OneHand
  <2> QED BY <2>1, <2>3, <2>4
<1>5. CASE Terminate(a)
  <2>1. /\ Believed(Svc(a), got[a]) /\ dying' = dying \cup {got[a]}
        /\ UNCHANGED <<proc, pidfile, todo, got>> /\ pc'[a] = "terminated"
    BY <1>1, <1>5 DEF Terminate, Goto, files, TypeInv, ControlTypes
  <2>2. Foreign(got[a]) => Svc(a) = "ngrok"
    <3> SUFFICES ASSUME Foreign(got[a]), Svc(a) # "ngrok" PROVE FALSE
      OBVIOUS
    <3>1. CASE Svc(a) = "cloudflared" BY <2>1, <3>1 DEF Believed, Matches, Foreign
    <3>2. CASE Svc(a) \in Ported
      <4>1. bound[Svc(a)] # NoPid BY <2>1, <3>2 DEF Believed, Reachable
      <4>2. bound[Svc(a)] \in Pids /\ proc[bound[Svc(a)]] = Svc(a)
        BY <3>2, <4>1 DEF TypeInv, OsTypes, MaybePids
      <4>3. \A p \in Pids : proc[p] # Svc(a) BY <1>1, <1>3, <3>2 DEF StaleInv
      <4> QED BY <4>2, <4>3
    <3> QED BY <1>2, <3>1, <3>2 DEF Services, Ported
  <2>3. StaleInv' BY <1>1, <2>1 DEF StaleInv, Foreign
  <2>4. SparedInv' BY <1>1, <1>3, <2>1, <2>2 DEF SparedInv, Foreign
  <2>5. Svc(a)' = Svc(a) BY <2>1 DEF Svc
  <2>6. HandInv(a)' BY <1>3, <2>1, <2>5 DEF HandInv
  <2> QED BY <2>3, <2>4, <2>6, OneHand
<1>6. CASE MayStillRun(a) \/ Unsignalled(a)
  <2>1. UNCHANGED <<proc, dying, pidfile>> /\ Turns(a, Tail(todo[a]))
    BY <1>6 DEF MayStillRun, Unsignalled, Done, osVars, files
  <2> QED BY <1>1, <2>1, TurnKeepsAlone
<1> QED BY <1>4, <1>5, <1>6 DEF StopStep

LEMMA OtherKeepsAlone ==
  ASSUME TypeInv, AloneInv, OneByOne, OneByOne', NEW a \in Shells, OtherStep(a)
  PROVE  AloneInv'
<1>1. UNCHANGED <<proc, dying, pidfile>> /\ \E tasks : Turns(a, tasks)
  BY DEF OtherStep, Pause, Resume, Ready, NotReady, LeaveAlone, Recover, Done, osVars, files
<1> QED BY <1>1, TurnKeepsAlone DEF AloneInv

LEMMA NextKeepsOff == ASSUME TypeInv, OffInv, [Next]_vars PROVE OffInv'
<1> SUFFICES ASSUME phase' = "off" PROVE todo'[Supervisor] = <<>>
  BY DEF OffInv
<1>1. CASE UNCHANGED vars BY <1>1 DEF vars, OffInv
<1>2. CASE StartSupervisor \/ Supervise \/ Leave \/ Left \/ Sigterm
  BY <1>2 DEF StartSupervisor, Supervise, Leave, Left, Sigterm, OffInv, control, supervision
<1>3. ASSUME NEW a \in Actors, NEW tasks, phase = "off", a # Supervisor,
             Turns(a, tasks) \/ UNCHANGED todo
      PROVE  todo'[Supervisor] = <<>>
  BY <1>3 DEF Turns, OffInv, TypeInv, ControlTypes, Actors
<1>4. ASSUME NEW a \in Actors, Work(a) PROVE todo'[Supervisor] = <<>>
  <2>1. phase = "off" /\ a # Supervisor BY <1>4, WorkIsDone DEF OffInv
  <2>2. UNCHANGED todo \/ \E tasks : Turns(a, tasks)
    BY <1>4 DEF Work, StartStep, StopStep, OtherStep, ReadPid, Reuse, Clear, LeaveUnmanaged, Spawn,
           WritePid, WriteMetadata, StayedUp, ExitedQuickly, Forget, Terminate, Stopped, MayStillRun, Unsignalled, Pause,
           Resume, Ready, NotReady, LeaveAlone, Recover, Done
  <2> QED BY <1>3, <2>1, <2>2
<1>5. ASSUME NEW a \in Shells, KillCommand(a) \/ \E c \in Commands : RunCommand(a, c)
      PROVE  todo'[Supervisor] = <<>>
  <2>1. phase = "off" /\ a # Supervisor /\ a \in Actors /\ \E tasks : Turns(a, tasks)
    BY <1>5, ActorsAssumption DEF KillCommand, RunCommand, Actors
  <2> QED BY <1>3, <2>1
<1>6. ASSUME NEW p \in Pids, Process(p) \/ Crash(p) PROVE todo'[Supervisor] = <<>>
  BY <1>6 DEF Process, BindPort, LosePort, Die, Crash, control, supervision, OffInv
<1> QED BY <1>1, <1>2, <1>4, <1>5, <1>6 DEF Next

LEMMA NextKeepsAlone == ASSUME TypeInv, OffInv, AloneInv, [Next]_vars PROVE AloneInv'
<1> SUFFICES ASSUME OneByOne' PROVE AloneInv'
  BY DEF AloneInv
<1>1. CASE UNCHANGED vars
  BY <1>1 DEF vars, AloneInv, OneByOne, HandInv, StaleInv, SparedInv, Foreign, Svc
<1>2. ASSUME NEW a \in Actors, Work(a) PROVE AloneInv'
  <2>1. OneByOne /\ todo[a] # <<>> BY <1>2, WorkIsDone DEF OneByOne
  <2>2. a \in Shells BY <2>1 DEF OffInv, OneByOne, Actors
  <2> QED BY <1>2, <2>1, <2>2, StartKeepsAlone, StopKeepsAlone, OtherKeepsAlone DEF Work
<1>3. CASE StartSupervisor \/ Supervise \/ Leave \/ Left \/ Sigterm
  BY <1>3 DEF StartSupervisor, Supervise, Leave, Left, Sigterm, OneByOne, supervision
<1>4. ASSUME NEW a \in Shells, KillCommand(a) \/ \E c \in Commands : RunCommand(a, c)
      PROVE  AloneInv'
  <2>1. /\ OneByOne /\ UNCHANGED <<proc, dying, pidfile>> /\ \E tasks : Turns(a, tasks)
    BY <1>4 DEF KillCommand, RunCommand, OneByOne, osVars, files
  <2> QED BY <2>1, TurnKeepsAlone DEF AloneInv
<1>5. ASSUME NEW p \in Pids, BindPort(p) PROVE AloneInv'
  BY <1>5 DEF BindPort, files, control, supervision, AloneInv, OneByOne, HandInv, StaleInv,
              SparedInv, Foreign, Svc
<1>6. ASSUME NEW p \in Pids, LosePort(p) \/ Die(p) \/ Crash(p) PROVE AloneInv'
  <2>1. OneByOne /\ Exits(p) /\ UNCHANGED <<pidfile, todo, pc, got>>
    BY <1>6 DEF LosePort, Die, Crash, files, control, supervision, OneByOne
  <2> QED BY <2>1, ExitsKeepsAlone
<1> QED BY <1>1, <1>2, <1>3, <1>4, <1>5, <1>6 DEF Next, Process

(* A command is never the end of a program that only has the pid of a      *)
(* service of an earlier boot, but for that of ngrok (session_supervisor   *)
(* stop_service, operator_cli stop_cloudflared).                           *)
THEOREM OthersSpared == Spec => []SparesOthers
<1> DEFINE Inv == TypeInv /\ OffInv /\ AloneInv
<1>1. Init => Inv BY InitTypes, InitAlone
<1>2. Inv /\ [Next]_vars => Inv' BY NextKeepsTypes, NextKeepsOff, NextKeepsAlone
<1>3. Inv => SparesOthers
  BY DEF AloneInv, SparedInv, SparesOthers, Foreign, TypeInv, OsTypes
<1> QED BY <1>1, <1>2, <1>3, PTL DEF Spec
=============================================================================
