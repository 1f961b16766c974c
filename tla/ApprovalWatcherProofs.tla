------------------------ MODULE ApprovalWatcherProofs ------------------------
(***************************************************************************)
(* Theorems about ApprovalWatcher, for any number of bundles, watchers and *)
(* saves at the same time, with restarts, kills and every button.          *)
(***************************************************************************)
EXTENDS ApprovalWatcher, TLAPS

(* A watcher has a bundle in hand exactly from taking it up to its end,    *)
(* and has read a mode for it when it decides.                             *)
Busy == {"readGlobal", "deciding", "waiting"}
JobInv ==
  \A w \in Watchers :
    /\ job[w] # None <=> pc[w] \in Busy
    /\ pc[w] \in {"deciding", "waiting"} => job[w].mode \in Modes

TypeInv == TypeOK /\ JobInv

Files == [Scopes -> [says : Modes \cup {"absent", "nothing"}, size : 0..3]]
Jobs == [bundle : Bundles, mode : Modes \cup {"none"}]
RunnerStates == {"none", "starting", "running", "over"}

LEMMA NamesDiffer ==
  /\ {"absent", "nothing", "none", "idle"} \cap Modes = {}
  /\ User \notin Watchers /\ Watchers \subseteq Launchers /\ User \in Launchers
BY ApprovalAssumption DEF Launchers

LEMMA JobsAreReal == None \notin Jobs
BY NamesDiffer, ApprovalAssumption DEF None, Jobs

LEMMA Sizes == ASSUME NEW m \in Modes PROVE Size(m) \in 1..3
BY ApprovalAssumption DEF Size

LEMMA GlobalModeType == ASSUME NEW files PROVE GlobalMode(files) \in Modes
BY ApprovalAssumption DEF GlobalMode

LEMMA InitTypes == Init => TypeInv
<1> SUFFICES ASSUME Init PROVE TypeInv
  OBVIOUS
<1>1. modeFile \in Files
  <2>1. PICK f \in [Scopes -> Modes \cup {"absent"}] :
          modeFile = [s \in Scopes |-> IF f[s] = "absent" THEN NoFile
                                       ELSE [says |-> f[s], size |-> Size(f[s])]]
    BY DEF Init
  <2>2. ASSUME NEW s \in Scopes, f[s] # "absent"
        PROVE  [says |-> f[s], size |-> Size(f[s])]
                 \in [says : Modes \cup {"absent", "nothing"}, size : 0..3]
    <3>1. f[s] \in Modes BY <2>2
    <3>2. Size(f[s]) \in 0..3 BY <3>1, Sizes
    <3> QED BY <3>1, <3>2
  <2>3. NoFile \in [says : Modes \cup {"absent", "nothing"}, size : 0..3] BY DEF NoFile
  <2> QED BY <2>1, <2>2, <2>3 DEF Files
<1>2. TypeOK
  <2>1. status \in [Bundles -> Statuses] /\ modeFile \in Files
    BY <1>1 DEF Init, Statuses
  <2>2. saving \in [Savers -> [scope : Scopes, mode : Modes, linked : BOOLEAN] \cup {Idle}]
    BY DEF Init
  <2>3. /\ pc \in [Watchers -> Labels] /\ booting \subseteq Watchers
        /\ seen \in [Watchers -> SUBSET Bundles]
        /\ rows \in [Watchers -> SUBSET Bundles]
        /\ job \in [Watchers -> Jobs \cup {None}]
        /\ spared \in [Watchers -> SUBSET Bundles]
        /\ yoloSent \subseteq Bundles
        /\ permitted \subseteq Watchers /\ disturbed \subseteq Watchers
    BY DEF Init, Labels
  <2>4. runner \in [Bundles -> [Launchers -> RunnerStates]]
    BY DEF Init, RunnerStates
  <2>5. told \in [Bundles -> BOOLEAN]
    BY DEF Init
  <2> QED BY <2>1, <2>2, <2>3, <2>4, <2>5 DEF TypeOK, Files, Jobs, RunnerStates
<1>3. JobInv BY DEF Init, JobInv, Busy
<1> QED BY <1>2, <1>3 DEF TypeInv

(* What a mode file may become. *)
LEMMA Contents ==
  /\ NoFile \in [says : Modes \cup {"absent", "nothing"}, size : 0..3]
  /\ Emptied \in [says : Modes \cup {"absent", "nothing"}, size : 0..3]
  /\ \A f \in [says : Modes \cup {"absent", "nothing"}, size : 0..3], m \in Modes :
       Overwritten(f, m) \in [says : Modes \cup {"absent", "nothing"}, size : 0..3]
<1>1. ASSUME NEW f \in [says : Modes \cup {"absent", "nothing"}, size : 0..3], NEW m \in Modes
      PROVE  Overwritten(f, m) \in [says : Modes \cup {"absent", "nothing"}, size : 0..3]
  <2>1. Size(m) \in 0..3 /\ f.size \in 0..3 BY Sizes
  <2> QED BY <2>1 DEF Overwritten
<1> QED BY <1>1 DEF NoFile, Emptied

(* The steps of the review server's threads that touch a mode file. *)
ModeStep ==
  \/ \E r \in Savers : SaverStep(r) \/ \E s \in Scopes, m \in Modes : OpenModeFile(r, s, m)
  \/ DeleteMode

LEMMA ModesKeepTypes ==
  ASSUME TypeInv, ModeStep
  PROVE  TypeInv'
<1> USE DEF TypeInv, TypeOK
<1>1. UNCHANGED <<status, runner, pc, booting, seen, rows, job, told, spared, yoloSent>>
  BY DEF ModeStep, SaverStep, OpenModeFile, WriteModeFile, FailSave, DeleteMode, watcherVars
<1>2. JobInv' BY <1>1 DEF JobInv
<1>3. permitted' \subseteq Watchers /\ disturbed' \subseteq Watchers
  <2>1. Remember \/ UNCHANGED history
    BY DEF ModeStep, SaverStep, OpenModeFile, WriteModeFile, FailSave, DeleteMode
  <2> QED BY <2>1 DEF Remember, Reading, history
<1>4. /\ modeFile' \in Files
      /\ saving' \in [Savers -> [scope : Scopes, mode : Modes, linked : BOOLEAN] \cup {Idle}]
  <2>1. ASSUME NEW r \in Savers, NEW s \in Scopes, NEW m \in Modes, OpenModeFile(r, s, m)
        PROVE  /\ modeFile' \in Files
               /\ saving' \in [Savers -> [scope : Scopes, mode : Modes, linked : BOOLEAN] \cup {Idle}]
    BY <2>1, Contents DEF OpenModeFile, Files
  <2>2. ASSUME NEW r \in Savers, WriteModeFile(r)
        PROVE  /\ modeFile' \in Files
               /\ saving' \in [Savers -> [scope : Scopes, mode : Modes, linked : BOOLEAN] \cup {Idle}]
    <3>1. saving[r] \in [scope : Scopes, mode : Modes, linked : BOOLEAN]
      BY <2>2 DEF WriteModeFile
    <3>2. Overwritten(modeFile[saving[r].scope], saving[r].mode)
            \in [says : Modes \cup {"absent", "nothing"}, size : 0..3]
      BY <3>1, Contents
    <3>3. modeFile' \in Files BY <2>2, <3>1, <3>2 DEF WriteModeFile, Files
    <3> QED BY <2>2, <3>3 DEF WriteModeFile
  <2>3. ASSUME NEW r \in Savers, FailSave(r)
        PROVE  /\ modeFile' \in Files
               /\ saving' \in [Savers -> [scope : Scopes, mode : Modes, linked : BOOLEAN] \cup {Idle}]
    BY <2>3 DEF FailSave, Files
  <2>4. ASSUME DeleteMode
        PROVE  /\ modeFile' \in Files
               /\ saving' \in [Savers -> [scope : Scopes, mode : Modes, linked : BOOLEAN] \cup {Idle}]
    <3>1. modeFile' \in Files BY <2>4, Contents DEF DeleteMode, Files
    <3>2. ASSUME NEW r \in Savers
          PROVE  (IF saving[r].scope = "task" THEN [saving[r] EXCEPT !.linked = FALSE] ELSE saving[r])
                   \in [scope : Scopes, mode : Modes, linked : BOOLEAN] \cup {Idle}
      <4>1. CASE saving[r] = Idle BY <4>1 DEF Idle
      <4>2. CASE saving[r] # Idle
        <5>1. saving[r] \in [scope : Scopes, mode : Modes, linked : BOOLEAN] BY <4>2
        <5>2. [saving[r] EXCEPT !.linked = FALSE] \in [scope : Scopes, mode : Modes, linked : BOOLEAN]
          BY ONLY <5>1
        <5> QED BY <5>1, <5>2
      <4> QED BY <4>1, <4>2
    <3> QED BY <2>4, <3>1, <3>2 DEF DeleteMode
  <2> QED BY <2>1, <2>2, <2>3, <2>4 DEF ModeStep, SaverStep
<1> QED BY <1>1, <1>2, <1>3, <1>4 DEF Files

(* Buttons and runners. *)
LEMMA BundlesKeepTypes ==
  ASSUME TypeInv, NEW b \in Bundles,
         \/ Stage(b) \/ Approve(b) \/ Reject(b)
         \/ \E l \in Launchers : RunnerStep(b, l) \/ KillRunner(b, l)
  PROVE  TypeInv'
<1> USE DEF TypeInv, TypeOK, watcherVars, modeVars, history, Statuses
<1>1. ASSUME NEW l \in Launchers, NEW state \in RunnerStates, SetRunner(b, l, state)
      PROVE  runner' \in [Bundles -> [Launchers -> RunnerStates]]
  BY <1>1 DEF SetRunner, RunnerStates
<1>2. UNCHANGED <<modeFile, saving, pc, booting, seen, rows, job, told, spared, yoloSent,
                  permitted, disturbed>>
  BY DEF Stage, Approve, Reject, RunnerStep, Claim, Finish, KillRunner
<1>3. status' \in [Bundles -> Statuses]
  <2>1. CASE Stage(b) \/ Reject(b) BY <2>1 DEF Stage, Reject
  <2>2. CASE Approve(b) BY <2>2 DEF Approve
  <2>3. ASSUME NEW l \in Launchers, RunnerStep(b, l) \/ KillRunner(b, l)
        PROVE  status' \in [Bundles -> Statuses]
    <3>1. CASE Claim(b, l)
      <4>1. status' = status \/ status' = [status EXCEPT ![b] = "running"]
        BY <3>1 DEF Claim
      <4> QED BY <4>1
    <3>2. CASE Finish(b, l) BY <3>2 DEF Finish
    <3>3. CASE KillRunner(b, l) BY <3>3 DEF KillRunner
    <3> QED BY <2>3, <3>1, <3>2, <3>3 DEF RunnerStep
  <2> QED BY <2>1, <2>2, <2>3
<1>4. runner' \in [Bundles -> [Launchers -> RunnerStates]]
  <2>1. CASE Stage(b) \/ Reject(b) BY <2>1 DEF Stage, Reject, RunnerStates
  <2>2. CASE Approve(b) BY <2>2, NamesDiffer DEF Approve, RunnerStates
  <2>3. ASSUME NEW l \in Launchers, RunnerStep(b, l) \/ KillRunner(b, l)
        PROVE  runner' \in [Bundles -> [Launchers -> RunnerStates]]
    BY <1>1, <2>3 DEF RunnerStep, Claim, Finish, KillRunner, RunnerStates
  <2> QED BY <2>1, <2>2, <2>3
<1>5. TypeOK' BY <1>2, <1>3, <1>4 DEF RunnerStates
<1>6. JobInv' BY <1>2 DEF JobInv
<1> QED BY <1>5, <1>6

(* The steps of a watcher. *)
WatcherMoves(w) == StartWatcher(w) \/ StopWatcher(w) \/ WatcherStep(w)

LEMMA WatchersKeepTypes ==
  ASSUME TypeInv, NEW w \in Watchers, WatcherMoves(w)
  PROVE  TypeInv'
<1> USE DEF TypeInv, TypeOK, modeVars, history, Goto, Labels, Busy
<1>1. PendingNow \subseteq Bundles BY DEF PendingNow
<1>2. None \notin Jobs BY JobsAreReal
<1>3. CASE StartWatcher(w)
  <2>1. TypeOK' BY <1>1, <1>3 DEF StartWatcher
  <2>2. JobInv' BY <1>3 DEF StartWatcher, JobInv
  <2> QED BY <2>1, <2>2
<1>4. CASE StopWatcher(w)
  <2>1. TypeOK' BY <1>4 DEF StopWatcher, Drop
  <2>2. JobInv' BY <1>4 DEF StopWatcher, Drop, JobInv
  <2> QED BY <2>1, <2>2
<1>5. CASE Poll(w)
  <2>1. TypeOK' BY <1>1, <1>5 DEF Poll
  <2>2. JobInv' BY <1>5 DEF Poll, JobInv
  <2> QED BY <2>1, <2>2
<1>6. CASE EndLoop(w)
  <2>1. TypeOK' BY <1>6 DEF EndLoop
  <2>2. JobInv' BY <1>6 DEF EndLoop, JobInv
  <2> QED BY <2>1, <2>2
<1>7. ASSUME NEW b \in Bundles, TakeUp(w, b) PROVE TypeInv'
  <2>1. PICK m \in Modes \cup {"none"}, label \in {"deciding", "readGlobal"} :
          /\ job' = [job EXCEPT ![w] = [bundle |-> b, mode |-> m]]
          /\ pc' = [pc EXCEPT ![w] = label]
          /\ label = "deciding" => m \in Modes
    BY <1>7 DEF TakeUp
  <2>2. [bundle |-> b, mode |-> m] \in Jobs BY DEF Jobs
  <2>3. job' \in [Watchers -> Jobs \cup {None}] /\ job'[w] # None /\ job'[w].mode = m
    BY <2>1, <2>2, <1>2 DEF Jobs
  <2>4. permitted' \subseteq Watchers /\ disturbed' \subseteq Watchers BY <1>7 DEF TakeUp
  <2>5. TypeOK' BY <1>7, <2>1, <2>3, <2>4 DEF TakeUp, Jobs
  <2>6. JobInv' BY <2>1, <2>3 DEF JobInv
  <2> QED BY <2>5, <2>6
<1>8. CASE ReadGlobal(w)
  <2>1. GlobalMode(modeFile) \in Modes BY GlobalModeType
  <2>2. job[w] \in Jobs BY <1>8 DEF ReadGlobal, JobInv, Jobs
  <2>3. [job[w] EXCEPT !.mode = GlobalMode(modeFile)] \in Jobs BY <2>1, <2>2 DEF Jobs
  <2>4. /\ job' = [job EXCEPT ![w] = [job[w] EXCEPT !.mode = GlobalMode(modeFile)]]
        /\ pc' = [pc EXCEPT ![w] = "deciding"]
    BY <1>8 DEF ReadGlobal
  <2>5. job' \in [Watchers -> Jobs \cup {None}] /\ job'[w] # None /\ job'[w].mode \in Modes
    BY <2>1, <2>2, <2>3, <2>4, <1>2 DEF Jobs
  <2>6. TypeOK' BY <1>8, <2>4, <2>5 DEF ReadGlobal, Jobs
  <2>7. JobInv' BY <2>4, <2>5 DEF JobInv
  <2> QED BY <2>6, <2>7
<1>9. CASE Spare(w)
  <2>1. job[w].bundle \in Bundles BY <1>9 DEF Spare, JobInv
  <2>2. seen' \in [Watchers -> SUBSET Bundles] /\ spared' \in [Watchers -> SUBSET Bundles]
    <3>1. \/ UNCHANGED <<seen, spared>>
          \/ /\ seen' = [seen EXCEPT ![w] = @ \cup {job[w].bundle}]
             /\ spared' = [spared EXCEPT ![w] = @ \cup {job[w].bundle}]
      BY <1>9 DEF Spare, See
    <3>2. seen \in [Watchers -> SUBSET Bundles] /\ spared \in [Watchers -> SUBSET Bundles]
      OBVIOUS
    <3>3. ASSUME NEW f \in [Watchers -> SUBSET Bundles], NEW b \in Bundles
          PROVE  [f EXCEPT ![w] = @ \cup {b}] \in [Watchers -> SUBSET Bundles]
      OBVIOUS
    <3> QED BY ONLY <2>1, <3>1, <3>2, <3>3
  <2>3. TypeOK' BY <1>9, <2>2 DEF Spare, Drop
  <2>4. JobInv' BY <1>9 DEF Spare, Drop, JobInv
  <2> QED BY <2>3, <2>4
<1>10. CASE HandleManual(w)
  <2>1. job[w].bundle \in Bundles BY <1>10 DEF HandleManual, JobInv
  <2>2. Notifies \in BOOLEAN BY ApprovalAssumption
  <2>3. TypeOK' BY <1>10, <2>1, <2>2 DEF HandleManual, AskUser, See, Drop
  <2>4. JobInv' BY <1>10 DEF HandleManual, Drop, JobInv
  <2> QED BY <2>3, <2>4
<1>11. CASE Launch(w)
  <2>1. job[w].bundle \in Bundles BY <1>11 DEF Launch, JobInv
  <2>2. UNCHANGED runner \/ SetRunner(job[w].bundle, w, "starting") BY <1>11 DEF Launch
  <2>3. runner' \in [Bundles -> [Launchers -> RunnerStates]]
    <3>1. w \in Launchers BY NamesDiffer
    <3>2. CASE UNCHANGED runner BY <3>2 DEF RunnerStates
    <3>3. CASE SetRunner(job[w].bundle, w, "starting")
      BY <2>1, <3>1, <3>3 DEF SetRunner, RunnerStates
    <3> QED BY <2>2, <3>2, <3>3
  <2>4. yoloSent' \subseteq Bundles BY <1>11, <2>1 DEF Launch
  <2>5. TypeOK' BY <1>11, <2>3, <2>4 DEF Launch, RunnerStates
  <2>6. JobInv' BY <1>11 DEF Launch, JobInv
  <2> QED BY <2>5, <2>6
<1>12. CASE RunnerOver(w)
  <2>1. job[w].bundle \in Bundles BY <1>12 DEF RunnerOver, JobInv
  <2>2. Notifies \in BOOLEAN BY ApprovalAssumption
  <2>3. /\ seen' = [seen EXCEPT ![w] = @ \cup {job[w].bundle}]
        /\ UNCHANGED told \/ told' = [told EXCEPT ![job[w].bundle] = @ \/ Notifies]
    BY <1>12 DEF RunnerOver, FallBack, AskUser, See
  <2>4. TypeOK'
    <3>1. seen' \in [Watchers -> SUBSET Bundles]
      <4>1. seen \in [Watchers -> SUBSET Bundles] BY DEF TypeOK
      <4> QED BY ONLY <2>1, <2>3, <4>1
    <3>2. told' \in [Bundles -> BOOLEAN]
      <4>1. told \in [Bundles -> BOOLEAN] BY DEF TypeOK
      <4> QED BY ONLY <2>1, <2>2, <2>3, <4>1
    <3>3. job' \in [Watchers -> [bundle : Bundles, mode : Modes \cup {"none"}] \cup {None}]
      BY <1>12 DEF RunnerOver, Drop
    <3> QED BY <1>12, <3>1, <3>2, <3>3 DEF RunnerOver, Drop
  <2>5. JobInv' BY <1>12 DEF RunnerOver, Drop, JobInv
  <2> QED BY <2>4, <2>5
<1> QED BY <1>3, <1>4, <1>5, <1>6, <1>7, <1>8, <1>9, <1>10, <1>11, <1>12
        DEF WatcherMoves, WatcherStep, Handle
------------------------------------------------------------------------------

LEMMA NextKeepsTypes == ASSUME TypeInv, [Next]_vars PROVE TypeInv'
<1>1. CASE UNCHANGED vars
  BY <1>1 DEF vars, TypeInv, TypeOK, JobInv
<1>2. CASE Next
  BY <1>2, ModesKeepTypes, BundlesKeepTypes, WatchersKeepTypes DEF Next, ModeStep, WatcherMoves
<1> QED BY <1>1, <1>2

(* A watcher has a bundle in hand exactly from taking it up to its end. *)
THEOREM TypeCorrect == Spec => []TypeInv
BY InitTypes, NextKeepsTypes, PTL DEF Spec

(* The type invariant of watchers, modes, runners and buttons              *)
(* (bundle_watcher.py, approval_modes.py), with any number of saves of a   *)
(* mode under way at the same time.                                        *)
THEOREM TypesCorrect == Spec => []TypeOK
<1>1. TypeInv => TypeOK BY DEF TypeInv
<1> QED BY TypeCorrect, <1>1, PTL
------------------------------------------------------------------------------
(* Under which mode a watcher acts. *)

(* Between the two reads, the file of the task has not been there so far,  *)
(* or the watcher has been disturbed; and what the modes allow is noted.   *)
(* From then on the mode it has read allows no more than was noted.        *)
AutoInv ==
  \A w \in Watchers :
    /\ pc[w] = "readGlobal" =>
         \/ w \in disturbed
         \/ /\ (job[w].bundle \in Scoped => modeFile["task"].says = "absent")
            /\ (Permits(job[w].bundle, modeFile) => w \in permitted)
    /\ (pc[w] \in {"deciding", "waiting"} /\ Automatic(w)) => w \in permitted \cup disturbed
    /\ pc[w] = "waiting" => Automatic(w)

LEMMA NothingIsAutomatic ==
  ASSUME NEW b \in Bundles, NEW m, m \notin Modes \/ m = "normal", m \notin {"yolo", "safe-auto"}
  PROVE  ~ShouldAutoApprove(b, m)
BY DEF ShouldAutoApprove

LEMMA ModesKeepAuto ==
  ASSUME TypeInv, AutoInv, ModeStep
  PROVE  AutoInv'
<1> USE DEF TypeInv, TypeOK
<1>1. UNCHANGED <<pc, job>>
  BY DEF ModeStep, SaverStep, OpenModeFile, WriteModeFile, FailSave, DeleteMode, watcherVars
<1>2. Remember \/ UNCHANGED <<modeFile, permitted, disturbed>>
  BY DEF ModeStep, SaverStep, OpenModeFile, WriteModeFile, FailSave, DeleteMode, history
<1>3. CASE UNCHANGED <<modeFile, permitted, disturbed>>
  BY <1>1, <1>3 DEF AutoInv, Automatic
<1>4. CASE Remember
  <2> SUFFICES ASSUME NEW w \in Watchers
               PROVE  /\ pc[w] = "readGlobal" =>
                           \/ w \in disturbed'
                           \/ /\ (job[w].bundle \in Scoped => modeFile'["task"].says = "absent")
                              /\ (Permits(job[w].bundle, modeFile') => w \in permitted')
                      /\ (pc[w] \in {"deciding", "waiting"} /\ Automatic(w))
                           => w \in permitted' \cup disturbed'
                      /\ pc[w] = "waiting" => Automatic(w)
    BY <1>1 DEF AutoInv, Automatic
  <2>1. permitted \subseteq permitted' /\ disturbed \subseteq disturbed' BY <1>4 DEF Remember
  <2>2. CASE pc[w] = "readGlobal"
    <3>1. w \in Reading BY <2>2 DEF Reading
    <3>2. Permits(job[w].bundle, modeFile') => w \in permitted' BY <1>4, <3>1 DEF Remember
    <3>3. CASE w \in disturbed BY <2>1, <2>2, <3>3
    <3>4. CASE w \notin disturbed /\ job[w].bundle \in Scoped /\ modeFile'["task"] # modeFile["task"]
      <4>1. w \in disturbed' BY <1>4, <3>1, <3>4 DEF Remember
      <4> QED BY <2>2, <4>1
    <3>5. CASE w \notin disturbed /\ (job[w].bundle \in Scoped => modeFile'["task"] = modeFile["task"])
      <4>1. job[w].bundle \in Scoped => modeFile["task"].says = "absent"
        BY <2>2, <3>5 DEF AutoInv
      <4> QED BY <2>2, <3>2, <3>5, <4>1
    <3> QED BY <3>3, <3>4, <3>5
  <2>3. CASE pc[w] # "readGlobal" BY <2>1, <2>3 DEF AutoInv
  <2> QED BY <2>2, <2>3
<1> QED BY <1>2, <1>3, <1>4

LEMMA WatchersKeepAuto ==
  ASSUME TypeInv, AutoInv, NEW w \in Watchers, WatcherMoves(w)
  PROVE  AutoInv'
<1> USE DEF TypeInv, TypeOK, Goto
<1>1. UNCHANGED modeFile
  BY DEF WatcherMoves, WatcherStep, Handle, StartWatcher, StopWatcher, Poll, EndLoop, TakeUp,
         ReadGlobal, Spare, HandleManual, Launch, RunnerOver, modeVars
(* It is enough to look at w. *)
<1>2. ASSUME \A v \in Watchers : v # w => /\ pc'[v] = pc[v] /\ job'[v] = job[v]
                                        /\ (v \in permitted => v \in permitted')
                                        /\ (v \in disturbed => v \in disturbed'),
             pc'[w] = "readGlobal" =>
               \/ w \in disturbed'
               \/ /\ (job'[w].bundle \in Scoped => modeFile["task"].says = "absent")
                  /\ (Permits(job'[w].bundle, modeFile) => w \in permitted'),
             (pc'[w] \in {"deciding", "waiting"} /\ ShouldAutoApprove(job'[w].bundle, job'[w].mode))
               => w \in permitted' \cup disturbed',
             pc'[w] = "waiting" => ShouldAutoApprove(job'[w].bundle, job'[w].mode)
      PROVE  AutoInv'
  <2> SUFFICES ASSUME NEW v \in Watchers
               PROVE  /\ pc'[v] = "readGlobal" =>
                           \/ v \in disturbed'
                           \/ /\ (job'[v].bundle \in Scoped => modeFile["task"].says = "absent")
                              /\ (Permits(job'[v].bundle, modeFile) => v \in permitted')
                      /\ (pc'[v] \in {"deciding", "waiting"}
                            /\ ShouldAutoApprove(job'[v].bundle, job'[v].mode))
                           => v \in permitted' \cup disturbed'
                      /\ pc'[v] = "waiting" => ShouldAutoApprove(job'[v].bundle, job'[v].mode)
    BY <1>1 DEF AutoInv, Automatic
  <2>1. CASE v = w BY <1>2, <2>1
  <2>2. CASE v # w
    <3>1. /\ pc'[v] = pc[v] /\ job'[v] = job[v]
          /\ (v \in permitted => v \in permitted') /\ (v \in disturbed => v \in disturbed')
      BY <1>2, <2>2
    <3> QED BY <3>1 DEF AutoInv, Automatic
  <2> QED BY <2>1, <2>2
<1>3. CASE StartWatcher(w) BY <1>2, <1>3 DEF StartWatcher, history
<1>4. CASE StopWatcher(w) BY <1>2, <1>4 DEF StopWatcher, Drop
<1>5. CASE Poll(w) BY <1>2, <1>5 DEF Poll, history
<1>6. CASE EndLoop(w) BY <1>2, <1>6 DEF EndLoop, history
<1>7. ASSUME NEW b \in Bundles, TakeUp(w, b) PROVE AutoInv'
  <2> DEFINE own == modeFile["task"].says
             says == b \in Scoped /\ own \in Modes
  <2>1. /\ job' = [job EXCEPT ![w] = [bundle |-> b, mode |-> IF says THEN own ELSE "none"]]
        /\ pc' = [pc EXCEPT ![w] = IF says THEN "deciding" ELSE "readGlobal"]
        /\ disturbed' = IF b \in Scoped /\ own = "nothing" THEN disturbed \cup {w} ELSE disturbed
        /\ permitted' = IF Permits(b, modeFile) THEN permitted \cup {w} ELSE permitted
    BY <1>7 DEF TakeUp
  <2>2. own \in Modes \cup {"absent", "nothing"} BY DEF Scopes
  <2>3. job'[w].bundle = b /\ (says => job'[w].mode = own) BY <2>1
  <2>4. CASE says
    <3>1. own # "absent" BY <2>4, NamesDiffer
    <3>2. Permits(b, modeFile) <=> ShouldAutoApprove(b, own) BY <2>4, <3>1 DEF Permits
    <3>3. pc'[w] = "deciding" /\ job'[w].mode = own BY <2>1, <2>3, <2>4
    <3>4. ShouldAutoApprove(b, own) => w \in permitted' BY <2>1, <3>2
    <3> QED BY <1>2, <2>1, <2>3, <3>3, <3>4
  <2>5. CASE ~says
    <3>1. pc'[w] = "readGlobal" BY <2>1, <2>5
    <3>2. Permits(b, modeFile) => w \in permitted' BY <2>1
    <3>3. b \in Scoped => own = "absent" \/ w \in disturbed' BY <2>1, <2>2, <2>5
    <3> QED BY <1>2, <2>1, <2>3, <3>1, <3>2, <3>3
  <2> QED BY <2>4, <2>5
<1>8. CASE ReadGlobal(w)
  <2>1. /\ job'[w].bundle = job[w].bundle /\ job'[w].mode = GlobalMode(modeFile)
        /\ pc' = [pc EXCEPT ![w] = "deciding"]
        /\ UNCHANGED <<permitted, disturbed>>
        /\ \A v \in Watchers : v # w => job'[v] = job[v]
    <3>1. job[w] \in Jobs BY <1>8 DEF ReadGlobal, JobInv, Busy, Jobs
    <3> QED BY <1>8, <3>1 DEF ReadGlobal, Jobs, history
  <2>2. w \notin disturbed /\ ShouldAutoApprove(job[w].bundle, GlobalMode(modeFile))
          => w \in permitted
    <3> SUFFICES ASSUME w \notin disturbed, ShouldAutoApprove(job[w].bundle, GlobalMode(modeFile))
                 PROVE  w \in permitted
      OBVIOUS
    <3>1. /\ job[w].bundle \in Scoped => modeFile["task"].says = "absent"
          /\ (Permits(job[w].bundle, modeFile) => w \in permitted)
      BY <1>8 DEF ReadGlobal, AutoInv
    <3>2. Permits(job[w].bundle, modeFile) BY <3>1 DEF Permits
    <3> QED BY <3>1, <3>2
  <2> QED BY <1>2, <2>1, <2>2
<1>9. CASE Spare(w) BY <1>2, <1>9 DEF Spare, Drop
<1>10. CASE HandleManual(w) BY <1>2, <1>10 DEF HandleManual, Drop
<1>11. CASE Launch(w)
  <2>1. /\ UNCHANGED <<job, permitted, disturbed>> /\ pc' = [pc EXCEPT ![w] = "waiting"]
        /\ pc[w] = "deciding" /\ ShouldAutoApprove(job[w].bundle, job[w].mode)
    BY <1>11 DEF Launch, history, Automatic
  <2>2. w \in permitted \cup disturbed BY <2>1 DEF AutoInv, Automatic
  <2> QED BY <1>2, <2>1, <2>2
<1>12. CASE RunnerOver(w) BY <1>2, <1>12 DEF RunnerOver, Drop
<1> QED BY <1>3, <1>4, <1>5, <1>6, <1>7, <1>8, <1>9, <1>10, <1>11, <1>12
        DEF WatcherMoves, WatcherStep, Handle

(* Whatever is saved and deleted meanwhile, a watcher sends a bundle to    *)
(* the runner only if the modes allowed it at some moment while it read    *)
(* them, or the file of its task was unreadable or rewritten then          *)
(* (approval_modes.py:266-296, bundle_watcher.py:187-191), for any number  *)
(* of bundles, watchers, saves at the same time, and restarts.             *)
THEOREM AutoAsConfigured == Spec => []AutoOnlyAsConfigured
<1> DEFINE Inv == TypeInv /\ AutoInv
<1>1. Init => Inv
  <2>1. Init => AutoInv BY DEF Init, AutoInv
  <2> QED BY <2>1, InitTypes
<1>2. Inv /\ [Next]_vars => Inv'
  <2> SUFFICES ASSUME TypeInv, AutoInv, [Next]_vars PROVE Inv'
    OBVIOUS
  <2>1. TypeInv' BY NextKeepsTypes
  <2>2. ASSUME NEW b \in Bundles,
               \/ Stage(b) \/ Approve(b) \/ Reject(b)
               \/ \E l \in Launchers : RunnerStep(b, l) \/ KillRunner(b, l)
        PROVE  AutoInv'
    <3>1. UNCHANGED <<modeFile, pc, job, permitted, disturbed>>
      BY <2>2 DEF Stage, Approve, Reject, RunnerStep, Claim, Finish, KillRunner, watcherVars,
                  modeVars, history
    <3> QED BY <3>1 DEF AutoInv, Automatic
  <2>3. CASE UNCHANGED vars
    <3>1. UNCHANGED <<modeFile, pc, job, permitted, disturbed>> BY <2>3 DEF vars
    <3>2. AutoInv' BY <3>1 DEF AutoInv, Automatic
    <3> QED BY <2>1, <3>2
  <2> QED BY <2>1, <2>2, <2>3, ModesKeepAuto, WatchersKeepAuto DEF Next, ModeStep, WatcherMoves
<1>3. Inv => AutoOnlyAsConfigured BY DEF AutoInv, AutoOnlyAsConfigured
<1> QED BY <1>1, <1>2, <1>3, PTL DEF Spec
------------------------------------------------------------------------------
(* What a watcher passes over. *)

(* What a watcher has read was staged, and what it waits for under YOLO it *)
(* has sent to the runner.                                                 *)
Known(w) == seen[w] \cup rows[w]
WatchInv ==
  \A w \in Watchers :
    /\ \A b \in Known(w) : status[b] # "absent"
    /\ job[w] # None => status[job[w].bundle] # "absent"
    /\ pc[w] = "waiting" /\ job[w].mode = "yolo" => job[w].bundle \in yoloSent

LEMMA InitWatch == Init => WatchInv /\ SeenAccounted
<1> SUFFICES ASSUME Init PROVE WatchInv /\ SeenAccounted
  OBVIOUS
<1>1. \A w \in Watchers : seen[w] = {} /\ rows[w] = {} /\ job[w] = None /\ pc[w] = "down"
  BY DEF Init
<1> QED BY <1>1 DEF WatchInv, SeenAccounted, Known, None

(* No watcher moves, and what becomes pending was absent. *)
LEMMA OthersKeepSeen ==
  ASSUME TypeInv, WatchInv, SeenAccounted,
         UNCHANGED <<pc, seen, rows, job, spared, yoloSent, told>>,
         \A b \in Bundles : /\ status'[b] = "pending" => status[b] \in {"pending", "absent"}
                            /\ status'[b] = "absent" => status[b] = "absent"
  PROVE  WatchInv' /\ SeenAccounted'
<1>1. \A b \in Bundles : status[b] # "absent" => status'[b] # "absent"
  OBVIOUS
<1>2. /\ \A w \in Watchers : /\ seen'[w] = seen[w] /\ rows'[w] = rows[w] /\ pc'[w] = pc[w]
                            /\ job'[w] = job[w] /\ spared'[w] = spared[w]
      /\ yoloSent' = yoloSent /\ told' = told
  OBVIOUS
<1>3. /\ \A w \in Watchers : seen[w] \subseteq Bundles /\ rows[w] \subseteq Bundles
      /\ \A w \in Watchers : job[w] # None => job[w].bundle \in Bundles
  BY DEF TypeInv, TypeOK
<1>4. \A w \in Watchers : /\ Known(w)' = Known(w) /\ Known(w) \subseteq Bundles
                          /\ seen[w] \subseteq Known(w)
  <2> TAKE w \in Watchers
  <2>1. seen'[w] = seen[w] /\ rows'[w] = rows[w] BY <1>2
  <2>2. Known(w)' = Known(w) BY <2>1 DEF Known
  <2>3. seen[w] \subseteq Bundles /\ rows[w] \subseteq Bundles BY ONLY <1>3
  <2>4. Known(w) \subseteq Bundles /\ seen[w] \subseteq Known(w) BY ONLY <2>3 DEF Known
  <2> QED BY <2>2, <2>4
<1>5. WatchInv'
  <2> SUFFICES ASSUME NEW w \in Watchers
               PROVE  /\ \A b \in Known(w)' : status'[b] # "absent"
                      /\ job'[w] # None => status'[job'[w].bundle] # "absent"
                      /\ pc'[w] = "waiting" /\ job'[w].mode = "yolo" => job'[w].bundle \in yoloSent'
    BY DEF WatchInv
  <2>1. \A b \in Known(w)' : status'[b] # "absent" BY <1>1, <1>4 DEF WatchInv
  <2>2. job[w] # None => status'[job[w].bundle] # "absent"
    <3> SUFFICES ASSUME job[w] # None PROVE status'[job[w].bundle] # "absent"
      OBVIOUS
    <3>1. status[job[w].bundle] # "absent" BY DEF WatchInv
    <3>2. job[w].bundle \in Bundles BY ONLY <1>3, job[w] # None
    <3> QED BY ONLY <1>1, <3>1, <3>2
  <2>3. pc[w] = "waiting" /\ job[w].mode = "yolo" => job[w].bundle \in yoloSent BY DEF WatchInv
  <2>4. job'[w] = job[w] /\ yoloSent' = yoloSent /\ pc'[w] = pc[w] BY <1>2
  <2> QED BY <2>1, <2>2, <2>3, <2>4
<1>6. ASSUME Notifies, NEW w \in Watchers, NEW b \in seen[w] \ spared[w], status'[b] = "pending"
      PROVE  told[b] \/ b \in yoloSent
  <2>1. b \in Bundles /\ status[b] # "absent" BY <1>3, <1>4, <1>6 DEF WatchInv
  <2>2. status[b] = "pending" BY <1>6, <2>1
  <2> QED BY <1>6, <2>2 DEF SeenAccounted
<1>7. SeenAccounted' BY <1>2, <1>6 DEF SeenAccounted
<1> QED BY <1>5, <1>7

(* The steps of w. *)
LEMMA WatcherKeepsSeen ==
  ASSUME TypeInv, WatchInv, SeenAccounted, NEW w \in Watchers, WatcherMoves(w)
  PROVE  WatchInv' /\ SeenAccounted'
<1> USE DEF TypeInv, TypeOK, modeVars, history, Goto
<1>1. UNCHANGED status
  BY DEF WatcherMoves, WatcherStep, Handle, StartWatcher, StopWatcher, Poll, EndLoop, TakeUp,
         ReadGlobal, Spare, HandleManual, Launch, RunnerOver
(* It is enough to look at w, if others are told no less. *)
<1>2. ASSUME \A v \in Watchers : v # w => /\ seen'[v] = seen[v] /\ rows'[v] = rows[v]
                                        /\ job'[v] = job[v] /\ spared'[v] = spared[v]
                                        /\ pc'[v] = pc[v],
             \A b \in Bundles : told[b] => told'[b],
             yoloSent \subseteq yoloSent',
             \A b \in Known(w)' : status[b] # "absent",
             job'[w] # None => status[job'[w].bundle] # "absent",
             pc'[w] = "waiting" /\ job'[w].mode = "yolo" => job'[w].bundle \in yoloSent',
             \A b \in seen'[w] \ spared'[w] :
               Notifies /\ status[b] = "pending" => told'[b] \/ b \in yoloSent'
      PROVE  WatchInv' /\ SeenAccounted'
  <2>1. \A v \in Watchers : v # w => Known(v)' = Known(v) BY <1>2 DEF Known
  <2>2. WatchInv' BY <1>1, <1>2, <2>1 DEF WatchInv
  <2>3. SeenAccounted' BY <1>1, <1>2 DEF SeenAccounted
  <2> QED BY <2>2, <2>3
<1>3. \A b \in PendingNow : status[b] # "absent" /\ b \in Bundles
  BY DEF PendingNow
<1>4. CASE StartWatcher(w)
  BY <1>2, <1>3, <1>4 DEF StartWatcher, WatchInv, SeenAccounted, Known
<1>5. CASE StopWatcher(w)
  BY <1>2, <1>5 DEF StopWatcher, Drop, Known, None
<1>6. CASE Poll(w)
  BY <1>2, <1>3, <1>6 DEF Poll, WatchInv, SeenAccounted, Known
<1>7. CASE EndLoop(w)
  BY <1>2, <1>7 DEF EndLoop, WatchInv, SeenAccounted, Known
<1>8. ASSUME NEW b \in Bundles, TakeUp(w, b) PROVE WatchInv' /\ SeenAccounted'
  <2>1. /\ job'[w].bundle = b /\ pc'[w] \in {"deciding", "readGlobal"}
        /\ \A v \in Watchers : v # w => job'[v] = job[v] /\ pc'[v] = pc[v]
        /\ rows' = [rows EXCEPT ![w] = @ \ {b}] /\ b \in rows[w]
        /\ UNCHANGED <<seen, told, spared, yoloSent>>
    BY <1>8 DEF TakeUp
  <2>2. status[b] # "absent" BY <2>1 DEF WatchInv, Known
  <2> QED BY <1>2, <2>1, <2>2 DEF WatchInv, SeenAccounted, Known
<1>9. CASE ReadGlobal(w)
  <2>1. /\ job'[w].bundle = job[w].bundle /\ job[w] # None /\ pc'[w] = "deciding"
        /\ \A v \in Watchers : v # w => job'[v] = job[v] /\ pc'[v] = pc[v]
        /\ UNCHANGED <<rows, seen, told, spared, yoloSent>>
    <3>1. job[w] \in Jobs /\ job[w] # None BY <1>9 DEF ReadGlobal, JobInv, Busy, Jobs
    <3> QED BY <1>9, <3>1 DEF ReadGlobal, Jobs
  <2> QED BY <1>2, <2>1 DEF WatchInv, SeenAccounted, Known
<1>10. CASE Spare(w)
  <2>1. job[w].bundle \in Bundles /\ status[job[w].bundle] # "absent"
    BY <1>10 DEF Spare, JobInv, Busy, WatchInv
  <2>2. /\ UNCHANGED <<rows, told, yoloSent>> /\ job' = [job EXCEPT ![w] = None]
        /\ pc' = [pc EXCEPT ![w] = "looping"]
        /\ \/ UNCHANGED <<seen, spared>>
           \/ /\ seen' = [seen EXCEPT ![w] = @ \cup {job[w].bundle}]
              /\ spared' = [spared EXCEPT ![w] = @ \cup {job[w].bundle}]
    BY <1>10 DEF Spare, Drop, See
  <2> QED BY <1>2, <2>1, <2>2 DEF WatchInv, SeenAccounted, Known
<1>11. CASE HandleManual(w)
  <2>1. job[w].bundle \in Bundles /\ status[job[w].bundle] # "absent"
    BY <1>11 DEF HandleManual, JobInv, Busy, WatchInv
  <2>2. /\ told' = [told EXCEPT ![job[w].bundle] = @ \/ Notifies]
        /\ seen' = [seen EXCEPT ![w] = @ \cup {job[w].bundle}]
        /\ UNCHANGED <<rows, spared, yoloSent>> /\ job' = [job EXCEPT ![w] = None]
        /\ pc' = [pc EXCEPT ![w] = "looping"]
    BY <1>11 DEF HandleManual, AskUser, See, Drop
  <2>3. (\A c \in Bundles : told[c] => told'[c]) /\ (Notifies => told'[job[w].bundle])
    BY <2>1, <2>2
  <2> QED BY <1>2, <2>1, <2>2, <2>3 DEF WatchInv, SeenAccounted, Known
<1>12. CASE Launch(w)
  <2>1. /\ UNCHANGED <<seen, rows, job, told, spared>>
        /\ yoloSent' = IF job[w].mode = "yolo" THEN yoloSent \cup {job[w].bundle} ELSE yoloSent
        /\ pc' = [pc EXCEPT ![w] = "waiting"]
    BY <1>12 DEF Launch
  <2> QED BY <1>2, <2>1 DEF WatchInv, SeenAccounted, Known
<1>13. CASE RunnerOver(w)
  <2>1. PICK b \in Bundles : b = job[w].bundle
    BY <1>13 DEF RunnerOver, JobInv, Busy
  <2>2. /\ seen' = [seen EXCEPT ![w] = @ \cup {b}]
        /\ UNCHANGED told \/ told' = [told EXCEPT ![b] = @ \/ Notifies]
        /\ \/ status[b] = "applied" \/ job[w].mode = "yolo"
           \/ told' = [told EXCEPT ![b] = @ \/ Notifies]
    BY <1>13, <2>1 DEF RunnerOver, FallBack, AskUser, See
  <2>3. \A c \in Bundles : told[c] => told'[c] BY <2>2
  <2>4. /\ UNCHANGED <<rows, spared, yoloSent>> /\ job' = [job EXCEPT ![w] = None]
        /\ pc' = [pc EXCEPT ![w] = "looping"] /\ pc[w] = "waiting"
        /\ status[b] # "absent"
    BY <1>13, <2>1 DEF RunnerOver, Drop, JobInv, Busy, WatchInv
  <2>5. /\ seen'[w] = seen[w] \cup {b}
        /\ \A v \in Watchers : v # w => seen'[v] = seen[v] /\ job'[v] = job[v] /\ pc'[v] = pc[v]
        /\ job'[w] = None /\ pc'[w] = "looping"
    BY <2>2, <2>4
  <2>6. Notifies /\ status[b] = "pending" => told'[b] \/ b \in yoloSent
    BY <2>1, <2>2, <2>4 DEF WatchInv
  <2> QED BY <1>2, <2>3, <2>4, <2>5, <2>6 DEF WatchInv, SeenAccounted, Known
<1> QED BY <1>3, <1>4, <1>5, <1>6, <1>7, <1>8, <1>9, <1>10, <1>11, <1>12, <1>13
        DEF WatcherMoves, WatcherStep, Handle

(* Whatever the modes do meanwhile, what a watcher will not look at again  *)
(* although it is pending the user was asked about, or it went to the      *)
(* runner under YOLO, or it was pending when the watcher started           *)
(* (bundle_watcher.py:211-275), for any number of watchers and bundles.    *)
THEOREM NothingPassedOver == Spec => []SeenAccounted
<1> DEFINE Inv == TypeInv /\ WatchInv /\ SeenAccounted
<1>1. Init => Inv BY InitTypes, InitWatch
<1>2. Inv /\ [Next]_vars => Inv'
  <2> SUFFICES ASSUME Inv, [Next]_vars PROVE Inv'
    OBVIOUS
  <2>1. TypeInv' BY NextKeepsTypes
  <2>2. CASE ModeStep \/ UNCHANGED vars
    <3>1. UNCHANGED <<status, pc, seen, rows, job, spared, yoloSent, told>>
      BY <2>2 DEF ModeStep, SaverStep, OpenModeFile, WriteModeFile, FailSave, DeleteMode, vars,
                  watcherVars
    <3> QED BY <2>1, <3>1, OthersKeepSeen
  <2>3. ASSUME NEW b \in Bundles,
               \/ Stage(b) \/ Approve(b) \/ Reject(b)
               \/ \E l \in Launchers : RunnerStep(b, l) \/ KillRunner(b, l)
        PROVE  Inv'
    <3>1. UNCHANGED <<pc, seen, rows, job, spared, yoloSent, told>>
      BY <2>3 DEF Stage, Approve, Reject, RunnerStep, Claim, Finish, KillRunner, watcherVars
    <3>2. status' = status \/ \E s \in Statuses \ {"absent"} :
             /\ status' = [status EXCEPT ![b] = s]
             /\ s = "pending" => status[b] = "absent"
      BY <2>3 DEF Stage, Approve, Reject, RunnerStep, Claim, Finish, KillRunner, Statuses
    <3>3. \A c \in Bundles : /\ status'[c] = "pending" => status[c] \in {"pending", "absent"}
                             /\ status'[c] = "absent" => status[c] = "absent"
      BY <3>2 DEF TypeInv, TypeOK
    <3> QED BY <2>1, <3>1, <3>3, OthersKeepSeen
  <2>4. ASSUME NEW w \in Watchers, WatcherMoves(w) PROVE Inv'
    BY <2>1, <2>4, WatcherKeepsSeen
  <2> QED BY <2>2, <2>3, <2>4 DEF Next, ModeStep, WatcherMoves
<1> QED BY <1>1, <1>2, PTL DEF Spec
==============================================================================
