--------------------------- MODULE ApprovalWatcher ---------------------------
(***************************************************************************)
(* Who sends a pending bundle to the runner: the watchers of               *)
(* terminal_bridge/bundle_watcher.py (one inside the review server, and a  *)
(* standalone one that may run next to it), under the approval modes of    *)
(* terminal_bridge/approval_modes.py, and the approve and reject buttons   *)
(* of the review server.  The bundle store keeps the promise of            *)
(* BundleLifecycle: one runner at most turns "pending" into "running".     *)
(***************************************************************************)
EXTENDS Naturals

CONSTANTS
  Bundles,
  Scoped,      \* bundles that belong to the task with a mode of its own
  Low,         \* bundles eligible for Safe Auto (low risk, plain commands)
  Watchers,
  User,        \* the browser, as the one who launched a runner
  Modes,       \* the modes the user chooses from
  Savers,      \* the request threads of the review server that may save a mode
  SavesMayFail,  \* TRUE iff a save may end between the open and the write
  Notifies,    \* TRUE iff notifications are switched on
  MayRestart,  \* watchers whose process may end and be started again
  MayKill,     \* TRUE iff a runner may be killed (300 s timeout)
  Clicks       \* the buttons the user may press: a subset of {"approve", "reject"}

ASSUME ApprovalAssumption ==
  /\ Scoped \subseteq Bundles /\ Low \subseteq Bundles
  /\ User \notin Watchers /\ MayRestart \subseteq Watchers
  /\ Modes \subseteq {"normal", "safe-auto", "yolo"} /\ "normal" \in Modes
  /\ {MayKill, SavesMayFail, Notifies} \subseteq BOOLEAN
  /\ Clicks \subseteq {"approve", "reject"}

Scopes == {"task", "global"}
Launchers == Watchers \cup {User}

VARIABLES
  status,    \* the canonical status of each bundle
  modeFile,  \* what each scope's file says, and the size of its text
  saving,    \* saving[r]: the mode file r has open, and the mode it will write
  pc,        \* where each watcher is
  booting,   \* the watchers that look at the bundles that were there before them
  seen,      \* seen[w]: the bundles w does not look at again
  rows,      \* the pending bundles of w's loop that it has not come to
  job,       \* the bundle w is handling, and the mode it has read for it
  runner,    \* runner[b][l]: the runner process l launched for b
  told,      \* told[b]: the user was notified of b, and so asked for approval
  spared,    \* spared[w]: what w counted as seen when it started
  yoloSent,  \* bundles a watcher has sent to the runner under YOLO
  permitted, \* w's bundle could be approved automatically while w was reading (history)
  disturbed  \* the task's file was unreadable or rewritten while w was reading (history)

vars == <<status, modeFile, saving, pc, booting, seen, rows, job, runner, told, spared, yoloSent,
          permitted, disturbed>>
history == <<permitted, disturbed>>
modeVars == <<modeFile, saving>>
watcherVars == <<pc, booting, seen, rows, job, told, spared, yoloSent>>

Statuses == {"absent", "pending", "running", "applied", "failed", "rejected"}
Labels == {"down", "sleeping", "looping", "readGlobal", "deciding", "waiting"}
None == [bundle |-> "none", mode |-> "idle"]
Idle == [scope |-> "none", mode |-> "none", linked |-> FALSE]

(* The text of a mode is as long as its name: "yolo" < "normal" < "safe-auto". *)
Size(m) == CASE m = "yolo" -> 1 [] m = "normal" -> 2 [] m = "safe-auto" -> 3
NoFile == [says |-> "absent", size |-> 0]
Emptied == [says |-> "nothing", size |-> 0]

TypeOK ==
  /\ status \in [Bundles -> Statuses]
  /\ modeFile \in [Scopes -> [says : Modes \cup {"absent", "nothing"}, size : 0..3]]
  /\ saving \in [Savers -> [scope : Scopes, mode : Modes, linked : BOOLEAN] \cup {Idle}]
  /\ pc \in [Watchers -> Labels]
  /\ booting \subseteq Watchers
  /\ seen \in [Watchers -> SUBSET Bundles]
  /\ rows \in [Watchers -> SUBSET Bundles]
  /\ job \in [Watchers -> [bundle : Bundles, mode : Modes \cup {"none"}] \cup {None}]
  /\ runner \in [Bundles -> [Launchers -> {"none", "starting", "running", "over"}]]
  /\ told \in [Bundles -> BOOLEAN]
  /\ spared \in [Watchers -> SUBSET Bundles]
  /\ yoloSent \subseteq Bundles
  /\ permitted \subseteq Watchers /\ disturbed \subseteq Watchers

Init ==
  /\ status = [b \in Bundles |-> "absent"]
  /\ \E f \in [Scopes -> Modes \cup {"absent"}] :
       /\ Scoped = {} => f["task"] = "absent"
       /\ modeFile = [s \in Scopes |-> IF f[s] = "absent" THEN NoFile
                                       ELSE [says |-> f[s], size |-> Size(f[s])]]
  /\ saving = [r \in Savers |-> Idle]
  /\ pc = [w \in Watchers |-> "down"]
  /\ booting = {}
  /\ seen = [w \in Watchers |-> {}]
  /\ rows = [w \in Watchers |-> {}]
  /\ job = [w \in Watchers |-> None]
  /\ runner = [b \in Bundles |-> [l \in Launchers |-> "none"]]
  /\ told = [b \in Bundles |-> FALSE]
  /\ spared = [w \in Watchers |-> {}]
  /\ yoloSent = {}
  /\ permitted = {} /\ disturbed = {}

PendingNow == {b \in Bundles : status[b] = "pending"}
Goto(w, label) == pc' = [pc EXCEPT ![w] = label]
------------------------------------------------------------------------------
(* Approval modes *)

(* should_auto_approve of a pending record. *)
ShouldAutoApprove(b, mode) == mode = "yolo" \/ (mode = "safe-auto" /\ b \in Low)

(* The mode the global file says; absent or unreadable, it stands for "normal". *)
GlobalMode(files) == IF files["global"].says \in Modes THEN files["global"].says ELSE "normal"

(* b may be approved automatically as things stand: the file of its task,  *)
(* if there is one, says so, and otherwise the global one.                 *)
Permits(b, files) ==
  ShouldAutoApprove(b, IF b \in Scoped /\ files["task"].says # "absent"
                       THEN files["task"].says ELSE GlobalMode(files))

(* History of a change of a mode file, for those between their two reads. *)
Reading == {w \in Watchers : pc[w] = "readGlobal"}
Remember ==
  /\ permitted' = permitted \cup {w \in Reading : Permits(job[w].bundle, modeFile')}
  /\ disturbed' = disturbed \cup {w \in Reading : /\ job[w].bundle \in Scoped
                                                 /\ modeFile'["task"] # modeFile["task"]}

(* save_approval_mode and save_scoped_approval_mode: write_text opens the  *)
(* file, which empties it (or makes it), then writes at the beginning of   *)
(* it.  Nothing keeps two requests from doing so at the same time.         *)
OpenModeFile(r, s, m) ==
  /\ s = "task" => Scoped # {}     \* the mode of a task without bundles matters to nobody
  /\ saving[r] = Idle
  /\ saving' = [saving EXCEPT ![r] = [scope |-> s, mode |-> m, linked |-> TRUE]]
  /\ modeFile' = [modeFile EXCEPT ![s] = Emptied]
  /\ Remember
  /\ UNCHANGED <<status, runner, watcherVars>>

(* MUTANT: the text goes to the end of the file. *)
Appended(f, m) ==
  [says |-> IF f.size = 0 THEN m ELSE "nothing", size |-> f.size + Size(m)]
(* A text written over a longer one leaves the end of the longer one, and  *)
(* that is no JSON.                                                        *)
Overwritten(f, m) ==
  IF f.size <= Size(m) THEN [says |-> m, size |-> Size(m)]
  ELSE [says |-> "nothing", size |-> f.size]

(* The text of a file that was deleted meanwhile is lost. *)
WriteModeFile(r) == LET s == saving[r].scope IN
  /\ saving[r] # Idle
  /\ modeFile' = IF saving[r].linked
                 THEN [modeFile EXCEPT ![s] = Overwritten(@, saving[r].mode)] ELSE modeFile
  /\ saving' = [saving EXCEPT ![r] = Idle]
  /\ Remember
  /\ UNCHANGED <<status, runner, watcherVars>>

(* The write fails, or the server ends before it. *)
FailSave(r) ==
  /\ SavesMayFail
  /\ saving[r] # Idle
  /\ saving' = [saving EXCEPT ![r] = Idle]
  /\ UNCHANGED <<modeFile, status, runner, watcherVars, history>>

(* Only scoped files can be deleted. *)
DeleteMode ==
  /\ modeFile["task"].says # "absent"
  /\ modeFile' = [modeFile EXCEPT !["task"] = NoFile]
  /\ saving' = [r \in Savers |-> IF saving[r].scope = "task"
                                 THEN [saving[r] EXCEPT !.linked = FALSE] ELSE saving[r]]
  /\ Remember
  /\ UNCHANGED <<status, runner, watcherVars>>
------------------------------------------------------------------------------
(* Staging, and the user's buttons *)

Stage(b) ==
  /\ status[b] = "absent"
  /\ status' = [status EXCEPT ![b] = "pending"]
  /\ UNCHANGED <<modeVars, runner, watcherVars, history>>

Approve(b) ==
  /\ "approve" \in Clicks
  /\ status[b] = "pending"
  /\ runner[b][User] = "none"
  /\ runner' = [runner EXCEPT ![b][User] = "starting"]
  /\ UNCHANGED <<status, modeVars, watcherVars, history>>

Reject(b) ==
  /\ "reject" \in Clicks
  /\ status[b] = "pending"
  /\ status' = [status EXCEPT ![b] = "rejected"]
  /\ UNCHANGED <<modeVars, runner, watcherVars, history>>
------------------------------------------------------------------------------
(* A runner process: it claims the bundle or exits. *)

SetRunner(b, l, state) == runner' = [runner EXCEPT ![b][l] = state]

Claim(b, l) ==
  /\ runner[b][l] = "starting"
  /\ IF status[b] = "pending"
     THEN /\ status' = [status EXCEPT ![b] = "running"]
          /\ SetRunner(b, l, "running")
     ELSE SetRunner(b, l, "over") /\ UNCHANGED status
  /\ UNCHANGED <<modeVars, watcherVars, history>>

Finish(b, l) ==
  /\ runner[b][l] = "running"
  /\ \E verdict \in {"applied", "failed"} : status' = [status EXCEPT ![b] = verdict]
  /\ SetRunner(b, l, "over")
  /\ UNCHANGED <<modeVars, watcherVars, history>>

KillRunner(b, l) ==
  /\ MayKill
  /\ runner[b][l] \in {"starting", "running"}
  /\ SetRunner(b, l, "over")
  /\ UNCHANGED <<status, modeVars, watcherVars, history>>
------------------------------------------------------------------------------
(* Watchers *)

StartWatcher(w) ==
  /\ pc[w] = "down"
  /\ rows' = [rows EXCEPT ![w] = PendingNow]
  /\ booting' = booting \cup {w}
  /\ Goto(w, "looping")
  /\ UNCHANGED <<status, modeVars, runner, seen, job, told, spared, yoloSent, history>>

(* pending_bundle_records: all records, read before the first is handled. *)
Poll(w) ==
  /\ pc[w] = "sleeping"
  /\ rows' = [rows EXCEPT ![w] = PendingNow \ seen[w]]
  /\ Goto(w, "looping")
  /\ UNCHANGED <<status, modeVars, runner, booting, seen, job, told, spared, yoloSent, history>>

(* MUTANT: the poll may end with rows still to handle. *)
EndLoopEarly(w) ==
  /\ pc[w] = "looping"
  /\ Goto(w, "sleeping")
  /\ rows' = [rows EXCEPT ![w] = {}]
  /\ booting' = booting \ {w}
  /\ UNCHANGED <<status, modeVars, runner, seen, job, told, spared, yoloSent, history>>

EndLoop(w) ==
  /\ pc[w] = "looping"
  /\ rows[w] = {}
  /\ Goto(w, "sleeping")
  /\ booting' = booting \ {w}
  /\ UNCHANGED <<status, modeVars, runner, seen, rows, job, told, spared, yoloSent, history>>

(* MUTANT: the global mode is taken wherever there is one. *)
TakeUpGlobalFirst(w, b) ==
  /\ pc[w] = "looping"
  /\ b \in rows[w]
  /\ rows' = [rows EXCEPT ![w] = @ \ {b}]
  /\ LET own == modeFile["task"].says
         says == b \in Scoped /\ own \in Modes /\ modeFile["global"].says \notin Modes IN
     /\ job' = [job EXCEPT ![w] = [bundle |-> b, mode |-> IF says THEN own ELSE "none"]]
     /\ Goto(w, IF says THEN "deciding" ELSE "readGlobal")
     /\ disturbed' = IF b \in Scoped /\ own = "nothing" THEN disturbed \cup {w} ELSE disturbed
  /\ permitted' = IF Permits(b, modeFile) THEN permitted \cup {w} ELSE permitted
  /\ UNCHANGED <<status, modeVars, runner, booting, seen, told, spared, yoloSent>>

(* load_effective_approval_mode: the file of the task is read first, and   *)
(* the global one later if that says no mode.                              *)
TakeUp(w, b) ==
  /\ pc[w] = "looping"
  /\ b \in rows[w]
  /\ rows' = [rows EXCEPT ![w] = @ \ {b}]
  /\ LET own == modeFile["task"].says
         says == b \in Scoped /\ own \in Modes IN
     /\ job' = [job EXCEPT ![w] = [bundle |-> b, mode |-> IF says THEN own ELSE "none"]]
     /\ Goto(w, IF says THEN "deciding" ELSE "readGlobal")
     /\ disturbed' = IF b \in Scoped /\ own = "nothing" THEN disturbed \cup {w} ELSE disturbed
  /\ permitted' = IF Permits(b, modeFile) THEN permitted \cup {w} ELSE permitted
  /\ UNCHANGED <<status, modeVars, runner, booting, seen, told, spared, yoloSent>>

ReadGlobal(w) ==
  /\ pc[w] = "readGlobal"
  /\ job' = [job EXCEPT ![w].mode = GlobalMode(modeFile)]
  /\ Goto(w, "deciding")
  /\ UNCHANGED <<status, modeVars, runner, booting, seen, rows, told, spared, yoloSent, history>>

(* The end of what w does with its bundle. *)
Drop(w) ==
  /\ job' = [job EXCEPT ![w] = None]
  /\ permitted' = permitted \ {w}
  /\ disturbed' = disturbed \ {w}
See(w, b) == seen' = [seen EXCEPT ![w] = @ \cup {b}]
Automatic(w) == ShouldAutoApprove(job[w].bundle, job[w].mode)

(* MUTANT: everything pending at the start counts as seen. *)
SparesAll(w) == TRUE
SparedAtStart(w) == ~Automatic(w)

(* startup_seen_pending_bundle_ids: what is for the user to decide anyway. *)
Spare(w) == LET b == job[w].bundle IN
  /\ pc[w] = "deciding" /\ w \in booting
  /\ IF SparedAtStart(w) THEN See(w, b) /\ spared' = [spared EXCEPT ![w] = @ \cup {b}]
     ELSE UNCHANGED <<seen, spared>>
  /\ Drop(w)
  /\ Goto(w, "looping")
  /\ UNCHANGED <<status, modeVars, runner, booting, rows, told, yoloSent>>

(* handle_pending_bundle, without automatic approval. *)
AskUser(w, b) == See(w, b) /\ told' = [told EXCEPT ![b] = @ \/ Notifies]

HandleManual(w) ==
  /\ pc[w] = "deciding" /\ w \notin booting
  /\ ~Automatic(w)
  /\ AskUser(w, job[w].bundle)
  /\ Drop(w)
  /\ Goto(w, "looping")
  /\ UNCHANGED <<status, modeVars, runner, booting, rows, spared, yoloSent>>

(* auto_apply_bundle: the runner is started, and w waits for it.  (A runner *)
(* left over from before a restart of w stands for both: one of them claims *)
(* and the other exits.)                                                    *)
Launch(w) == LET b == job[w].bundle IN
  /\ pc[w] = "deciding" /\ w \notin booting
  /\ Automatic(w)
  /\ IF runner[b][w] \in {"starting", "running"} THEN UNCHANGED runner
     ELSE SetRunner(b, w, "starting")
  /\ yoloSent' = IF job[w].mode = "yolo" THEN yoloSent \cup {b} ELSE yoloSent
  /\ Goto(w, "waiting")
  /\ UNCHANGED <<status, modeVars, booting, seen, rows, job, told, spared, history>>

(* MUTANT: an automatic approval that failed is simply done with. *)
NoFallback(w, b, m) == See(w, b) /\ UNCHANGED told

(* Not applied: YOLO lets it be, Safe Auto falls back to the user. *)
FallBack(w, b, m) == IF m = "yolo" THEN See(w, b) /\ UNCHANGED told ELSE AskUser(w, b)

RunnerOver(w) == LET b == job[w].bundle IN
  /\ pc[w] = "waiting"
  /\ runner[b][w] = "over"
  /\ IF status[b] = "applied" THEN See(w, b) /\ UNCHANGED told ELSE FallBack(w, b, job[w].mode)
  /\ Drop(w)
  /\ Goto(w, "looping")
  /\ UNCHANGED <<status, modeVars, booting, rows, runner, spared, yoloSent>>

(* The process of the watcher ends; a runner it started goes on. *)
StopWatcher(w) ==
  /\ w \in MayRestart
  /\ pc[w] # "down"
  /\ Goto(w, "down")
  /\ seen' = [seen EXCEPT ![w] = {}]
  /\ spared' = [spared EXCEPT ![w] = {}]
  /\ rows' = [rows EXCEPT ![w] = {}]
  /\ booting' = booting \ {w}
  /\ Drop(w)
  /\ UNCHANGED <<status, modeVars, runner, told, yoloSent>>
------------------------------------------------------------------------------
Handle(w) ==
  \/ \E b \in Bundles : TakeUp(w, b)
  \/ ReadGlobal(w) \/ Spare(w) \/ HandleManual(w) \/ Launch(w) \/ RunnerOver(w)
WatcherStep(w) == Poll(w) \/ EndLoop(w) \/ Handle(w)
RunnerStep(b, l) == Claim(b, l) \/ Finish(b, l)
SaverStep(r) == WriteModeFile(r) \/ FailSave(r)

Next ==
  \/ \E r \in Savers : SaverStep(r) \/ \E s \in Scopes, m \in Modes : OpenModeFile(r, s, m)
  \/ DeleteMode
  \/ \E b \in Bundles :
       \/ Stage(b) \/ Approve(b) \/ Reject(b)
       \/ \E l \in Launchers : RunnerStep(b, l) \/ KillRunner(b, l)
  \/ \E w \in Watchers : StartWatcher(w) \/ StopWatcher(w) \/ WatcherStep(w)

Spec == Init /\ [][Next]_vars

(* A watcher polls on and on, a runner runs on, a save is one call, and    *)
(* the session supervisor starts what it watches.                          *)
Fairness ==
  /\ \A w \in Watchers : WF_vars(WatcherStep(w)) /\ WF_vars(StartWatcher(w))
  /\ \A b \in Bundles : \A l \in Launchers : WF_vars(RunnerStep(b, l))
  /\ \A r \in Savers : WF_vars(SaverStep(r))
LiveSpec == Spec /\ Fairness
------------------------------------------------------------------------------
(* A watcher sends a bundle to the runner only if, at some moment while it *)
(* was reading the modes, they allowed it, the task's mode before the      *)
(* global one (test_approval_modes.py:73                                   *)
(* "priority_is_task_client_project_global"), however long it takes from   *)
(* the reads to the launch and whoever saves or deletes modes meanwhile.   *)
(* The two files are read one after the other and rewritten in place: the  *)
(* exceptions are a task's file that is just being rewritten, that two     *)
(* saves have garbled, or that changes between the two reads; then the     *)
(* global mode, YOLO perhaps, decides for a task that has its own.         *)
AutoOnlyAsConfigured ==
  \A w \in Watchers : pc[w] = "waiting" => w \in permitted \cup disturbed

(* What a watcher will not look at again, although it is still pending, the *)
(* user has been asked about, or it was sent to the runner under YOLO, or  *)
(* it was pending when the watcher started, where notifications are on.    *)
SeenAccounted ==
  Notifies => \A w \in Watchers : \A b \in seen[w] \ spared[w] :
                status[b] = "pending" => told[b] \/ b \in yoloSent

(* ... and what it spared when it started, the user had been asked about   *)
(* (bundle_watcher.py:90 "treated as already seen so restarting the review *)
(* service does not re-notify them").                                      *)
SparedWereTold == \A w \in Watchers : spared[w] \cap PendingNow \subseteq {b \in Bundles : told[b]}

(* A bundle that is pending when a watcher polls does not stay unnoticed:  *)
(* the user is asked, or it leaves the pending directory, or it goes to    *)
(* the runner, unless the watcher stops first.                             *)
Noticed(b) == told[b] \/ status[b] # "pending" \/ \E l \in Launchers : runner[b][l] # "none"
PendingNoticed ==
  \A w \in Watchers : \A b \in Bundles :
    (w \notin booting /\ b \in rows[w]) ~> (Noticed(b) \/ pc[w] = "down")

InYolo(b) ==
  /\ \A r \in Savers : saving[r] = Idle
  /\ IF b \in Scoped /\ modeFile["task"].says \in Modes
     THEN modeFile["task"].says = "yolo" ELSE GlobalMode(modeFile) = "yolo"

(* In YOLO, what was pending before a restart is taken up again, by a      *)
(* watcher that then stays up                                              *)
(* (pending-review-ui.md:58 "resumed automatically").                      *)
YoloResumes ==
  \A w \in Watchers : <>[](pc[w] # "down") =>
    \A b \in Bundles :
      (pc[w] = "down" /\ status[b] = "pending" /\ InYolo(b))
        ~> (b \in yoloSent \/ status[b] # "pending" \/ ~InYolo(b))

(* In YOLO, every pending bundle goes to the runner, also one that became  *)
(* pending before the user chose YOLO                                      *)
(* (pending-review-ui.md:53 "Sends every valid pending bundle to the       *)
(* runner without manual approval").                                       *)
YoloSendsAll ==
  \A b \in Bundles :
    (status[b] = "pending" /\ InYolo(b)) ~> (b \in yoloSent \/ status[b] # "pending" \/ ~InYolo(b))
==============================================================================
