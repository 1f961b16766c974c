----------------------------- MODULE BundleStore -----------------------------
(***************************************************************************)
(* The file-system bundle store of terminal_bridge/bundles.py and the      *)
(* processes that move a bundle through it: runner subprocesses that       *)
(* apply, runner subprocesses that reject, MCP calls that cancel, and      *)
(* watchers that sweep stale running bundles when they start.              *)
(*                                                                         *)
(* A bundle is one JSON file in one of six status directories.  A step of  *)
(* this module is one file-system call that another process can observe    *)
(* (mkdir of the claim lock, atomic write, os.replace, rmdir), with the    *)
(* reads that decide whether it is made.  Two reads are merged only where  *)
(* a move between them gives the same error as a move before them.         *)
(* Generation tokens and request-key slots, which these operations publish *)
(* but never read, are left to their own modules.                          *)
(***************************************************************************)
EXTENDS FiniteSets, Naturals

CONSTANTS
  Bundles,      \* bundle identifiers; an identifier is a fresh uuid
  Runners,      \* "command_bundle_runner.py apply" processes, one per approval
  Rejecters,    \* "command_bundle_runner.py reject" processes
  Cancellers,   \* calls of BundleService.cancel
  Watchers,     \* watchers: each start sweeps the running directory
  MayAge,       \* bundles that may stay staged for more than 24 hours
  MayCrash,     \* processes that may be killed (SIGKILL after the 300 s timeout)
  MayFail,      \* processes whose file operations may raise OSError
  PidReuse,     \* TRUE iff a dead process's pid may name another live process
  None          \* "no bundle", "no record", "no execution"

Procs == Runners \cup Rejecters \cup Cancellers \cup Watchers
OneShot == Runners \cup Rejecters \cup Cancellers

ASSUME ProcsAssumption ==
  /\ Runners \cap (Rejecters \cup Cancellers \cup Watchers) = {}
  /\ Rejecters \cap (Cancellers \cup Watchers) = {}
  /\ Cancellers \cap Watchers = {}
ASSUME FaultAssumption == /\ MayAge \subseteq Bundles
                          /\ MayCrash \subseteq Procs
                          /\ MayFail \subseteq Procs
                          /\ PidReuse \in BOOLEAN

Terminal == {"applied", "failed", "interrupted"}
Dirs == Terminal \cup {"pending", "running", "rejected"}

(* A record holds its own "status" field, which need not agree with the    *)
(* directory it is in, and the process that claimed it ("execution").      *)
Record == [status : Dirs, exec : Runners \cup {None}]
NoFile == [status |-> None, exec |-> None]

ASSUME NoneAssumption == None \notin Procs \cup Bundles \cup Dirs

VARIABLES
  file,      \* file[b][d]: the record of bundle b in directory d, or NoFile
  lock,      \* lock[b]: the directory running/.b.claim exists
  age,       \* "unstaged", "fresh", or "old": staged more than 24 hours ago
  pc,        \* where each process is
  job,       \* the bundle each process works on
  held,      \* the record each process has in memory
  source,    \* the directory a canceller read its record from
  todo,      \* the running bundles a watcher's sweep has still to look at
  executed,  \* executed[b]: the runners that started b's side effects
  handoff    \* handoff[b]: the status in b's handoff file

vars == <<file, lock, age, pc, job, held, source, todo, executed, handoff>>

Labels ==
  {"idle", "locking", "checking", "claiming", "recording", "claimed", "executing",
   "finChecking", "finWriting", "finMoving", "handingOff", "releasing",
   "rejecting", "rejWriting", "finding", "mvWriting", "mvMoving", "mvHandingOff",
   "sweeping", "done", "crashed"}

TypeOK ==
  /\ file \in [Bundles -> [Dirs -> Record \cup {NoFile}]]
  /\ lock \in [Bundles -> BOOLEAN]
  /\ age \in [Bundles -> {"unstaged", "fresh", "old"}]
  /\ pc \in [Procs -> Labels]
  /\ job \in [Procs -> Bundles \cup {None}]
  /\ held \in [Procs -> Record \cup {NoFile}]
  /\ source \in [Cancellers -> Dirs \cup {None}]
  /\ todo \in [Watchers -> SUBSET Bundles]
  /\ executed \in [Bundles -> SUBSET Runners]
  /\ handoff \in [Bundles -> Terminal \cup {"rejected", None}]

Init ==
  /\ file = [b \in Bundles |-> [d \in Dirs |-> NoFile]]
  /\ lock = [b \in Bundles |-> FALSE]
  /\ age = [b \in Bundles |-> "unstaged"]
  /\ pc = [p \in Procs |-> "idle"]
  /\ job = [p \in Procs |-> None]
  /\ held = [p \in Procs |-> NoFile]
  /\ source = [c \in Cancellers |-> None]
  /\ todo = [w \in Watchers |-> {}]
  /\ executed = [b \in Bundles |-> {}]
  /\ handoff = [b \in Bundles |-> None]
------------------------------------------------------------------------------
(* Files *)

In(b, d) == file[b][d] # NoFile
Present(b) == {d \in Dirs : In(b, d)}

(* The order in which _find_command_bundle tries the directories. *)
Rank == [running |-> 1, pending |-> 2, applied |-> 3,
         rejected |-> 4, failed |-> 5, interrupted |-> 6]
(* A lookup reports the first directory that has the bundle.  A lookup     *)
(* that misses a bundle in mid-move raises and ends its caller, which is   *)
(* the same as the caller never having started.                            *)
FoundIn(b, d) == In(b, d) /\ \A e \in Present(b) : Rank[d] <= Rank[e]

(* os.replace: the source must exist; the target is overwritten. *)
MoveFile(b, from, to) ==
  file' = [file EXCEPT ![b] = [@ EXCEPT ![from] = NoFile, ![to] = file[b][from]]]
(* Atomic publication: creates the file or replaces it. *)
WriteFile(b, d, record) == file' = [file EXCEPT ![b] = [@ EXCEPT ![d] = record]]

Goto(p, label) == pc' = [pc EXCEPT ![p] = label]
(* Where the error or the end of an operation leaves its caller: a watcher *)
(* goes on with its sweep, every other process exits.                      *)
Resume(p) == IF p \in Watchers THEN "sweeping" ELSE "done"
Hold(p, record) == held' = [held EXCEPT ![p] = record]
------------------------------------------------------------------------------
(* Staging and time *)

Stage(b) ==
  /\ age[b] = "unstaged"
  /\ age' = [age EXCEPT ![b] = "fresh"]
  /\ WriteFile(b, "pending", [status |-> "pending", exec |-> None])
  /\ UNCHANGED <<lock, pc, job, held, source, todo, executed, handoff>>

Age(b) ==
  /\ b \in MayAge
  /\ age[b] = "fresh"
  /\ age' = [age EXCEPT ![b] = "old"]
  /\ UNCHANGED <<file, lock, pc, job, held, source, todo, executed, handoff>>
------------------------------------------------------------------------------
(* Starting a process: each first looks the bundle up and goes on only if  *)
(* it is pending.                                                          *)

Start(p, b, label) ==
  /\ pc[p] = "idle"
  /\ FoundIn(b, "pending")
  /\ Goto(p, label)
  /\ job' = [job EXCEPT ![p] = b]
  /\ UNCHANGED <<file, lock, age, held, source, todo, executed, handoff>>

StartApply(r, b) == r \in Runners /\ Start(r, b, "locking")
StartReject(j, b) == j \in Rejecters /\ Start(j, b, "locking")
StartCancel(c, b) == c \in Cancellers /\ Start(c, b, "finding")

AcquireLock(p) ==
  /\ pc[p] = "locking"
  /\ IF lock[job[p]]
     THEN /\ Goto(p, "done")           \* BundleClaimError: already claimed
          /\ UNCHANGED lock
     ELSE /\ Goto(p, "checking")
          /\ lock' = [lock EXCEPT ![job[p]] = TRUE]
  /\ UNCHANGED <<file, age, job, held, source, todo, executed, handoff>>

ReleaseLock(p) ==
  /\ pc[p] = "releasing"
  /\ lock' = [lock EXCEPT ![job[p]] = FALSE]
  /\ Goto(p, Resume(p))
  /\ UNCHANGED <<file, age, job, held, source, todo, executed, handoff>>
------------------------------------------------------------------------------
(* _claim_pending_command_bundle, under the lock *)

(* pending_path is still there, holds a pending record, and nothing runs. *)
StillPending(b) ==
  /\ ~In(b, "running")
  /\ In(b, "pending")
  /\ file[b]["pending"].status = "pending"

CheckClaim(r) ==
  /\ r \in Runners
  /\ pc[r] = "checking"
  /\ IF StillPending(job[r])
     THEN /\ Goto(r, "claiming")
          /\ Hold(r, [status |-> "running", exec |-> r])
     ELSE /\ Goto(r, "releasing")
          /\ UNCHANGED held
  /\ UNCHANGED <<file, lock, age, job, source, todo, executed, handoff>>

(* MUTANT: the claim copies the pending file instead of renaming it. *)
CopyPending(r) ==
  /\ pc[r] = "claiming"
  /\ IF In(job[r], "pending")
     THEN /\ WriteFile(job[r], "running", file[job[r]]["pending"])
          /\ Goto(r, "recording")
     ELSE /\ Goto(r, "releasing")
          /\ UNCHANGED file
  /\ UNCHANGED <<lock, age, job, held, source, todo, executed, handoff>>

(* MUTANT: the claimed record is never written. *)
MoveUnrecorded(r) ==
  /\ pc[r] = "claiming"
  /\ IF In(job[r], "pending")
     THEN MoveFile(job[r], "pending", "running") /\ Goto(r, "claimed")
     ELSE Goto(r, "releasing") /\ UNCHANGED file
  /\ UNCHANGED <<lock, age, job, held, source, todo, executed, handoff>>

(* os.replace(pending, running): from here on the lock is kept. *)
MovePendingToRunning(r) ==
  /\ pc[r] = "claiming"
  /\ IF In(job[r], "pending")
     THEN /\ MoveFile(job[r], "pending", "running")
          /\ Goto(r, "recording")
     ELSE /\ Goto(r, "releasing")      \* FileNotFoundError
          /\ UNCHANGED file
  /\ UNCHANGED <<lock, age, job, held, source, todo, executed, handoff>>

(* Only now does the running file name its owner. *)
RecordClaim(r) ==
  /\ pc[r] = "recording"
  /\ WriteFile(job[r], "running", held[r])
  /\ Goto(r, "claimed")
  /\ UNCHANGED <<lock, age, job, held, source, todo, executed, handoff>>
------------------------------------------------------------------------------
(* apply_bundle, after the claim.  What the steps do is in                 *)
(* ActionExecution; here they start and they end with a verdict.           *)

BeginExecution(r) ==
  /\ pc[r] = "claimed"
  /\ executed' = [executed EXCEPT ![job[r]] = @ \cup {r}]
  /\ Goto(r, "executing")
  /\ UNCHANGED <<file, lock, age, job, held, source, todo, handoff>>

EndExecution(r) ==
  /\ pc[r] = "executing"
  /\ \E verdict \in Terminal : Hold(r, [held[r] EXCEPT !.status = verdict])
  /\ Goto(r, "finChecking")
  /\ UNCHANGED <<file, lock, age, job, source, todo, executed, handoff>>
------------------------------------------------------------------------------
(* _finalize_running_command_bundle, by the runner with its own execution  *)
(* id or by a watcher with the id it read, if it read one.                 *)

Owns(p, record) == held[p].exec # None => record.exec = held[p].exec

CheckFinal(p) ==
  LET b == job[p]
      mine == file[b]["running"]
  IN
  /\ pc[p] = "finChecking"
  /\ IF In(b, "running") /\ Owns(p, mine) /\ ~In(b, held[p].status)
     THEN /\ Goto(p, "finWriting")
          /\ Hold(p, [held[p] EXCEPT !.exec = mine.exec])
     ELSE /\ Goto(p, Resume(p))        \* BundleStateError
          /\ UNCHANGED held
  /\ UNCHANGED <<file, lock, age, job, source, todo, executed, handoff>>

(* MUTANT: the final record is written to its directory before the running *)
(* one is removed.                                                         *)
WriteFinalCopy(p) ==
  /\ pc[p] = "finWriting"
  /\ WriteFile(job[p], held[p].status, held[p])
  /\ Goto(p, "finMoving")
  /\ UNCHANGED <<lock, age, job, held, source, todo, executed, handoff>>

(* MUTANT: the handoff is written before the move. *)
HandOffEarly(p) ==
  /\ pc[p] = "finWriting"
  /\ WriteFile(job[p], "running", held[p])
  /\ handoff' = [handoff EXCEPT ![job[p]] = held[p].status]
  /\ Goto(p, "finMoving")
  /\ UNCHANGED <<lock, age, job, held, source, todo, executed>>

WriteFinal(p) ==
  /\ pc[p] = "finWriting"
  /\ WriteFile(job[p], "running", held[p])
  /\ Goto(p, "finMoving")
  /\ UNCHANGED <<lock, age, job, held, source, todo, executed, handoff>>

MoveRunningToFinal(p) ==
  /\ pc[p] = "finMoving"
  /\ IF In(job[p], "running")
     THEN /\ MoveFile(job[p], "running", held[p].status)
          /\ Goto(p, "handingOff")
     ELSE /\ Goto(p, Resume(p))        \* FileNotFoundError
          /\ UNCHANGED file
  /\ UNCHANGED <<lock, age, job, held, source, todo, executed, handoff>>

(* MUTANT: the handoff is taken from the record before its update. *)
HandOffOldRecord(p) ==
  /\ pc[p] = "handingOff"
  /\ handoff' = [handoff EXCEPT ![job[p]] = "running"]
  /\ Goto(p, "releasing")
  /\ UNCHANGED <<file, lock, age, job, held, source, todo, executed>>

(* write_handoff_from_bundle: of the record in memory, whatever the disk says. *)
WriteHandoff(p) ==
  /\ pc[p] = "handingOff"
  /\ handoff' = [handoff EXCEPT ![job[p]] = held[p].status]
  /\ Goto(p, "releasing")
  /\ UNCHANGED <<file, lock, age, job, held, source, todo, executed>>
------------------------------------------------------------------------------
(* _reject_pending_command_bundle, under the same lock *)

CheckReject(p) ==
  /\ p \in Rejecters \cup Cancellers
  /\ pc[p] = "checking"
  /\ IF StillPending(job[p]) /\ ~In(job[p], "rejected")
     THEN /\ Goto(p, "rejecting")
          /\ Hold(p, [status |-> "rejected", exec |-> None])
     ELSE /\ Goto(p, "releasing")
          /\ UNCHANGED held
  /\ UNCHANGED <<file, lock, age, job, source, todo, executed, handoff>>

MovePendingToRejected(p) ==
  /\ pc[p] = "rejecting"
  /\ IF In(job[p], "pending")
     THEN /\ MoveFile(job[p], "pending", "rejected")
          /\ Goto(p, "rejWriting")
     ELSE /\ Goto(p, "releasing")
          /\ UNCHANGED file
  /\ UNCHANGED <<lock, age, job, held, source, todo, executed, handoff>>

RecordReject(p) ==
  /\ pc[p] = "rejWriting"
  /\ WriteFile(job[p], "rejected", held[p])
  /\ Goto(p, "handingOff")
  /\ UNCHANGED <<lock, age, job, held, source, todo, executed, handoff>>
------------------------------------------------------------------------------
(* BundleService.cancel saw the bundle pending and calls                   *)
(* _move_command_bundle, which looks it up again.  Found pending, the      *)
(* bundle is rejected under the lock; found anywhere else it is moved as   *)
(* it is, without the lock and without asking who owns it.                 *)

FindAgain(c) ==
  LET b == job[c] IN
  /\ pc[c] = "finding"
  /\ \/ /\ FoundIn(b, "pending")
        /\ Goto(c, "locking")
        /\ UNCHANGED <<held, source>>
     \/ \E d \in Dirs \ {"pending"} :
          /\ FoundIn(b, d)
          /\ IF d # "rejected" /\ In(b, "rejected")
             THEN /\ Goto(c, "done")   \* BundleStateError: target exists
                  /\ UNCHANGED <<held, source>>
             ELSE /\ Goto(c, "mvWriting")
                  /\ Hold(c, [status |-> "rejected", exec |-> file[b][d].exec])
                  /\ source' = [source EXCEPT ![c] = d]
  /\ UNCHANGED <<file, lock, age, job, todo, executed, handoff>>

WriteMoved(c) ==
  /\ pc[c] = "mvWriting"
  /\ WriteFile(job[c], source[c], held[c])
  /\ Goto(c, IF source[c] = "rejected" THEN "mvHandingOff" ELSE "mvMoving")
  /\ UNCHANGED <<lock, age, job, held, source, todo, executed, handoff>>

MoveAny(c) ==
  /\ pc[c] = "mvMoving"
  /\ IF In(job[c], source[c])
     THEN /\ MoveFile(job[c], source[c], "rejected")
          /\ Goto(c, "mvHandingOff")
     ELSE /\ Goto(c, "done")
          /\ UNCHANGED file
  /\ UNCHANGED <<lock, age, job, held, source, todo, executed, handoff>>

HandOffMoved(c) ==
  /\ pc[c] = "mvHandingOff"
  /\ handoff' = [handoff EXCEPT ![job[c]] = "rejected"]
  /\ Goto(c, "done")
  /\ UNCHANGED <<file, lock, age, job, held, source, todo, executed>>
------------------------------------------------------------------------------
(* _interrupt_stale_running_bundles, once per start of a watcher *)

StartSweep(w) ==
  /\ w \in Watchers
  /\ pc[w] = "idle"
  /\ Goto(w, "sweeping")
  /\ todo' = [todo EXCEPT ![w] = {b \in Bundles : In(b, "running")}]
  /\ UNCHANGED <<file, lock, age, job, held, source, executed, handoff>>

Gone(r) == pc[r] \in {"done", "crashed"}

(* What os.kill(pid, 0) may answer about a record: nothing without a pid,  *)
(* "alive" for a live owner, and for a dead one whatever the pid now means. *)
Liveness(record) ==
  IF record.exec = None THEN {"unknown"}
  ELSE IF ~Gone(record.exec) THEN {"alive"}
  ELSE IF PidReuse THEN {"dead", "alive"} ELSE {"dead"}

(* MUTANT: a recorded owner is not asked whether it is alive. *)
StaleIfClaimed(b, liveness) == liveness # "unknown" \/ age[b] = "old"

(* MUTANT: only the age of the claim counts, not its dead owner. *)
StaleByAge(b, liveness) == age[b] = "old"

(* A record without "execution" is aged by its "updated_at", which is the  *)
(* time it was STAGED.                                                     *)
Stale(b, liveness) == \/ liveness = "dead"
                      \/ liveness = "unknown" /\ age[b] = "old"

(* The status a sweep gives a stale bundle. *)
SweepVerdict == "interrupted"

SweepOne(w) ==
  /\ w \in Watchers
  /\ pc[w] = "sweeping"
  /\ \E b \in todo[w] :
       /\ todo' = [todo EXCEPT ![w] = @ \ {b}]
       /\ \/ /\ \/ ~In(b, "running")
                \/ \E l \in Liveness(file[b]["running"]) : ~Stale(b, l)
             /\ UNCHANGED <<pc, job, held>>
          \/ /\ In(b, "running")
             /\ \E l \in Liveness(file[b]["running"]) : Stale(b, l)
             /\ Goto(w, "finChecking")
             /\ job' = [job EXCEPT ![w] = b]
             /\ Hold(w, [status |-> SweepVerdict, exec |-> file[b]["running"].exec])
  /\ UNCHANGED <<file, lock, age, source, executed, handoff>>

EndSweep(w) ==
  /\ w \in Watchers
  /\ pc[w] = "sweeping"
  /\ todo[w] = {}
  /\ Goto(w, "idle")
  /\ UNCHANGED <<file, lock, age, job, held, source, todo, executed, handoff>>
------------------------------------------------------------------------------
(* Faults *)

Busy(p) == pc[p] \notin {"idle", "done", "crashed"}

(* The process is killed between two system calls.  A watcher that is      *)
(* started again is a fresh one.                                           *)
Crash(p) ==
  /\ p \in MayCrash
  /\ Busy(p)
  /\ Goto(p, IF p \in Watchers THEN "idle" ELSE "crashed")
  /\ UNCHANGED <<file, lock, age, job, held, source, todo, executed, handoff>>

(* Which errors reach the handler that releases the lock. *)
ReleasingLabels == {"checking", "claiming", "rejecting", "rejWriting", "handingOff"}
(* Which errors do not. *)
AbandoningLabels ==
  {"locking", "recording", "finChecking", "finWriting", "finMoving", "releasing", "finding",
   "mvWriting", "mvMoving", "mvHandingOff"}

(* An OSError of the file operation at p's label. *)
FileError(p) ==
  /\ p \in MayFail
  /\ \/ pc[p] \in ReleasingLabels /\ Goto(p, "releasing")
     \/ pc[p] \in AbandoningLabels /\ Goto(p, Resume(p))
  /\ UNCHANGED <<file, lock, age, job, held, source, todo, executed, handoff>>
------------------------------------------------------------------------------
(* What a process does once it has started. *)
RunnerStep(r) ==
  \/ AcquireLock(r) \/ CheckClaim(r) \/ MovePendingToRunning(r) \/ RecordClaim(r)
  \/ BeginExecution(r) \/ EndExecution(r)
  \/ CheckFinal(r) \/ WriteFinal(r) \/ MoveRunningToFinal(r)
  \/ WriteHandoff(r) \/ ReleaseLock(r)

RejectStep(p) ==
  \/ AcquireLock(p) \/ CheckReject(p) \/ MovePendingToRejected(p) \/ RecordReject(p)
  \/ WriteHandoff(p) \/ ReleaseLock(p)

CancelStep(c) ==
  \/ FindAgain(c) \/ WriteMoved(c) \/ MoveAny(c) \/ HandOffMoved(c) \/ RejectStep(c)

SweepStep(w) ==
  \/ SweepOne(w) \/ EndSweep(w)
  \/ CheckFinal(w) \/ WriteFinal(w) \/ MoveRunningToFinal(w)
  \/ WriteHandoff(w) \/ ReleaseLock(w)

Next ==
  \/ \E b \in Bundles :
       \/ Stage(b) \/ Age(b)
       \/ \E p \in Procs : StartApply(p, b) \/ StartReject(p, b) \/ StartCancel(p, b)
  \/ \E r \in Runners : RunnerStep(r)
  \/ \E j \in Rejecters : RejectStep(j)
  \/ \E c \in Cancellers : CancelStep(c)
  \/ \E w \in Watchers : StartSweep(w) \/ SweepStep(w)
  \/ \E p \in Procs : Crash(p) \/ FileError(p)

Spec == Init /\ [][Next]_vars

(* A started process runs on by itself: its commands have timeouts and its *)
(* loops are bounded.  Nothing makes anyone start, approve, crash or age.  *)
Fairness == /\ \A r \in Runners : WF_vars(RunnerStep(r))
            /\ \A j \in Rejecters : WF_vars(RejectStep(j))
            /\ \A c \in Cancellers : WF_vars(CancelStep(c))
            /\ \A w \in Watchers : WF_vars(SweepStep(w))

LiveSpec == Spec /\ Fairness
------------------------------------------------------------------------------
(* Properties *)

(* At most one runner ever starts the side effects of a bundle, whatever   *)
(* crashes, fails, is swept or is cancelled, and whoever holds the lock    *)
(* (plan:92 "concurrent runner attempts execute one bundle at most once"). *)
AtMostOnceExecution == \A b \in Bundles : \A r, s \in executed[b] : r = s

(* A staged bundle is in exactly one directory, between any two file       *)
(* operations: nobody sees it twice, and nobody sees it gone.              *)
OneCanonicalRecord ==
  \A b \in Bundles : Cardinality(Present(b)) = IF age[b] = "unstaged" THEN 0 ELSE 1

(* A rejected bundle was never executed, and a pending one not yet         *)
(* (server.py:3244 "Reject a pending command bundle without executing it").*)
RejectedNeverExecuted ==
  \A b \in Bundles : In(b, "rejected") \/ In(b, "pending") => executed[b] = {}

(* A handoff never reports a status other than the canonical one.          *)
HandoffAgrees == \A b \in Bundles : handoff[b] # None => FoundIn(b, handoff[b])

(* The runner that claimed b and may still have side effects to come.      *)
LiveOwner(r, b) ==
  r \in Runners /\ job[r] = b
  /\ pc[r] \in {"recording", "claimed", "executing", "finChecking", "finWriting", "finMoving"}

(* Only the owner itself, or a sweep after the owner is gone, interrupts   *)
(* (bundles.py:547 "Move provably old running records to interrupted").    *)
SweepSparesLiveOwner ==
  [][\A b \in Bundles : \A w \in Watchers :
        (pc[w] = "finMoving" /\ job[w] = b /\ pc'[w] = "handingOff")
          => \A r \in Runners : ~LiveOwner(r, b)]_vars

(* Somebody alive is between acquiring b's lock and moving the file. *)
HoldsLock(p, b) ==
  job[p] = b /\ pc[p] \in {"checking", "claiming", "rejecting", "releasing"}
(* A pending bundle that answers "already claimed" is being claimed, by a  *)
(* live process (bundles.py:317).                                          *)
LockedPendingHasHolder ==
  \A b \in Bundles : lock[b] /\ In(b, "pending") => \E p \in Procs : HoldsLock(p, b)

Final == Terminal \cup {"rejected"}
(* A claimed bundle comes to a final state if its runner is not killed and *)
(* the file system works.                                                  *)
ClaimResolves ==
  \A r \in Runners : \A b \in Bundles :
    LiveOwner(r, b) ~> (pc[r] = "crashed" \/ Present(b) \cap Final # {})

Orphaned(b) == LET owner == file[b]["running"].exec IN
  /\ Present(b) = {"running"}
  /\ IF owner # None THEN Gone(owner)
     ELSE age[b] = "old" /\ \A r \in Runners : ~LiveOwner(r, b)
(* A sweep takes every orphaned running bundle it lists to a final state.  *)
SweepClearsOrphans ==
  \A w \in Watchers : \A b \in Bundles :
    (pc[w] = "sweeping" /\ b \in todo[w] /\ Orphaned(b)) ~> Present(b) # {"running"}

(* The store implements the abstract lifecycle. *)
StatusOf(b) == IF Present(b) = {} THEN "absent" ELSE CHOOSE d \in Dirs : FoundIn(b, d)
Lifecycle == INSTANCE BundleLifecycle
             WITH status <- [b \in Bundles |-> StatusOf(b)],
                  ran <- {b \in Bundles : executed[b] # {}}
ImplementsLifecycle == Lifecycle!Spec
==============================================================================
