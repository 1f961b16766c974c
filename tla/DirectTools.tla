----------------------------- MODULE DirectTools -----------------------------
(***************************************************************************)
(* The tools of server.py that change the workspace directly, with the     *)
(* operation ledger (operations.py), the trash (trash.py) and the          *)
(* persistent backups (backups.py).  The server calls its tools one at a   *)
(* time, so no two of them overlap; what is hard is a server that dies, or *)
(* a file operation that fails, between the effect and its records, and a  *)
(* client that calls again with the same operation_id.                     *)
(*                                                                         *)
(* An operation is what a client wants done: one tool with its arguments,  *)
(* which the client may call again.  A text is the sequence of the marks   *)
(* in it: Old for what was there first, o for what operation o wrote.      *)
(***************************************************************************)
EXTENDS Naturals, Sequences, FiniteSets

CONSTANTS
  Absent,      \* what is at a path where there is nothing
  Paths,       \* paths of the workspace
  Dirs,        \* those of them that are directories when they exist
  Ops,         \* operations; those with a ledger have an operation_id each
  Asks,        \* Asks[o]: the requests operation o may be
  MaxCalls,    \* how often the client calls one operation
  MayKill,     \* operations in which the server may be killed
  MayFail,     \* operations whose file operations and commands may raise
  MaxEdits,    \* how often somebody else changes a file
  EditsDuring  \* TRUE iff that may happen while a tool runs

Ledgered == {"write", "replace", "delete", "restore_backup", "patch", "exec"}
Commands == {"git_add", "git_commit", "run_profile"}
Plain == {"append", "mkdir", "restore_deleted"} \cup Commands
Tools == Ledgered \cup Plain

Old == "old"
Marks == Ops \cup {Old, "torn", "edit", "anything"}
Texts == Seq(Marks)
Torn == <<"torn">>
Edited == <<"edit", Old>>
Anything == <<"anything">>

(* `force` is overwrite (write, the restores), create_if_missing (append)  *)
(* or a low risk (exec); `expected` stands for expected_sha256.            *)
Requests == [tool : Tools, paths : (SUBSET Paths) \ {{}}, force : BOOLEAN, expected : Texts]

ASSUME AbsentAssumption == Absent \notin Texts
ASSUME DirsAssumption == Dirs \subseteq Paths
ASSUME CallsAssumption == MaxCalls \in Nat /\ MaxEdits \in Nat
ASSUME AsksAssumption == DOMAIN Asks = Ops /\ \A o \in Ops : Asks[o] \subseteq Requests
(* No path is a file at one time and a directory at another. *)
ASSUME KindsAssumption ==
  \A o \in Ops : \A r \in Asks[o] : \A p \in r.paths :
    /\ p \in Dirs => r.tool \in {"mkdir", "delete", "restore_deleted"}
    /\ r.tool = "mkdir" => p \in Dirs

VARIABLES
  content,  \* content[p]: the text at p, or Absent
  backups,  \* the copies under BACKUP_DIR: [path, text]
  trash,    \* the entries under TRASH_DIR: [path, text, listed, held, by]
  ledger,   \* ledger[o]: the operation record
  asked,    \* asked[o]: the request of operation o (never changes)
  pc,       \* where the server is
  op,       \* the operation it works on
  draft,    \* the text it is about to write or to put back
  todo,     \* the paths its loop has still to visit
  calls,    \* calls[o]: how often the client has called o
  edits,    \* how often somebody else has changed a file
  effects,  \* effects[o]: how often o has changed anything (history)
  reply,    \* reply[o]: what the client heard last
  faults,   \* faults[o]: where a call of o met a kill or a file error (history)
  known     \* the pairs <<path, text>> there have been (history)

vars == <<content, backups, trash, ledger, asked, pc, op, draft, todo, calls,
          edits, effects, reply, faults, known>>
store == <<content, backups, trash>>
client == <<asked, calls, edits>>

Labels == {"idle", "opened", "check", "backup", "truncating", "filling",
           "appending", "creating", "moving", "listing", "unlinking", "movingBack",
           "applying", "patching", "reporting", "running", "completing", "closing",
           "failing", "failClosing"}
LedgerStates == {"none", "torn", "started", "completed", "failed"}

IsLedgered(o) == asked[o].tool \in Ledgered
Exists(p) == content[p] # Absent
IsFile(p) == Exists(p) /\ p \notin Dirs
HasOld(t) == \E i \in DOMAIN t : t[i] = Old
Replaced(t, o) == [i \in DOMAIN t |-> IF t[i] = Old THEN o ELSE t[i]]
Target(o) == CHOOSE p \in asked[o].paths : TRUE
Req == asked[op]

Init ==
  /\ content \in [Paths -> {Absent, <<Old>>}]
  /\ backups = {}
  /\ trash = {}
  /\ ledger = [o \in Ops |-> "none"]
  /\ asked \in {a \in [Ops -> UNION {Asks[o] : o \in Ops}] : \A o \in Ops : a[o] \in Asks[o]}
  /\ pc = "idle"
  /\ op \in Ops
  /\ draft = Absent
  /\ todo = {}
  /\ calls = [o \in Ops |-> 0]
  /\ edits = 0
  /\ effects = [o \in Ops |-> 0]
  /\ reply = [o \in Ops |-> "none"]
  /\ faults = [o \in Ops |-> {}]
  /\ known = {<<p, content[p]>> : p \in {q \in Paths : content[q] # Absent}}

Acts == effects' = [effects EXCEPT ![op] = @ + 1]
Writes(p, t) == /\ content' = [content EXCEPT ![p] = t]
                /\ known' = known \cup {<<p, t>>}
Answers(o, what) == reply' = [reply EXCEPT ![o] = what]
Returns(what) == pc' = "idle" /\ Answers(op, what) /\ draft' = Absent /\ todo' = {}
CallsNow(o) == calls[o] < MaxCalls /\ pc = "idle" /\ calls' = [calls EXCEPT ![o] = @ + 1]

------------------------------------------------------------------------------
(* A call arrives: _begin_operation *)

(* No record: one is written, in place. *)
BeginFresh(o) ==
  /\ CallsNow(o) /\ IsLedgered(o) /\ ledger[o] = "none"
  /\ op' = o
  /\ ledger' = [ledger EXCEPT ![o] = "torn"]
  /\ pc' = "opened"
  /\ Answers(o, "none")
  /\ UNCHANGED <<store, asked, edits, draft, todo, effects, faults, known>>

(* MUTANT: the record says "running", which nothing else writes. *)
FillRunning ==
  /\ pc = "opened"
  /\ ledger' = [ledger EXCEPT ![op] = "running"]
  /\ pc' = "check"
  /\ UNCHANGED <<store, client, op, draft, todo, effects, reply, faults, known>>

FillStarted ==
  /\ pc = "opened"
  /\ ledger' = [ledger EXCEPT ![op] = "started"]
  /\ pc' = "check"
  /\ UNCHANGED <<store, client, op, draft, todo, effects, reply, faults, known>>

(* MUTANT: any record is taken for a result. *)
ReuseAny(o) ==
  /\ CallsNow(o) /\ IsLedgered(o) /\ ledger[o] # "none"
  /\ Answers(o, "ok")
  /\ UNCHANGED <<store, ledger, asked, pc, op, edits, draft, todo, effects, faults, known>>

(* A completed operation answers what it answered before. *)
BeginReuse(o) ==
  /\ CallsNow(o) /\ IsLedgered(o) /\ ledger[o] = "completed"
  /\ Answers(o, "ok")
  /\ UNCHANGED <<store, ledger, asked, pc, op, edits, draft, todo, effects, faults, known>>

(* MUTANT: an operation that is recorded as started is begun again. *)
RefuseFailed(o) ==
  /\ CallsNow(o) /\ IsLedgered(o) /\ ledger[o] \in {"started", "failed", "torn"}
  /\ IF ledger[o] = "started"
     THEN op' = o /\ pc' = "check" /\ UNCHANGED reply
     ELSE Answers(o, "error") /\ UNCHANGED <<op, pc>>
  /\ UNCHANGED <<store, ledger, asked, edits, draft, todo, effects, faults, known>>

(* "already running", "already failed", or a record that is no JSON. *)
BeginRefuse(o) ==
  /\ CallsNow(o) /\ IsLedgered(o) /\ ledger[o] \in {"started", "failed", "torn"}
  /\ Answers(o, "error")
  /\ UNCHANGED <<store, ledger, asked, pc, op, edits, draft, todo, effects, faults, known>>

(* workspace_append_file, _create_directory, _restore_deleted, _git_add,    *)
(* _git_commit, _run_profile: no ledger.                                   *)
BeginPlain(o) ==
  /\ CallsNow(o) /\ ~IsLedgered(o)
  /\ op' = o
  /\ pc' = "check"
  /\ Answers(o, "none")
  /\ UNCHANGED <<store, ledger, asked, edits, draft, todo, effects, faults, known>>

------------------------------------------------------------------------------
(* The checks of each tool, what it is going to write, and what it backs up *)

(* _validate_expected_sha256 *)
Matches(p) == Req.expected = Anything \/ (IsFile(p) /\ content[p] = Req.expected)

(* What each tool asks for before it changes anything. *)
WriteAllowed == LET p == Target(op) IN (Exists(p) => Req.force) /\ Matches(p)
ReplaceAllowed == LET p == Target(op) IN IsFile(p) /\ Matches(p) /\ HasOld(content[p])
AppendAllowed == Exists(Target(op)) \/ Req.force
DeleteAllowed == Exists(Target(op))
Restorable == {e \in trash : e.path = Target(op) /\ e.listed /\ e.held}
RestoreAllowed == (Exists(Target(op)) => Req.force) /\ Restorable # {}
BackupsOf == {b \in backups : b.path = Target(op)}
RestoreBackupAllowed == (Exists(Target(op)) => Req.force) /\ BackupsOf # {}
PatchAllowed == \A q \in Req.paths : IsFile(q) /\ HasOld(content[q])
GitAddAllowed == \A q \in Req.paths : Exists(q)

Accepts ==
  \/ Req.tool = "write" /\ WriteAllowed
  \/ Req.tool = "replace" /\ ReplaceAllowed
  \/ Req.tool = "append" /\ AppendAllowed
  \/ Req.tool = "delete" /\ DeleteAllowed
  \/ Req.tool = "restore_deleted" /\ RestoreAllowed
  \/ Req.tool = "restore_backup" /\ RestoreBackupAllowed
  \/ Req.tool = "patch" /\ PatchAllowed
  \/ Req.tool = "git_add" /\ GitAddAllowed
  \/ Req.tool \in {"mkdir", "exec", "git_commit", "run_profile"}

(* MUTANT: a refused call returns without its failure being recorded. *)
RefuseSilently ==
  /\ pc = "check" /\ ~Accepts
  /\ Returns("error")
  /\ UNCHANGED <<store, ledger, client, op, effects, faults, known>>

Refuse ==
  /\ pc = "check" /\ ~Accepts
  /\ pc' = "failing"
  /\ UNCHANGED <<store, ledger, client, op, draft, todo, effects, reply, faults, known>>

(* MUTANT: only a file whose text is about to change is backed up. *)
BacksUpOther(text) ==
  /\ draft' = text
  /\ todo' = {q \in Req.paths : IsFile(q) /\ ~HasOld(content[q])}
  /\ pc' = "backup"

BacksUp(text) ==
  /\ draft' = text
  /\ todo' = {q \in Req.paths : IsFile(q)}
  /\ pc' = "backup"

Passes(tool) ==
  /\ pc = "check" /\ Req.tool = tool /\ Accepts
  /\ UNCHANGED <<store, ledger, client, op, effects, reply, faults, known>>
Goes(label) == pc' = label /\ UNCHANGED <<draft, todo>>

CheckWrite == Passes("write") /\ BacksUp(<<op>>)
(* The new text is made of what is read here, and written later. *)
CheckReplace == Passes("replace") /\ BacksUp(Replaced(content[Target(op)], op))
CheckAppend == Passes("append") /\ BacksUp(<<op>>)
CheckPatch == Passes("patch") /\ BacksUp(<<op>>)
CheckRestoreDeleted == Passes("restore_deleted") /\ \E e \in Restorable : BacksUp(e.text)
CheckRestoreBackup == Passes("restore_backup") /\ \E b \in BackupsOf : BacksUp(b.text)
CheckCreateDirectory == Passes("mkdir") /\ Goes("creating")
CheckDelete == Passes("delete") /\ Goes("moving")
(* A command that is not low-risk is recorded as completed, and not run. *)
CheckExec == Passes("exec") /\ Goes(IF Req.force THEN "running" ELSE "completing")
CheckGitAdd == Passes("git_add") /\ Goes("running")
CheckGitCommit == Passes("git_commit") /\ Goes("running")
CheckRunProfile == Passes("run_profile") /\ Goes("running")

Check ==
  \/ CheckWrite \/ CheckReplace \/ CheckAppend \/ CheckPatch \/ CheckRestoreDeleted
  \/ CheckRestoreBackup \/ CheckCreateDirectory \/ CheckDelete \/ CheckExec
  \/ CheckGitAdd \/ CheckGitCommit \/ CheckRunProfile

------------------------------------------------------------------------------
(* _create_backup_entry.  A copy whose manifest is not written (yet) is    *)
(* read by nothing, so copy and manifest are one step.                     *)

Backup ==
  /\ pc = "backup"
  /\ \E p \in todo :
       /\ backups' = backups \cup {[path |-> p, text |-> content[p]]}
       /\ todo' = todo \ {p}
  /\ UNCHANGED <<content, trash, ledger, client, pc, op, draft, effects, reply, faults, known>>

BackupsDone ==
  /\ pc = "backup" /\ todo = {}
  /\ pc' = CASE Req.tool = "append" -> "appending"
             [] Req.tool = "patch" -> "applying"
             [] Req.tool = "restore_deleted" ->
                  IF Exists(Target(op)) THEN "unlinking" ELSE "movingBack"
             [] OTHER -> "truncating"
  /\ UNCHANGED <<store, ledger, client, op, draft, todo, effects, reply, faults, known>>

------------------------------------------------------------------------------
(* The effects *)

(* write_bytes and copy2 open the file for writing, then fill it. *)
Truncate ==
  /\ pc = "truncating"
  /\ content' = [content EXCEPT ![Target(op)] = Torn]
  /\ Acts
  /\ pc' = "filling"
  /\ UNCHANGED <<backups, trash, ledger, client, op, draft, todo, reply, faults, known>>

Fill ==
  /\ pc = "filling"
  /\ Writes(Target(op), draft)
  /\ pc' = "completing"
  /\ UNCHANGED <<backups, trash, ledger, client, op, draft, todo, effects, reply, faults>>

AppendText ==
  /\ pc = "appending"
  /\ LET p == Target(op) IN Writes(p, (IF Exists(p) THEN content[p] ELSE <<>>) \o draft)
  /\ Acts
  /\ pc' = "completing"
  /\ UNCHANGED <<backups, trash, ledger, client, op, draft, todo, reply, faults>>

CreateDirectory ==
  /\ pc = "creating"
  /\ LET p == Target(op) IN
     IF Exists(p) THEN UNCHANGED <<content, known>> ELSE Writes(p, <<op>>)
  /\ Acts
  /\ pc' = "completing"
  /\ UNCHANGED <<backups, trash, ledger, client, op, draft, todo, reply, faults>>

(* _move_to_trash: the move, then the manifest. *)
MoveToTrash ==
  /\ pc = "moving"
  /\ LET p == Target(op) IN
     /\ trash' = trash \cup {[path |-> p, text |-> content[p], listed |-> FALSE, held |-> TRUE, by |-> op]}
     /\ content' = [content EXCEPT ![p] = Absent]
  /\ Acts
  /\ pc' = "listing"
  /\ UNCHANGED <<backups, ledger, client, op, draft, todo, reply, faults, known>>

ListTrash ==
  /\ pc = "listing"
  /\ trash' = {IF e.by = op THEN [e EXCEPT !.listed = TRUE] ELSE e : e \in trash}
  /\ pc' = "completing"
  /\ UNCHANGED <<content, backups, ledger, client, op, draft, todo, effects, reply, faults, known>>

(* _prepare_trash_restore removes what is in the way; a directory has no backup. *)
Unlink ==
  /\ pc = "unlinking"
  /\ content' = [content EXCEPT ![Target(op)] = Absent]
  /\ Acts
  /\ pc' = "movingBack"
  /\ UNCHANGED <<backups, trash, ledger, client, op, draft, todo, reply, faults, known>>

MoveBack ==
  /\ pc = "movingBack"
  /\ \E e \in trash :
       /\ e.path = Target(op) /\ e.text = draft /\ e.listed /\ e.held
       /\ trash' = (trash \ {e}) \cup {[e EXCEPT !.held = FALSE]}
  /\ Writes(Target(op), draft)
  /\ Acts
  /\ pc' = "completing"
  /\ UNCHANGED <<backups, ledger, client, op, draft, todo, reply, faults>>

(* git apply, which checks every file before it writes the first. *)
StartApply ==
  /\ pc = "applying"
  /\ IF \A p \in Req.paths : IsFile(p) /\ HasOld(content[p])
     THEN pc' = "patching" /\ todo' = Req.paths /\ Acts
     ELSE pc' = "failing" /\ UNCHANGED <<todo, effects>>
  /\ UNCHANGED <<store, ledger, client, op, draft, reply, faults, known>>

PatchFile ==
  /\ pc = "patching"
  /\ \E p \in todo : Writes(p, Replaced(content[p], op)) /\ todo' = todo \ {p}
  /\ UNCHANGED <<backups, trash, ledger, client, pc, op, draft, effects, reply, faults>>

PatchDone ==
  /\ pc = "patching" /\ todo = {}
  /\ pc' = "reporting"
  /\ UNCHANGED <<store, ledger, client, op, draft, todo, effects, reply, faults, known>>

(* Somebody who keeps no copies changes what is at p: that is theirs to lose. *)
Replaces(p, t) ==
  /\ content' = [content EXCEPT ![p] = t]
  /\ known' = (known \ {<<p, content[p]>>}) \cup ({<<p, t>>} \ {<<p, Absent>>})

(* A low-risk command of workspace_exec, git add or commit, or a profile:  *)
(* what it runs may rewrite, make or remove what is at any path, and no    *)
(* backup is made first.  git add reads the files only.                    *)
Run ==
  /\ pc = "running"
  /\ \E p \in Paths : \E t \in {content[p], <<op>>, Absent} :
       /\ Req.tool = "git_add" => t = content[p]
       /\ Replaces(p, t)
  /\ Acts
  /\ pc' = "reporting"
  /\ UNCHANGED <<backups, trash, ledger, client, op, draft, todo, reply, faults>>

(* What the command said, or what git diff says of a patch: it is in the   *)
(* answer only, and a command that failed is an answer like any other.  An *)
(* exception here (a timeout, the audit log) comes after the effect.       *)
Report ==
  /\ pc = "reporting"
  /\ pc' = "completing"
  /\ UNCHANGED <<store, ledger, client, op, draft, todo, effects, reply, faults, known>>

------------------------------------------------------------------------------
(* _complete_operation and _fail_operation *)

Complete ==
  /\ pc = "completing"
  /\ IF IsLedgered(op)
     THEN /\ ledger' = [ledger EXCEPT ![op] = "torn"]
          /\ pc' = "closing"
          /\ UNCHANGED <<reply, draft, todo>>
     ELSE Returns("ok") /\ UNCHANGED ledger
  /\ UNCHANGED <<store, client, op, effects, faults, known>>

FillCompleted ==
  /\ pc = "closing"
  /\ ledger' = [ledger EXCEPT ![op] = "completed"]
  /\ Returns("ok")
  /\ UNCHANGED <<store, client, op, effects, faults, known>>

(* A record that is torn by now cannot be read, and stays torn. *)
Fail ==
  /\ pc = "failing"
  /\ IF IsLedgered(op) /\ ledger[op] # "torn"
     THEN /\ ledger' = [ledger EXCEPT ![op] = "torn"]
          /\ pc' = "failClosing"
          /\ UNCHANGED <<reply, draft, todo>>
     ELSE Returns("error") /\ UNCHANGED ledger
  /\ UNCHANGED <<store, client, op, effects, faults, known>>

FillFailed ==
  /\ pc = "failClosing"
  /\ ledger' = [ledger EXCEPT ![op] = "failed"]
  /\ Returns("error")
  /\ UNCHANGED <<store, client, op, effects, faults, known>>

------------------------------------------------------------------------------
(* Faults *)

AtLedger == pc \in {"opened", "completing", "closing", "failing", "failClosing"}
Faulted == faults' = [faults EXCEPT ![op] = @ \cup {IF AtLedger THEN "ledger" ELSE "tool"}]

(* An exception in the tool (an OSError, a TimeoutExpired, a git that       *)
(* fails) is recorded; one in _begin_operation or _fail_operation is not.   *)
Raise ==
  /\ op \in MayFail /\ pc # "idle"
  /\ IF pc \in {"opened", "failing", "failClosing"} \/ ~IsLedgered(op)
     THEN Returns("error")
     ELSE pc' = "failing" /\ UNCHANGED <<reply, draft, todo>>
  /\ Faulted
  /\ UNCHANGED <<store, ledger, client, op, effects, known>>

(* Each record is followed by a line of the audit log, which may fail when *)
(* the record is there: a started operation stays started, and a completed *)
(* one is recorded as failed after all.                                    *)
StartUnaudited ==
  /\ op \in MayFail /\ pc = "opened"
  /\ ledger' = [ledger EXCEPT ![op] = "started"]
  /\ Returns("error") /\ Faulted
  /\ UNCHANGED <<store, client, op, effects, known>>

CompleteUnaudited ==
  /\ op \in MayFail /\ pc = "closing"
  /\ ledger' = [ledger EXCEPT ![op] = "completed"]
  /\ pc' = "failing" /\ Faulted
  /\ UNCHANGED <<store, client, op, draft, todo, effects, reply, known>>

FailUnaudited ==
  /\ op \in MayFail /\ pc = "failClosing"
  /\ ledger' = [ledger EXCEPT ![op] = "failed"]
  /\ Returns("error") /\ Faulted
  /\ UNCHANGED <<store, client, op, effects, known>>

ReuseUnaudited(o) ==
  /\ o \in MayFail /\ CallsNow(o) /\ IsLedgered(o) /\ ledger[o] = "completed"
  /\ Answers(o, "error")
  /\ faults' = [faults EXCEPT ![o] = @ \cup {"ledger"}]
  /\ UNCHANGED <<store, ledger, asked, pc, op, edits, draft, todo, effects, known>>

(* The server is killed; it is started again, and the client may call again. *)
Kill ==
  /\ op \in MayKill /\ pc # "idle"
  /\ Returns("lost")
  /\ faults' = [faults EXCEPT ![op] = @ \cup {"ledger"}]
  /\ UNCHANGED <<store, ledger, client, op, effects, known>>

(* Somebody else changes a file. *)
Edit(p) ==
  /\ edits < MaxEdits /\ (pc = "idle" \/ EditsDuring) /\ p \notin Dirs
  /\ Replaces(p, Edited)
  /\ edits' = edits + 1
  /\ UNCHANGED <<backups, trash, ledger, asked, calls, pc, op, draft, todo, effects, reply, faults>>

------------------------------------------------------------------------------
Begin == \E o \in Ops : BeginFresh(o) \/ BeginReuse(o) \/ BeginRefuse(o) \/ BeginPlain(o)
Serve ==
  \/ FillStarted \/ Refuse \/ Check \/ Backup \/ BackupsDone
  \/ Truncate \/ Fill \/ AppendText \/ CreateDirectory \/ MoveToTrash \/ ListTrash
  \/ Unlink \/ MoveBack \/ StartApply \/ PatchFile \/ PatchDone \/ Run \/ Report
  \/ Complete \/ FillCompleted \/ Fail \/ FillFailed
Unaudited ==
  StartUnaudited \/ CompleteUnaudited \/ FailUnaudited \/ \E o \in Ops : ReuseUnaudited(o)
Fault == Raise \/ Kill \/ Unaudited

Next == Begin \/ Serve \/ Fault \/ \E p \in Paths : Edit(p)

Spec == Init /\ [][Next]_vars
------------------------------------------------------------------------------
(* Properties *)

TypeOK ==
  /\ content \in [Paths -> Texts \cup {Absent}]
  /\ backups \subseteq [path : Paths, text : Texts]
  /\ trash \subseteq [path : Paths, text : Texts, listed : BOOLEAN, held : BOOLEAN, by : Ops]
  /\ ledger \in [Ops -> LedgerStates]
  /\ asked \in [Ops -> Requests]
  /\ pc \in Labels
  /\ op \in Ops
  /\ draft \in Texts \cup {Absent}
  /\ todo \subseteq Paths
  /\ calls \in [Ops -> Nat]
  /\ edits \in Nat
  /\ effects \in [Ops -> Nat]
  /\ reply \in [Ops -> {"none", "ok", "error", "lost"}]
  /\ faults \in [Ops -> SUBSET {"tool", "ledger"}]
  /\ known \subseteq Paths \X Texts

(* An operation_id is an "idempotency key" (server.py:1093): however often *)
(* the client calls, and wherever the server died, an operation with a     *)
(* ledger has its effect at most once.                                     *)
EffectAtMostOnce == \A o \in Ops : IsLedgered(o) => effects[o] <= 1

(* What the client hears is true: "ok" of a first or of a repeated call    *)
(* means that the operation has had its effect (a command that was not     *)
(* low-risk has none), and a plain error means that it has had none.       *)
AnswersTrue ==
  \A o \in Ops :
    /\ reply[o] = "ok" => (effects[o] = 0 <=> asked[o].tool = "exec" /\ ~asked[o].force)
    /\ reply[o] = "error" /\ faults[o] = {} /\ IsLedgered(o) => effects[o] = 0

(* Between calls a record is open only if the server was killed or a write *)
(* of the ledger, or of its audit line, failed: no path through a tool     *)
(* leaves an operation "already running" for good.                         *)
OpenOnlyAfterFault ==
  pc = "idle" => \A o \in Ops : ledger[o] \in {"started", "torn"} => "ledger" \in faults[o]

(* Whatever a file tool overwrote, removed or moved, and wherever it failed *)
(* or was killed, a text that was at a path is still there, or in a backup *)
(* that can be restored, or held by the trash.  Texts that a command or    *)
(* somebody else changes are theirs: no copy is made of them.              *)
NothingLost ==
  \A k \in known :
    \/ content[k[1]] = k[2]
    \/ [path |-> k[1], text |-> k[2]] \in backups
    \/ \E e \in trash : e.path = k[1] /\ e.text = k[2] /\ e.held

==============================================================================
