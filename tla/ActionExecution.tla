--------------------------- MODULE ActionExecution ---------------------------
(***************************************************************************)
(* What scripts/command_bundle_runner.py does between the claim of a       *)
(* bundle and its final record: it snapshots the files the bundle's file   *)
(* actions name, runs the steps one after the other, each with its         *)
(* persistent backup, stops at the first failure, and then puts the        *)
(* snapshots back.  A runner works on one bundle; runners of different     *)
(* bundles run at the same time in the same workspace.                     *)
(*                                                                         *)
(* A text is the sequence of the marks in it: OrigMark for what was there  *)
(* before, <<r, i>> for what step i of runner r put there.                 *)
(***************************************************************************)
EXTENDS FiniteSets, Naturals, Sequences, SequencesExt

CONSTANTS
  Runners,      \* processes, each applying a bundle of its own
  Files,        \* files of the workspace
  Folder,       \* Folder[f]: the directory of f; "." is the bundle's cwd
  Programs,     \* Programs[r]: the step lists the bundle of r may have
  EmptyFolders, \* TRUE iff a directory without files may exist at first
  MayFail,      \* runners whose file operations may raise
  MayInterrupt, \* runners that may get a KeyboardInterrupt or SystemExit
  MayKill       \* runners that may be killed (SIGKILL)

FileKinds == {"write_file", "overwrite", "append_file", "replace_text"}
Kinds == FileKinds \cup {"apply_patch", "command"}

ASSUME FolderAssumption == DOMAIN Folder = Files
ASSUME ProgramsAssumption == Programs \in [Runners -> SUBSET Seq([kind : Kinds, file : Files])]

OrigMark == <<"orig", 0>>
Orig == <<OrigMark>>
Missing == <<<<"missing", 0>>>>
Folders == {Folder[f] : f \in Files} \ {"."}

VARIABLES
  text,      \* text[f]: the content of file f, or Missing
  folders,   \* the directories that exist, besides "."
  backups,   \* the persistent backups, as pairs <<file, text>>
  prog,      \* prog[r]: the steps of r's bundle
  before,    \* the workspace at first: texts and directories (never changes)
  pc,        \* where each runner is
  at,        \* the step each runner is at
  snap,      \* snap[r]: the snapshots taken, a function on a set of files
  draft,     \* the text r's step is about to write
  left,      \* the files r's snapshot loop or rollback has still to visit
  outcome,   \* "none", "applied", "failed" or "interrupted"
  rollback,  \* "none", "completed" or "failed"
  stopped,   \* stopped[r]: where r was when its run stopped (history)
  taken      \* files from which a command took the text that was there first (history)

wsVars == <<text, folders, backups, taken>>
vars == <<wsVars, prog, before, pc, at, snap, draft, left, outcome, rollback, stopped>>

(* The files the bundle's file actions name, in order of first mention. *)
IsFileStep(s) == s.kind \in FileKinds
Targets(p) == {p[i].file : i \in {j \in DOMAIN p : IsFileStep(p[j])}}
FirstMention(p, f) == CHOOSE i \in DOMAIN p : /\ IsFileStep(p[i]) /\ p[i].file = f
                                              /\ \A j \in 1..(i - 1) : ~(IsFileStep(p[j]) /\ p[j].file = f)
FirstOf(fs, p) == CHOOSE f \in fs : \A g \in fs : FirstMention(p, f) <= FirstMention(p, g)
NextTarget(r) == FirstOf(left[r], prog[r])

(* Only bundles with file actions are rolled back.  (A version 2 bundle    *)
(* without them is too, but has nothing to restore.)                       *)
IsActionBundle(p) == Targets(p) # {}

Labels == {"claimed", "snapshotting", "step", "backup", "truncating", "filling",
           "rollingBack", "restoring", "ended", "killed"}

Init ==
  /\ text \in [Files -> {Missing, Orig}]
  /\ \E extra \in (IF EmptyFolders THEN SUBSET Folders ELSE {{}}) :
       folders = extra \cup ({Folder[f] : f \in {g \in Files : text[g] # Missing}} \ {"."})
  /\ backups = {}
  /\ prog \in {p \in [Runners -> UNION {Programs[r] : r \in Runners}] :
                 \A r \in Runners : p[r] \in Programs[r]}
  /\ before = [text |-> text, folders |-> folders]
  /\ pc = [r \in Runners |-> "claimed"]
  /\ at = [r \in Runners |-> 1]
  /\ snap = [r \in Runners |-> <<>>]
  /\ draft = [r \in Runners |-> Missing]
  /\ left = [r \in Runners |-> {}]
  /\ outcome = [r \in Runners |-> "none"]
  /\ rollback = [r \in Runners |-> "none"]
  /\ stopped = [r \in Runners |-> "none"]
  /\ taken = {}

Goto(r, label) == pc' = [pc EXCEPT ![r] = label]
Step(r) == prog[r][at[r]]
Mark(r) == <<r, at[r]>>
HasFolder(f) == Folder[f] = "." \/ Folder[f] \in folders
Has(t, m) == t # Missing /\ m \in ToSet(t)
(* old_text is whatever was in the file at first. *)
Replaced(t, m) == [i \in DOMAIN t |-> IF t[i] = OrigMark THEN m ELSE t[i]]

(* MUTANT: a failed bundle is left as it is. *)
StopsUnrestored(r, how) ==
  /\ outcome' = [outcome EXCEPT ![r] = how]
  /\ stopped' = [stopped EXCEPT ![r] = pc[r]]
  /\ Goto(r, "ended")
  /\ rollback' = [rollback EXCEPT ![r] = "completed"]
  /\ UNCHANGED <<prog, before, at, snap, draft, left>>

(* The run stops with this outcome; what was snapshotted is put back. *)
StopsAs(r, how) ==
  /\ outcome' = [outcome EXCEPT ![r] = how]
  /\ stopped' = [stopped EXCEPT ![r] = pc[r]]
  /\ IF IsActionBundle(prog[r])
     THEN /\ Goto(r, "rollingBack")
          /\ left' = [left EXCEPT ![r] = DOMAIN snap[r]]
          /\ rollback' = [rollback EXCEPT ![r] = "completed"]
     ELSE Goto(r, "ended") /\ UNCHANGED <<left, rollback>>
  /\ UNCHANGED <<prog, before, at, snap, draft>>

------------------------------------------------------------------------------
(* Snapshots, all of them before the first step *)

(* MUTANT: every file a step names is a target, also those of commands. *)
BeginWide(r) ==
  /\ pc[r] = "claimed"
  /\ left' = [left EXCEPT ![r] = {prog[r][i].file : i \in DOMAIN prog[r]}]
  /\ Goto(r, "snapshotting")
  /\ UNCHANGED <<wsVars, prog, before, at, snap, draft, outcome, rollback, stopped>>

Begin(r) ==
  /\ pc[r] = "claimed"
  /\ IF IsActionBundle(prog[r])
     THEN Goto(r, "snapshotting") /\ left' = [left EXCEPT ![r] = Targets(prog[r])]
     ELSE Goto(r, "step") /\ UNCHANGED left
  /\ UNCHANGED <<wsVars, prog, before, at, snap, draft, outcome, rollback, stopped>>

Snapshot(r) ==
  /\ pc[r] = "snapshotting"
  /\ IF left[r] = {}
     THEN Goto(r, "step") /\ UNCHANGED <<snap, left>>
     ELSE LET f == NextTarget(r) IN
          /\ snap' = [snap EXCEPT ![r] =
                        [g \in DOMAIN @ \cup {f} |-> IF g = f THEN text[f] ELSE @[g]]]
          /\ left' = [left EXCEPT ![r] = @ \ {f}]
          /\ UNCHANGED pc
  /\ UNCHANGED <<wsVars, prog, before, at, draft, outcome, rollback, stopped>>

(* A snapshot that fails is no snapshot: the list is never assigned. *)
SnapshotFails(r, how) ==
  /\ pc[r] = "snapshotting"
  /\ outcome' = [outcome EXCEPT ![r] = how]
  /\ stopped' = [stopped EXCEPT ![r] = pc[r]]
  /\ rollback' = [rollback EXCEPT ![r] = "completed"]
  /\ snap' = [snap EXCEPT ![r] = <<>>]
  /\ left' = [left EXCEPT ![r] = {}]
  /\ Goto(r, "rollingBack")
  /\ UNCHANGED <<wsVars, prog, before, at, draft>>
------------------------------------------------------------------------------
(* Steps *)

(* The step's own precondition on the file it names. *)
Doable(s) ==
  CASE s.kind = "write_file" -> text[s.file] = Missing
    [] s.kind \in {"replace_text", "apply_patch"} -> Has(text[s.file], OrigMark)
    [] OTHER -> TRUE

(* The text a step writes; replace_text computes it from what it read first. *)
Draft(r, s) == CASE s.kind = "replace_text" -> Replaced(text[s.file], Mark(r))
                 [] OTHER -> <<Mark(r)>>

CheckStep(r) ==
  /\ pc[r] = "step"
  /\ at[r] <= Len(prog[r])
  /\ Step(r).kind # "command"
  /\ Doable(Step(r))
  /\ draft' = [draft EXCEPT ![r] = Draft(r, Step(r))]
  /\ Goto(r, "backup")
  /\ UNCHANGED <<wsVars, prog, before, at, snap, left, outcome, rollback, stopped>>

StepRefused(r) ==
  /\ pc[r] = "step"
  /\ at[r] <= Len(prog[r])
  /\ ~Doable(Step(r))
  /\ StopsAs(r, "failed")
  /\ UNCHANGED wsVars

(* MUTANT: the file is written before it is backed up. *)
BackupLate(r) ==
  /\ pc[r] = "backup"
  /\ Goto(r, "truncating")
  /\ text' = [text EXCEPT ![Step(r).file] = <<>>]
  /\ backups' = backups \cup {<<Step(r).file, <<>>>>}
  /\ folders' = folders \cup ({Folder[Step(r).file]} \ {"."})
  /\ UNCHANGED <<taken, prog, before, at, snap, draft, left, outcome, rollback, stopped>>

(* The parent directory is made and an existing file is copied. *)
Backup(r) ==
  LET f == Step(r).file IN
  /\ pc[r] = "backup"
  /\ folders' = IF Step(r).kind \in {"write_file", "overwrite", "append_file"}
                THEN folders \cup ({Folder[f]} \ {"."}) ELSE folders
  /\ backups' = IF text[f] = Missing THEN backups ELSE backups \cup {<<f, text[f]>>}
  /\ Goto(r, IF Step(r).kind \in {"append_file", "apply_patch"} THEN "filling" ELSE "truncating")
  /\ UNCHANGED <<taken, text, prog, before, at, snap, draft, left, outcome, rollback, stopped>>

(* write_text opens the file for writing, which empties or creates it. *)
Truncate(r) ==
  /\ pc[r] = "truncating"
  /\ HasFolder(Step(r).file)
  /\ text' = [text EXCEPT ![Step(r).file] = <<>>]
  /\ Goto(r, "filling")
  /\ UNCHANGED <<taken, folders, backups, prog, before, at, snap, draft, left, outcome, rollback, stopped>>

Filled(r) == LET s == Step(r)  t == text[s.file] IN
  CASE s.kind = "append_file" -> Append(IF t = Missing THEN <<>> ELSE t, Mark(r))
    [] s.kind = "apply_patch" -> Replaced(t, Mark(r))
    [] OTHER -> draft[r]

Fillable(r) == /\ HasFolder(Step(r).file)
               /\ Step(r).kind = "apply_patch" => Has(text[Step(r).file], OrigMark)

Fill(r) ==
  /\ pc[r] = "filling"
  /\ Fillable(r)
  /\ text' = [text EXCEPT ![Step(r).file] = Filled(r)]
  /\ at' = [at EXCEPT ![r] = @ + 1]
  /\ Goto(r, "step")
  /\ UNCHANGED <<taken, folders, backups, prog, before, snap, draft, left, outcome, rollback, stopped>>

(* The operation raises: the directory went away, the patch no longer      *)
(* applies, or the file system fails.                                      *)
StepFails(r) ==
  /\ pc[r] \in {"backup", "truncating", "filling"}
  /\ \/ r \in MayFail
     \/ pc[r] = "truncating" /\ ~HasFolder(Step(r).file)
     \/ pc[r] = "filling" /\ ~Fillable(r)
  /\ StopsAs(r, "failed")
  /\ UNCHANGED wsVars

(* A command may leave its file alone, add to it, rewrite it, empty it or  *)
(* delete it: no backup is made for it.                                    *)
Makes(r, t) ==
  {t, Append(IF t = Missing THEN <<>> ELSE t, Mark(r)), <<Mark(r)>>, <<>>, Missing}

(* It exits with zero or not, or times out.  What it changed is nobody's   *)
(* to restore, unless the bundle also has a file action on that file.      *)
RunCommand(r) ==
  LET f == Step(r).file IN
  /\ pc[r] = "step"
  /\ at[r] <= Len(prog[r])
  /\ Step(r).kind = "command"
  /\ \E t \in Makes(r, text[f]) :
       /\ t # Missing => HasFolder(f)
       /\ text' = [text EXCEPT ![f] = t]
       /\ taken' = IF Has(text[f], OrigMark) /\ ~Has(t, OrigMark) THEN taken \cup {f} ELSE taken
  /\ \/ /\ at' = [at EXCEPT ![r] = @ + 1]
        /\ UNCHANGED <<prog, before, pc, snap, draft, left, outcome, rollback, stopped>>
     \/ StopsAs(r, "failed")
  /\ UNCHANGED <<folders, backups>>

(* MUTANT: the step that fails counts as done. *)
AppliedEarly(r) ==
  /\ pc[r] = "step"
  /\ at[r] >= Len(prog[r])
  /\ outcome' = [outcome EXCEPT ![r] = "applied"]
  /\ Goto(r, "ended")
  /\ UNCHANGED <<wsVars, prog, before, at, snap, draft, left, rollback, stopped>>

AllApplied(r) ==
  /\ pc[r] = "step"
  /\ at[r] > Len(prog[r])
  /\ outcome' = [outcome EXCEPT ![r] = "applied"]
  /\ Goto(r, "ended")
  /\ UNCHANGED <<wsVars, prog, before, at, snap, draft, left, rollback, stopped>>
------------------------------------------------------------------------------
(* rollback_action_changes *)

(* remove_empty_parent_dirs: an empty directory goes, whoever made it. *)
WithoutEmpty(f, t) ==
  IF \E g \in Files : Folder[g] = Folder[f] /\ t[g] # Missing
  THEN folders ELSE folders \ {Folder[f]}

(* MUTANT: a file that did not exist is removed, its directory is not. *)
RemoveFileOnly(r) ==
  LET f == NextTarget(r) IN
  /\ pc[r] = "rollingBack"
  /\ left[r] # {}
  /\ snap[r][f] = Missing
  /\ text' = [text EXCEPT ![f] = Missing]
  /\ left' = [left EXCEPT ![r] = @ \ {f}]
  /\ UNCHANGED <<taken, folders, backups, prog, before, pc, at, snap, draft, outcome, rollback, stopped>>

RemoveNew(r) ==
  LET f == NextTarget(r) IN
  /\ pc[r] = "rollingBack"
  /\ left[r] # {}
  /\ snap[r][f] = Missing
  /\ text' = [text EXCEPT ![f] = Missing]
  /\ folders' = IF text[f] = Missing THEN folders ELSE WithoutEmpty(f, text')
  /\ left' = [left EXCEPT ![r] = @ \ {f}]
  /\ UNCHANGED <<taken, backups, prog, before, pc, at, snap, draft, outcome, rollback, stopped>>

(* write_bytes opens the file and so empties it, whether or not a step had *)
(* changed it.                                                             *)
RestoreOpen(r) ==
  LET f == NextTarget(r) IN
  /\ pc[r] = "rollingBack"
  /\ left[r] # {}
  /\ snap[r][f] # Missing
  /\ text' = [text EXCEPT ![f] = <<>>]
  /\ folders' = folders \cup ({Folder[f]} \ {"."})
  /\ Goto(r, "restoring")
  /\ UNCHANGED <<taken, backups, prog, before, at, snap, draft, left, outcome, rollback, stopped>>

RestoreFill(r) ==
  LET f == NextTarget(r) IN
  /\ pc[r] = "restoring"
  /\ text' = [text EXCEPT ![f] = snap[r][f]]
  /\ left' = [left EXCEPT ![r] = @ \ {f}]
  /\ Goto(r, "rollingBack")
  /\ UNCHANGED <<taken, folders, backups, prog, before, at, snap, draft, outcome, rollback, stopped>>

(* One file cannot be restored; the others still are. *)
RestoreFails(r) ==
  /\ r \in MayFail
  /\ pc[r] \in {"rollingBack", "restoring"}
  /\ left[r] # {}
  /\ left' = [left EXCEPT ![r] = @ \ {NextTarget(r)}]
  /\ rollback' = [rollback EXCEPT ![r] = "failed"]
  /\ Goto(r, "rollingBack")
  /\ UNCHANGED <<wsVars, prog, before, at, snap, draft, outcome, stopped>>

RolledBack(r) ==
  /\ pc[r] = "rollingBack"
  /\ left[r] = {}
  /\ Goto(r, "ended")
  /\ UNCHANGED <<wsVars, prog, before, at, snap, draft, left, outcome, rollback, stopped>>
------------------------------------------------------------------------------
(* Faults *)

(* KeyboardInterrupt or SystemExit while the steps run. *)
Interrupt(r) ==
  /\ r \in MayInterrupt
  /\ pc[r] \in {"step", "backup", "truncating", "filling"}
  /\ StopsAs(r, "interrupted")
  /\ UNCHANGED wsVars

(* SIGKILL at any time, or an interrupt during the rollback: no verdict. *)
Kill(r) ==
  /\ \/ r \in MayKill /\ pc[r] \notin {"ended", "killed"}
     \/ r \in MayInterrupt /\ pc[r] \in {"rollingBack", "restoring"}
  /\ Goto(r, "killed")
  /\ UNCHANGED <<wsVars, prog, before, at, snap, draft, left, outcome, rollback, stopped>>
------------------------------------------------------------------------------
Advance(r) ==
  \/ Begin(r) \/ Snapshot(r) \/ CheckStep(r) \/ StepRefused(r) \/ Backup(r)
  \/ Truncate(r) \/ Fill(r) \/ StepFails(r) \/ RunCommand(r) \/ AllApplied(r)
  \/ RemoveNew(r) \/ RestoreOpen(r) \/ RestoreFill(r) \/ RestoreFails(r) \/ RolledBack(r)

Next == \E r \in Runners :
  \/ Advance(r) \/ Interrupt(r) \/ Kill(r)
  \/ r \in MayFail /\ SnapshotFails(r, "failed")
  \/ r \in MayInterrupt /\ SnapshotFails(r, "interrupted")

Spec == Init /\ [][Next]_vars
------------------------------------------------------------------------------
Texts == Seq((Runners \cup {"orig", "missing"}) \X Nat)

TypeOK ==
  /\ text \in [Files -> Texts]
  /\ folders \subseteq Folders
  /\ backups \subseteq Files \X Texts
  /\ \A r \in Runners : prog[r] \in Programs[r]
  /\ pc \in [Runners -> Labels]
  /\ \A r \in Runners : at[r] \in 1..(Len(prog[r]) + 1)
  /\ \A r \in Runners : DOMAIN snap[r] \subseteq Targets(prog[r])
  /\ \A r \in Runners : left[r] \subseteq Targets(prog[r])
  /\ outcome \in [Runners -> {"none", "applied", "failed", "interrupted"}]
  /\ rollback \in [Runners -> {"none", "completed", "failed"}]
  /\ stopped \in [Runners -> Labels \cup {"none"}]
  /\ taken \subseteq Files

(* A bundle that reports a completed rollback left its files as it found   *)
(* them, at whatever step and half-written file it stopped                 *)
(* (development-workflow.md:301 "roll back action changes on failure").    *)
RollbackRestores ==
  \A r \in Runners :
    pc[r] = "ended" /\ rollback[r] = "completed" =>
      \A f \in Targets(prog[r]) : text[f] = before.text[f]

(* ... and the directories as well, once everyone has rolled back, unless  *)
(* a run failed between making a directory and the first file in it.       *)
MadeOnlyFolder(r) == /\ r \in MayFail \cup MayInterrupt
                     /\ stopped[r] \in {"truncating", "filling"}
FoldersRestored ==
  (\A r \in Runners : /\ pc[r] = "ended" /\ rollback[r] = "completed"
                       /\ ~MadeOnlyFolder(r))
    => folders = before.folders

(* What step i of a program makes of a text t of file f. *)
Effect(r, p, f, i, t) ==
  IF p[i].file # f \/ p[i].kind = "command" THEN t
  ELSE CASE p[i].kind \in {"write_file", "overwrite"} -> <<<<r, i>>>>
         [] p[i].kind = "append_file" -> Append(IF t = Missing THEN <<>> ELSE t, <<r, i>>)
         [] OTHER -> Replaced(t, <<r, i>>)

(* What the first i steps of a program make of file f, one after the other. *)
TextsAfter(r, p, f, first) ==
  LET After[i \in 0..Len(p)] == IF i = 0 THEN first ELSE Effect(r, p, f, i, After[i - 1])
  IN After
Meaning(r, p, f) == TextsAfter(r, p, f, before.text[f])[Len(p)]

CommandFiles(p) == {p[i].file : i \in {j \in DOMAIN p : p[j].kind = "command"}}
Settled(p) == Targets(p) \ CommandFiles(p)

(* A bundle reported as applied has had the effect of all its steps, on    *)
(* every file that no command of it may have changed.                      *)
AppliedMeansAll ==
  \A r \in Runners : outcome[r] = "applied" =>
    \A f \in Settled(prog[r]) : text[f] = Meaning(r, prog[r], f)

Recoverable(f) == \/ Has(text[f], OrigMark)
                  \/ \E c \in backups : c[1] = f /\ Has(c[2], OrigMark)

(* Nothing but a command loses a text that was there before, until a       *)
(* rollback: it is still in its file or in a persistent backup, also when  *)
(* a SIGKILL or an error comes between the truncation of a file and its    *)
(* new text, and however commands change the file between two steps        *)
(* (development-workflow.md:303 "backups are created for file-changing     *)
(* operations").                                                           *)
StepsLoseNothing ==
  (\A r \in Runners : rollback[r] = "none") =>
    \A f \in Files : before.text[f] # Missing => Recoverable(f) \/ f \in taken

(* ... and neither does the rollback. *)
NothingLost == \A f \in Files : before.text[f] # Missing => Recoverable(f) \/ f \in taken

(* A rollback takes back its own bundle's changes: what another bundle     *)
(* wrote, reported as applied and still has in the file stays there        *)
(* (development-workflow.md:301 "roll back action changes").               *)
RollbackOnlyOwn ==
  [][\A r, s \in Runners : \A f \in Files : \A i \in 1..Len(prog[s]) :
       /\ pc[r] = "rollingBack" /\ pc'[r] \in {"rollingBack", "restoring"}
       /\ s # r /\ outcome[s] = "applied" /\ Has(text[f], <<s, i>>)
       => Has(text'[f], <<s, i>>)]_vars
==============================================================================
