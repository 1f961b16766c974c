-------------------------- MODULE DirectToolsProofs --------------------------
(***************************************************************************)
(* What DirectTools guarantees for every set of paths and operations, every *)
(* number of calls, and every choice of kills and failures.                *)
(***************************************************************************)
EXTENDS DirectTools, TLAPS

(* What the server has in memory at its label. *)
LabelInv ==
  /\ pc \in {"backup", "truncating", "filling", "appending", "applying", "unlinking", "movingBack"}
       => draft \in Texts
  /\ pc \in {"backup", "patching"} => \A p \in todo : IsFile(p)
  /\ pc = "moving" => Exists(Target(op))

TypeInv == TypeOK /\ LabelInv

(* Every request names a path. *)
LEMMA TargetType ==
  ASSUME TypeOK
  PROVE  Target(op) \in Req.paths /\ Target(op) \in Paths /\ Req \in Requests
<1>1. Req \in Requests
  BY DEF TypeOK, Req
<1>2. Req.paths # {} /\ Req.paths \subseteq Paths
  BY <1>1 DEF Requests
<1> QED BY <1>1, <1>2 DEF Target, Req

(* The marks a tool puts into a text. *)
LEMMA MarkTexts ==
  ASSUME NEW o \in Ops
  PROVE  <<o>> \in Texts /\ Torn \in Texts /\ Edited \in Texts /\ <<Old>> \in Texts
BY DEF Texts, Marks, Torn, Edited, Old

(* Replacing marks in a text gives a text. *)
LEMMA ReplacedText ==
  ASSUME NEW t \in Texts, NEW o \in Ops
  PROVE  Replaced(t, o) \in Texts
<1>1. \A i \in DOMAIN t : t[i] \in Marks
  BY DEF Texts
<1>2. PICK n \in Nat : DOMAIN t = 1..n
  BY DEF Texts
<1>3. Replaced(t, o) \in [1..n -> Marks]
  BY <1>1, <1>2 DEF Replaced, Marks
<1> QED BY <1>3 DEF Texts

LEMMA ConcatText ==
  ASSUME NEW t \in Texts, NEW u \in Texts
  PROVE  t \o u \in Texts /\ <<>> \o u \in Texts
BY DEF Texts

(* What replaces a text without a copy is a text, or nothing. *)
LEMMA ReplacedTypes ==
  ASSUME TypeOK, NEW p \in Paths, NEW t \in Texts \cup {Absent}, Replaces(p, t)
  PROVE  content' \in [Paths -> Texts \cup {Absent}] /\ known' \subseteq Paths \X Texts
<1>1. /\ content' = [content EXCEPT ![p] = t]
      /\ known' = (known \ {<<p, content[p]>>}) \cup ({<<p, t>>} \ {<<p, Absent>>})
  BY DEF Replaces
<1>2. content' \in [Paths -> Texts \cup {Absent}]
  BY <1>1 DEF TypeOK
<1>3. t # Absent => <<p, t>> \in Paths \X Texts
  OBVIOUS
<1>4. known' \subseteq Paths \X Texts
  <2>1. CASE t = Absent
    BY <1>1, <2>1 DEF TypeOK
  <2>2. CASE t # Absent
    BY <1>1, <1>3, <2>2 DEF TypeOK
  <2> QED BY <2>1, <2>2
<1> QED BY <1>2, <1>4

LEMMA InitTypeInv == Init => TypeInv
<1> SUFFICES ASSUME Init PROVE TypeInv
  OBVIOUS
<1>1. <<Old>> \in Texts
  BY DEF Texts, Marks
<1>2. content \in [Paths -> Texts \cup {Absent}]
  BY <1>1 DEF Init
<1>3. asked \in [Ops -> Requests]
  BY AsksAssumption DEF Init
<1>4. known \subseteq Paths \X Texts
  BY <1>2 DEF Init
<1> QED
  BY <1>2, <1>3, <1>4 DEF Init, TypeInv, TypeOK, LabelInv, Labels, LedgerStates

(* Each step keeps the types and what its label promises. *)
LEMMA NextTypeInv == TypeInv /\ [Next]_vars => TypeInv'
<1> SUFFICES ASSUME TypeInv, [Next]_vars PROVE TypeInv'
  OBVIOUS
<1> USE DEF TypeInv
<1>a. Target(op) \in Req.paths /\ Target(op) \in Paths /\ Req \in Requests
  BY TargetType
<1>c. ASSUME UNCHANGED vars PROVE TypeInv'
  BY <1>c DEF vars, TypeOK, LabelInv, Exists, IsFile, Target
<1>1. ASSUME NEW o \in Ops, BeginFresh(o) \/ BeginReuse(o) \/ BeginRefuse(o) \/ BeginPlain(o)
      PROVE  TypeInv'
  BY <1>1 DEF BeginFresh, BeginReuse, BeginRefuse, BeginPlain, CallsNow, Answers, store,
              TypeOK, LabelInv, Labels, LedgerStates
<1>2. ASSUME FillStarted \/ Refuse PROVE TypeInv'
  BY <1>2 DEF FillStarted, Refuse, store, client, TypeOK, LabelInv, Labels, LedgerStates
<1>3. ASSUME Check PROVE TypeInv'
  <2>1. <<op>> \in Texts
    BY MarkTexts DEF TypeOK
  <2>2. IsFile(Target(op)) => Replaced(content[Target(op)], op) \in Texts
    BY <1>a, ReplacedText DEF TypeOK, IsFile, Exists
  <2>3. ASSUME NEW t \in Texts, BacksUp(t), UNCHANGED <<store, ledger, client, op, effects, reply, faults, known>>
        PROVE  TypeInv'
    <3>1. todo' \subseteq Paths /\ \A p \in todo' : IsFile(p)
      BY <2>3, <1>a DEF BacksUp, Requests
    <3> QED
      BY <2>3, <3>1 DEF BacksUp, store, client, TypeOK, LabelInv, Labels, LedgerStates, IsFile, Exists
  <2>5. CASE CheckWrite \/ CheckAppend \/ CheckPatch
    BY <2>5, <2>1, <2>3 DEF CheckWrite, CheckAppend, CheckPatch, Passes
  <2>6. CASE CheckReplace
    BY <2>6, <2>2, <2>3 DEF CheckReplace, Passes, Accepts, ReplaceAllowed
  <2>7. CASE CheckRestoreDeleted
    BY <2>7, <2>3 DEF CheckRestoreDeleted, Passes, Restorable, TypeOK
  <2>8. CASE CheckRestoreBackup
    BY <2>8, <2>3 DEF CheckRestoreBackup, Passes, BackupsOf, TypeOK
  <2>9. ASSUME NEW tool, Passes(tool), NEW label \in Labels, Goes(label),
               label \in {"creating", "running", "completing"}
        PROVE  TypeInv'
    BY <2>9 DEF Passes, Goes, store, client, TypeOK, LabelInv, Labels, LedgerStates,
                Exists, IsFile, Target, Req
  <2>11. CASE CheckCreateDirectory
    <3>1. Passes("mkdir") /\ Goes("creating")
      BY <2>11 DEF CheckCreateDirectory
    <3>2. "creating" \in Labels
      BY DEF Labels
    <3> QED BY <2>9, <3>1, <3>2
  <2>12. CASE CheckExec
    <3>1. PICK label \in {"running", "completing"} : Passes("exec") /\ Goes(label)
      BY <2>12 DEF CheckExec
    <3>2. label \in Labels
      BY DEF Labels
    <3> QED BY <2>9, <3>1, <3>2
  <2>13. CASE CheckGitAdd \/ CheckGitCommit \/ CheckRunProfile
    <3>1. PICK tool : Passes(tool) /\ Goes("running")
      BY <2>13 DEF CheckGitAdd, CheckGitCommit, CheckRunProfile
    <3>2. "running" \in Labels
      BY DEF Labels
    <3> QED BY <2>9, <3>1, <3>2
  <2>10. CASE CheckDelete
    <3>1. Exists(Target(op))
      BY <2>10 DEF CheckDelete, Passes, Accepts, DeleteAllowed
    <3> QED BY <2>10, <3>1 DEF CheckDelete, Passes, Goes, store, client, TypeOK, LabelInv,
                Labels, LedgerStates, Exists, IsFile, Target, Req
  <2> QED BY <1>3, <2>5, <2>6, <2>7, <2>8, <2>10, <2>11, <2>12, <2>13 DEF Check
<1>4. ASSUME Backup PROVE TypeInv'
  BY <1>4 DEF Backup, store, client, TypeOK, LabelInv, Labels, LedgerStates, IsFile, Exists
<1>5. ASSUME BackupsDone PROVE TypeInv'
  <2>1. pc' \in {"appending", "applying", "unlinking", "movingBack", "truncating"}
    BY <1>5 DEF BackupsDone
  <2> QED BY <1>5, <2>1 DEF BackupsDone, store, client, TypeOK, LabelInv, Labels
<1>6. ASSUME Truncate PROVE TypeInv'
  <2>1. Torn \in Texts
    BY MarkTexts DEF TypeOK
  <2> QED BY <1>6, <1>a, <2>1 DEF Truncate, Acts, store, client, TypeOK, LabelInv, Labels
<1>7. ASSUME Fill PROVE TypeInv'
  BY <1>7, <1>a DEF Fill, Writes, store, client, TypeOK, LabelInv, Labels
<1>8. ASSUME AppendText PROVE TypeInv'
  <2> DEFINE p == Target(op)
             t == (IF Exists(p) THEN content[p] ELSE <<>>) \o draft
  <2>1. t \in Texts
    BY <1>8, <1>a, ConcatText DEF AppendText, TypeOK, LabelInv, Exists
  <2>2. content' = [content EXCEPT ![p] = t] /\ known' = known \cup {<<p, t>>}
    BY <1>8 DEF AppendText, Writes
  <2> HIDE DEF t
  <2> QED BY <1>8, <1>a, <2>1, <2>2 DEF AppendText, Acts, store, client, TypeOK, LabelInv, Labels
<1>9. ASSUME CreateDirectory PROVE TypeInv'
  <2>1. <<op>> \in Texts
    BY MarkTexts DEF TypeOK
  <2>2. /\ content' \in [Paths -> Texts \cup {Absent}]
        /\ known' \subseteq Paths \X Texts
    BY <1>9, <1>a, <2>1 DEF CreateDirectory, Writes, TypeOK
  <2> QED BY <1>9, <2>2 DEF CreateDirectory, Acts, store, client, TypeOK, LabelInv, Labels
<1>10. ASSUME MoveToTrash PROVE TypeInv'
  <2>1. content[Target(op)] \in Texts
    BY <1>10, <1>a DEF MoveToTrash, TypeOK, LabelInv, Exists
  <2> DEFINE e == [path |-> Target(op), text |-> content[Target(op)], listed |-> FALSE,
                   held |-> TRUE, by |-> op]
  <2>2. e \in [path : Paths, text : Texts, listed : BOOLEAN, held : BOOLEAN, by : Ops]
    BY <1>a, <2>1 DEF TypeOK
  <2>3. trash' = trash \cup {e}
    BY <1>10 DEF MoveToTrash
  <2> HIDE DEF e
  <2> QED BY <1>10, <1>a, <2>2, <2>3 DEF MoveToTrash, Acts, store, client, TypeOK, LabelInv, Labels
<1>11. ASSUME ListTrash PROVE TypeInv'
  <2> DEFINE E == [path : Paths, text : Texts, listed : BOOLEAN, held : BOOLEAN, by : Ops]
  <2>1. \A e \in E : [e EXCEPT !.listed = TRUE] \in E
    OBVIOUS
  <2>2. trash' \subseteq E
    BY <1>11, <2>1 DEF ListTrash, TypeOK
  <2> QED BY <1>11, <2>2 DEF ListTrash, store, client, TypeOK, LabelInv, Labels
<1>12. ASSUME Unlink PROVE TypeInv'
  BY <1>12, <1>a DEF Unlink, Acts, store, client, TypeOK, LabelInv, Labels
<1>13. ASSUME MoveBack PROVE TypeInv'
  <2> DEFINE E == [path : Paths, text : Texts, listed : BOOLEAN, held : BOOLEAN, by : Ops]
  <2>1. \A e \in E : [e EXCEPT !.held = FALSE] \in E
    OBVIOUS
  <2>2. trash' \subseteq E
    BY <1>13, <2>1 DEF MoveBack, TypeOK
  <2> QED BY <1>13, <1>a, <2>2 DEF MoveBack, Writes, Acts, store, client, TypeOK, LabelInv, Labels
<1>14. ASSUME StartApply PROVE TypeInv'
  <2>1. CASE \A p \in Req.paths : IsFile(p) /\ HasOld(content[p])
    <3>1. todo' \subseteq Paths /\ pc' = "patching" /\ todo' = Req.paths /\ content' = content
      BY <1>14, <1>a, <2>1 DEF StartApply, Requests, store
    <3>2. \A p \in todo' : IsFile(p)'
      BY <2>1, <3>1 DEF IsFile, Exists
    <3> QED BY <1>14, <2>1, <3>1, <3>2 DEF StartApply, Acts, store, client, TypeOK, LabelInv, Labels
  <2>2. CASE ~\A p \in Req.paths : IsFile(p) /\ HasOld(content[p])
    BY <1>14, <2>2 DEF StartApply, store, client, TypeOK, LabelInv, Labels
  <2> QED BY <2>1, <2>2
<1>15. ASSUME PatchFile PROVE TypeInv'
  <2>1. PICK p \in todo : Writes(p, Replaced(content[p], op)) /\ todo' = todo \ {p}
    BY <1>15 DEF PatchFile
  <2>2. p \in Paths /\ Replaced(content[p], op) \in Texts
    BY <1>15, ReplacedText DEF PatchFile, TypeOK, LabelInv, IsFile, Exists
  <2>3. \A q \in todo' : IsFile(q)'
    BY <1>15, <2>1, <2>2 DEF PatchFile, Writes, TypeOK, LabelInv, IsFile, Exists
  <2>4. content' \in [Paths -> Texts \cup {Absent}] /\ known' \subseteq Paths \X Texts
    BY <2>1, <2>2 DEF Writes, TypeOK
  <2> QED BY <1>15, <2>1, <2>3, <2>4 DEF PatchFile, store, client, TypeOK, LabelInv, Labels
<1>16. ASSUME PatchDone \/ Report PROVE TypeInv'
  BY <1>16 DEF PatchDone, Report, store, client, TypeOK, LabelInv, Labels
<1>20. ASSUME Run PROVE TypeInv'
  <2>0. PICK p \in Paths : \E t \in {content[p], <<op>>, Absent} : Replaces(p, t)
    BY <1>20 DEF Run
  <2>1. PICK t \in {content[p], <<op>>, Absent} : Replaces(p, t)
    BY <2>0
  <2>2. t \in Texts \cup {Absent}
    BY <2>1, MarkTexts DEF TypeOK
  <2>3. content' \in [Paths -> Texts \cup {Absent}] /\ known' \subseteq Paths \X Texts
    BY <2>1, <2>2, ReplacedTypes
  <2> QED BY <1>20, <2>3 DEF Run, Acts, store, client, TypeOK, LabelInv, Labels
<1>17. ASSUME Complete \/ FillCompleted \/ Fail \/ FillFailed PROVE TypeInv'
  BY <1>17 DEF Complete, FillCompleted, Fail, FillFailed, Returns, Answers, store, client,
               TypeOK, LabelInv, Labels, LedgerStates
<1>18. ASSUME Raise \/ Kill PROVE TypeInv'
  BY <1>18 DEF Raise, Kill, Returns, Answers, Faulted, store, client,
               TypeOK, LabelInv, Labels
<1>21. ASSUME Unaudited PROVE TypeInv'
  <2>1. CASE StartUnaudited \/ CompleteUnaudited \/ FailUnaudited
    BY <2>1 DEF StartUnaudited, CompleteUnaudited, FailUnaudited, Returns, Answers, Faulted,
                store, client, TypeOK, LabelInv, Labels, LedgerStates
  <2>2. CASE \E o \in Ops : ReuseUnaudited(o)
    BY <2>2 DEF ReuseUnaudited, CallsNow, Answers, store, TypeOK, LabelInv
  <2> QED BY <1>21, <2>1, <2>2 DEF Unaudited
<1>19. ASSUME NEW p \in Paths, Edit(p) PROVE TypeInv'
  <2>1. Edited \in Texts /\ Edited # Absent
    BY AbsentAssumption, MarkTexts DEF TypeOK
  <2>2. \A q \in Paths : Exists(q) => Exists(q)'
    BY <1>19, <2>1 DEF Edit, Replaces, TypeOK, Exists
  <2>3. content' \in [Paths -> Texts \cup {Absent}] /\ known' \subseteq Paths \X Texts
    BY <1>19, <2>1, ReplacedTypes DEF Edit
  <2>4. LabelInv'
    BY <1>19, <1>a, <2>2 DEF Edit, TypeOK, LabelInv, IsFile, Target
  <2> QED BY <1>19, <2>3, <2>4 DEF Edit, TypeOK, Labels
<1> QED
  BY <1>c, <1>1, <1>2, <1>3, <1>4, <1>5, <1>6, <1>7, <1>8, <1>9, <1>10, <1>11, <1>12, <1>13,
     <1>14, <1>15, <1>16, <1>17, <1>18, <1>19, <1>20, <1>21 DEF Next, Begin, Serve, Fault

(* TypeOK with what each label promises, in every reachable state. *)
THEOREM TypeCorrect == Spec => []TypeInv
<1> QED BY InitTypeInv, NextTypeInv, PTL DEF Spec

(* The type invariant TLC checks. *)
THEOREM TypesCorrect == Spec => []TypeOK
<1>1. TypeInv => TypeOK
  BY DEF TypeInv
<1> QED BY TypeCorrect, <1>1, PTL

------------------------------------------------------------------------------
(* The ledger and the effects *)

(* Labels of tools with a ledger before the effect, and of tools without. *)
Untouched == {"opened", "check", "backup", "truncating", "moving", "applying", "running"}
PlainLabels == {"appending", "creating", "unlinking", "movingBack"}

(* An effect is preceded by a record, and a record by no effect. *)
OnceInv ==
  /\ pc \in PlainLabels => ~IsLedgered(op)
  /\ pc # "idle" /\ IsLedgered(op) => ledger[op] # "none"
  /\ \A o \in Ops : IsLedgered(o) =>
       /\ effects[o] <= 1
       /\ ledger[o] = "none" => effects[o] = 0
       /\ op = o /\ pc \in Untouched => effects[o] = 0

LEMMA InitOnceInv == Init => OnceInv
BY DEF Init, OnceInv, PlainLabels, Untouched

(* A step from a label before the effect to a label after it acts once;    *)
(* no step goes from a label after the effect back to one before it.       *)
LEMMA NextOnceInv == TypeOK /\ OnceInv /\ [Next]_vars => OnceInv'
<1> SUFFICES ASSUME TypeOK, OnceInv, [Next]_vars PROVE OnceInv'
  OBVIOUS
<1> USE DEF OnceInv, PlainLabels, Untouched, IsLedgered
<1>c. ASSUME UNCHANGED vars PROVE OnceInv'
  BY <1>c DEF vars
<1>1. ASSUME NEW o \in Ops, BeginFresh(o) \/ BeginReuse(o) \/ BeginRefuse(o) \/ BeginPlain(o)
      PROVE  OnceInv'
  BY <1>1 DEF BeginFresh, BeginReuse, BeginRefuse, BeginPlain, CallsNow, Answers, store, TypeOK
<1>2. ASSUME FillStarted \/ Refuse PROVE OnceInv'
  BY <1>2 DEF FillStarted, Refuse, store, client, TypeOK
<1>3. ASSUME Check PROVE OnceInv'
  <2>1. PICK tool : Passes(tool) /\ (pc' = "creating" => tool = "mkdir")
                    /\ pc' \in {"backup", "creating", "moving", "running", "completing"}
    BY <1>3 DEF Check, CheckWrite, CheckReplace, CheckAppend, CheckPatch, CheckRestoreDeleted,
                CheckRestoreBackup, CheckCreateDirectory, CheckDelete, CheckExec, CheckGitAdd,
                CheckGitCommit, CheckRunProfile, BacksUp, Goes
  <2> QED BY <2>1 DEF Passes, store, client, TypeOK, Ledgered, Req
<1>4. ASSUME Backup PROVE OnceInv'
  BY <1>4 DEF Backup, store, client, TypeOK
<1>5. ASSUME BackupsDone PROVE OnceInv'
  <2>1. \/ pc' \in {"applying", "truncating"}
        \/ pc' \in {"appending", "unlinking", "movingBack"} /\ Req.tool \notin Ledgered
    BY <1>5 DEF BackupsDone, Ledgered
  <2> QED BY <1>5, <2>1 DEF BackupsDone, store, client, TypeOK, Req
<1>6. ASSUME Truncate \/ Run \/ MoveToTrash PROVE OnceInv'
  BY <1>6 DEF Truncate, Run, MoveToTrash, Acts, store, client, TypeOK
<1>7. ASSUME Fill \/ ListTrash \/ PatchFile \/ PatchDone \/ Report PROVE OnceInv'
  BY <1>7 DEF Fill, ListTrash, PatchFile, PatchDone, Report, store, client, TypeOK
<1>8. ASSUME AppendText \/ CreateDirectory \/ Unlink \/ MoveBack PROVE OnceInv'
  BY <1>8 DEF AppendText, CreateDirectory, Unlink, MoveBack, Acts, store, client, TypeOK
<1>9. ASSUME StartApply PROVE OnceInv'
  BY <1>9 DEF StartApply, Acts, store, client, TypeOK
<1>10. ASSUME Complete \/ FillCompleted \/ Fail \/ FillFailed PROVE OnceInv'
  BY <1>10 DEF Complete, FillCompleted, Fail, FillFailed, Returns, Answers, store, client, TypeOK
<1>11. ASSUME Raise \/ Kill PROVE OnceInv'
  BY <1>11 DEF Raise, Kill, Returns, Answers, Faulted, store, client, TypeOK
<1>13. ASSUME Unaudited PROVE OnceInv'
  <2>1. CASE StartUnaudited \/ CompleteUnaudited \/ FailUnaudited
    BY <2>1 DEF StartUnaudited, CompleteUnaudited, FailUnaudited, Returns, Answers, Faulted,
                store, client, TypeOK
  <2>2. CASE \E o \in Ops : ReuseUnaudited(o)
    BY <2>2 DEF ReuseUnaudited, CallsNow, Answers, store, TypeOK
  <2> QED BY <1>13, <2>1, <2>2 DEF Unaudited
<1>12. ASSUME NEW p \in Paths, Edit(p) PROVE OnceInv'
  BY <1>12 DEF Edit, TypeOK
<1> QED
  BY <1>c, <1>1, <1>2, <1>3, <1>4, <1>5, <1>6, <1>7, <1>8, <1>9, <1>10, <1>11, <1>12, <1>13
     DEF Next, Begin, Serve, Fault

(* However often the client calls, and wherever the server is killed or a  *)
(* file operation fails, an operation_id has its effect at most once.      *)
THEOREM OneEffect == Spec => []EffectAtMostOnce
<1>1. Init => TypeInv /\ OnceInv
  BY InitTypeInv, InitOnceInv
<1>2. TypeInv /\ OnceInv /\ [Next]_vars => (TypeInv /\ OnceInv)'
  BY NextTypeInv, NextOnceInv DEF TypeInv
<1>3. OnceInv => EffectAtMostOnce
  BY DEF OnceInv, EffectAtMostOnce
<1> QED BY <1>1, <1>2, <1>3, PTL DEF Spec

------------------------------------------------------------------------------
(* What is overwritten, removed or moved *)

(* Nobody restores a directory over another one: what is in the way is     *)
(* removed without a backup (trash.py:75).                                 *)
DirectoriesSpared ==
  \A o \in Ops : \A r \in Asks[o] : r.tool = "restore_deleted" /\ r.force => r.paths \cap Dirs = {}

Aside(p, t) ==
  \/ [path |-> p, text |-> t] \in backups
  \/ \E e \in trash : e.path = p /\ e.text = t /\ e.held

BackupTools == {"write", "replace", "append", "patch", "restore_deleted", "restore_backup"}

(* What a tool is about to overwrite has its backup, or is in the trash. *)
KeepInv ==
  /\ \A o \in Ops : asked[o] \in Asks[o]
  /\ \A k \in known : content[k[1]] = k[2] \/ Aside(k[1], k[2])
  /\ pc = "backup" =>
       /\ Req.tool \in BackupTools
       /\ Req.tool = "restore_deleted" /\ Exists(Target(op)) => Req.force
       /\ \A q \in Req.paths : IsFile(q) => q \in todo \/ Aside(q, content[q])
  /\ pc \in {"truncating", "appending", "applying", "unlinking"} =>
       \A q \in Req.paths : Exists(q) => Aside(q, content[q])
  /\ pc = "patching" => \A q \in todo : Aside(q, content[q])
  /\ pc = "filling" => \A k \in known : k[1] = Target(op) => Aside(k[1], k[2])
  /\ pc = "movingBack" => ~Exists(Target(op))

LEMMA InitKeepInv == Init => KeepInv
BY DEF Init, KeepInv

(* A directory that is in the way of a backup tool is refused or excluded. *)
LEMMA OverwritesFiles ==
  ASSUME TypeOK, KeepInv, DirectoriesSpared, Req.tool \in BackupTools,
         Req.tool = "restore_deleted" => Req.force
  PROVE  \A q \in Req.paths : Exists(q) => IsFile(q)
<1>1. op \in Ops /\ Req \in Asks[op]
  BY DEF TypeOK, KeepInv, Req
<1>2. CASE Req.tool = "restore_deleted"
  BY <1>1, <1>2 DEF DirectoriesSpared, IsFile
<1>3. CASE Req.tool # "restore_deleted"
  BY <1>1, <1>3, KindsAssumption DEF BackupTools, IsFile
<1> QED BY <1>2, <1>3

(* Each step keeps every text there has been where it is or aside. *)
LEMMA NextKeepInv ==
  ASSUME TypeInv, KeepInv, DirectoriesSpared, EditsDuring = FALSE, [Next]_vars
  PROVE  KeepInv'
<1> USE DEF TypeInv
<1>a. Target(op) \in Req.paths /\ Target(op) \in Paths /\ Req \in Requests
  BY TargetType
(* Most steps change neither a text nor what is aside of it. *)
<1>b. ASSUME backups \subseteq backups', UNCHANGED <<content, trash, known, asked>>,
             pc' \notin {"backup", "truncating", "appending", "applying", "unlinking",
                         "patching", "filling", "movingBack"}
      PROVE  KeepInv'
  BY <1>b DEF KeepInv, Aside
<1>c. ASSUME UNCHANGED vars PROVE KeepInv'
  BY <1>c DEF vars, KeepInv, Aside, Exists, IsFile, Target, Req
<1>1. ASSUME NEW o \in Ops, BeginFresh(o) \/ BeginReuse(o) \/ BeginRefuse(o) \/ BeginPlain(o)
      PROVE  KeepInv'
  <2>1. pc' \in {"opened", "idle", "check"}
    BY <1>1 DEF BeginFresh, BeginReuse, BeginRefuse, BeginPlain, CallsNow
  <2> QED BY <1>1, <1>b, <2>1 DEF BeginFresh, BeginReuse, BeginRefuse, BeginPlain, store, client
<1>2. ASSUME FillStarted \/ Refuse PROVE KeepInv'
  BY <1>2, <1>b DEF FillStarted, Refuse, store, client
<1>3. ASSUME Check PROVE KeepInv'
  <2>1. ASSUME NEW tool, Passes(tool), NEW label, Goes(label),
               label \in {"creating", "moving", "running", "completing"}
        PROVE  KeepInv'
    BY <1>b, <2>1 DEF Passes, Goes, store, client
  <2>2. ASSUME NEW tool \in BackupTools, Passes(tool), NEW t, BacksUp(t) PROVE KeepInv'
    <3>1. pc' = "backup" /\ todo' = {q \in Req.paths : IsFile(q)} /\ Req.tool \in BackupTools
      BY <2>2 DEF Passes, BacksUp
    <3>2. Req.tool = "restore_deleted" /\ Exists(Target(op)) => Req.force
      BY <2>2 DEF Passes, Accepts, RestoreAllowed
    <3>3. UNCHANGED <<store, asked, op, known>>
      BY <2>2 DEF Passes, client
    <3> QED
      BY <3>1, <3>2, <3>3 DEF KeepInv, Aside, store, Exists, IsFile, Target, Req
  <2>3. CASE CheckCreateDirectory \/ CheckDelete \/ CheckExec
    BY <2>1, <2>3 DEF CheckCreateDirectory, CheckDelete, CheckExec
  <2>6. CASE CheckGitAdd \/ CheckGitCommit \/ CheckRunProfile
    BY <2>1, <2>6 DEF CheckGitAdd, CheckGitCommit, CheckRunProfile
  <2>4. CASE CheckWrite \/ CheckReplace \/ CheckAppend \/ CheckPatch
    BY <2>2, <2>4 DEF CheckWrite, CheckReplace, CheckAppend, CheckPatch, BackupTools
  <2>5. CASE CheckRestoreDeleted \/ CheckRestoreBackup
    BY <2>2, <2>5 DEF CheckRestoreDeleted, CheckRestoreBackup, BackupTools
  <2> QED BY <1>3, <2>3, <2>4, <2>5, <2>6 DEF Check
<1>4. ASSUME Backup PROVE KeepInv'
  <2>1. PICK p \in todo : /\ backups' = backups \cup {[path |-> p, text |-> content[p]]}
                          /\ todo' = todo \ {p}
    BY <1>4 DEF Backup
  <2>2. UNCHANGED <<content, trash, asked, pc, op, known>> /\ pc = "backup"
    BY <1>4 DEF Backup, client
  <2> QED BY <2>1, <2>2 DEF KeepInv, Aside, Exists, IsFile, Target, Req
<1>5. ASSUME BackupsDone PROVE KeepInv'
  <2>1. /\ pc = "backup" /\ todo = {} /\ UNCHANGED <<store, asked, op, known>>
        /\ \/ pc' \in {"truncating", "appending", "applying"} /\ Req.tool # "restore_deleted"
           \/ pc' = "unlinking" /\ Req.tool = "restore_deleted" /\ Exists(Target(op))
           \/ pc' = "movingBack" /\ ~Exists(Target(op))
    BY <1>5 DEF BackupsDone, client
  <2>2. CASE pc' = "movingBack"
    BY <2>1, <2>2 DEF KeepInv, Aside, store, Exists, Target, Req
  <2>3. CASE pc' # "movingBack"
    <3>1. \A q \in Req.paths : Exists(q) => IsFile(q)
      BY <2>1, <2>3, OverwritesFiles DEF KeepInv
    <3>2. \A q \in Req.paths : Exists(q) => Aside(q, content[q])
      BY <2>1, <3>1 DEF KeepInv
    <3> QED BY <2>1, <2>3, <3>2 DEF KeepInv, Aside, store, Exists, Req
  <2> QED BY <2>2, <2>3
<1>6. ASSUME Truncate PROVE KeepInv'
  <2>1. \A k \in known : k[1] = Target(op) => Aside(k[1], k[2])
    <3> SUFFICES ASSUME NEW k \in known, k[1] = Target(op), content[k[1]] = k[2]
                 PROVE  Aside(k[1], k[2])
      BY DEF KeepInv
    <3>1. Exists(Target(op))
      BY AbsentAssumption DEF TypeOK, Exists
    <3> QED BY <1>6, <1>a, <3>1 DEF Truncate, KeepInv
  <2>2. /\ pc' = "filling" /\ UNCHANGED <<backups, trash, asked, op, known>>
        /\ \A q \in Paths : q # Target(op) => content'[q] = content[q]
    BY <1>6 DEF Truncate, client, TypeOK
  <2>3. \A k \in known : k[1] \in Paths
    BY DEF TypeOK
  <2> QED BY <2>1, <2>2, <2>3 DEF KeepInv, Aside, Target
<1>7. ASSUME Fill PROVE KeepInv'
  <2>1. /\ pc' = "completing" /\ UNCHANGED <<backups, trash, asked>>
        /\ content' = [content EXCEPT ![Target(op)] = draft]
        /\ known' = known \cup {<<Target(op), draft>>}
    BY <1>7 DEF Fill, Writes, client
  <2>2. \A k \in known : k[1] = Target(op) => Aside(k[1], k[2])
    BY <1>7 DEF Fill, KeepInv
  <2> QED BY <1>a, <2>1, <2>2 DEF KeepInv, Aside, TypeOK
<1>8. ASSUME AppendText PROVE KeepInv'
  <2> DEFINE t == (IF Exists(Target(op)) THEN content[Target(op)] ELSE <<>>) \o draft
  <2>1. /\ pc' = "completing" /\ UNCHANGED <<backups, trash, asked>>
        /\ content' = [content EXCEPT ![Target(op)] = t]
        /\ known' = known \cup {<<Target(op), t>>}
    BY <1>8 DEF AppendText, Writes, client
  <2> HIDE DEF t
  <2>2. \A k \in known : k[1] = Target(op) => Aside(k[1], k[2])
    <3> SUFFICES ASSUME NEW k \in known, k[1] = Target(op), content[k[1]] = k[2]
                 PROVE  Aside(k[1], k[2])
      BY DEF KeepInv
    <3>1. Exists(Target(op))
      BY AbsentAssumption DEF TypeOK, Exists
    <3> QED BY <1>8, <1>a, <3>1 DEF AppendText, KeepInv
  <2> QED BY <1>a, <2>1, <2>2 DEF KeepInv, Aside, TypeOK
<1>9. ASSUME CreateDirectory PROVE KeepInv'
  <2>1. CASE Exists(Target(op))
    BY <1>9, <1>b, <2>1 DEF CreateDirectory, client
  <2>2. CASE ~Exists(Target(op))
    <3>1. /\ pc' = "completing" /\ UNCHANGED <<backups, trash, asked>>
          /\ content' = [content EXCEPT ![Target(op)] = <<op>>]
          /\ known' = known \cup {<<Target(op), <<op>>>>}
      BY <1>9, <2>2 DEF CreateDirectory, Writes, client
    <3>2. \A k \in known : k[1] = Target(op) => Aside(k[1], k[2])
      BY <2>2, AbsentAssumption DEF KeepInv, TypeOK, Exists
    <3> QED BY <1>a, <3>1, <3>2 DEF KeepInv, Aside, TypeOK
  <2> QED BY <2>1, <2>2
<1>10. ASSUME MoveToTrash PROVE KeepInv'
  <2> DEFINE e == [path |-> Target(op), text |-> content[Target(op)], listed |-> FALSE,
                   held |-> TRUE, by |-> op]
  <2>1. /\ pc' = "listing" /\ UNCHANGED <<backups, asked, known>>
        /\ content' = [content EXCEPT ![Target(op)] = Absent]
        /\ trash' = trash \cup {e}
    BY <1>10 DEF MoveToTrash, client
  <2>2. e.path = Target(op) /\ e.text = content[Target(op)] /\ e.held
    OBVIOUS
  <2> HIDE DEF e
  <2>3. ASSUME NEW k \in known PROVE content'[k[1]] = k[2] \/ Aside(k[1], k[2])'
    <3>1. k[1] \in Paths
      BY DEF TypeOK
    <3> QED BY <2>1, <2>2, <3>1 DEF KeepInv, Aside, TypeOK
  <2> QED BY <2>1, <2>3 DEF KeepInv
<1>11. ASSUME ListTrash PROVE KeepInv'
  <2>1. /\ pc' = "completing" /\ UNCHANGED <<content, backups, asked, known>>
        /\ trash' = {IF e.by = op THEN [e EXCEPT !.listed = TRUE] ELSE e : e \in trash}
    BY <1>11 DEF ListTrash, client
  <2>2. ASSUME NEW p, NEW t, Aside(p, t) PROVE Aside(p, t)'
    <3>1. CASE [path |-> p, text |-> t] \in backups
      BY <2>1, <3>1 DEF Aside
    <3>2. CASE \E e \in trash : e.path = p /\ e.text = t /\ e.held
      <4>1. PICK e \in trash : e.path = p /\ e.text = t /\ e.held
        BY <3>2
      <4> DEFINE f == IF e.by = op THEN [e EXCEPT !.listed = TRUE] ELSE e
      <4>2. f \in trash'
        BY <2>1
      <4>3. f.path = p /\ f.text = t /\ f.held
        BY <4>1 DEF TypeOK
      <4> HIDE DEF f
      <4> QED BY <4>2, <4>3 DEF Aside
    <3> QED BY <2>2, <3>1, <3>2 DEF Aside
  <2> QED BY <2>1, <2>2 DEF KeepInv
<1>12. ASSUME Unlink PROVE KeepInv'
  <2>1. /\ pc' = "movingBack" /\ UNCHANGED <<backups, trash, asked, op, known>>
        /\ content' = [content EXCEPT ![Target(op)] = Absent]
    BY <1>12 DEF Unlink, client
  <2>2. \A k \in known : k[1] = Target(op) => Aside(k[1], k[2])
    <3> SUFFICES ASSUME NEW k \in known, k[1] = Target(op), content[k[1]] = k[2]
                 PROVE  Aside(k[1], k[2])
      BY DEF KeepInv
    <3>1. Exists(Target(op))
      BY AbsentAssumption DEF TypeOK, Exists
    <3> QED BY <1>12, <1>a, <3>1 DEF Unlink, KeepInv
  <2>3. \A k \in known : k[1] \in Paths
    BY DEF TypeOK
  <2> QED BY <1>a, <2>1, <2>2, <2>3 DEF KeepInv, Aside, TypeOK, Exists, Target
<1>13. ASSUME MoveBack PROVE KeepInv'
  <2>1. PICK e \in trash : /\ e.path = Target(op) /\ e.text = draft
                           /\ trash' = (trash \ {e}) \cup {[e EXCEPT !.held = FALSE]}
    BY <1>13 DEF MoveBack
  <2>2. /\ pc' = "completing" /\ UNCHANGED <<backups, asked>>
        /\ content' = [content EXCEPT ![Target(op)] = draft]
        /\ known' = known \cup {<<Target(op), draft>>}
        /\ pc = "movingBack"
    BY <1>13 DEF MoveBack, Writes, client
  <2>3. ASSUME NEW k \in known' PROVE content'[k[1]] = k[2] \/ Aside(k[1], k[2])'
    <3>1. CASE k[1] = Target(op) /\ k[2] = draft
      BY <1>a, <2>2, <3>1 DEF TypeOK
    <3>2. CASE k \in known /\ k[1] = Target(op) /\ k[2] # draft
      <4>1. Aside(k[1], k[2])
        BY <2>2, <3>2, AbsentAssumption DEF KeepInv, TypeOK, Exists
      <4> QED BY <2>1, <2>2, <3>2, <4>1 DEF Aside
    <3>3. CASE k \in known /\ k[1] # Target(op)
      <4>1. k[1] \in Paths
        BY <3>3 DEF TypeOK
      <4> QED BY <2>1, <2>2, <3>3, <4>1 DEF KeepInv, Aside, TypeOK
    <3> QED BY <2>2, <3>1, <3>2, <3>3
  <2> QED BY <2>2, <2>3 DEF KeepInv
<1>14. ASSUME StartApply PROVE KeepInv'
  <2>1. CASE pc' = "failing"
    BY <1>14, <1>b, <2>1 DEF StartApply, store, client
  <2>2. CASE pc' # "failing"
    <3>1. /\ pc' = "patching" /\ pc = "applying" /\ todo' = Req.paths
          /\ \A p \in Req.paths : IsFile(p)
          /\ UNCHANGED <<store, asked, known>>
      BY <1>14, <2>2 DEF StartApply, client
    <3> QED BY <3>1 DEF KeepInv, Aside, store, IsFile
  <2> QED BY <2>1, <2>2
<1>15. ASSUME PatchFile PROVE KeepInv'
  <2> DEFINE t(p) == Replaced(content[p], op)
  <2>1. PICK p \in todo : /\ content' = [content EXCEPT ![p] = t(p)]
                          /\ known' = known \cup {<<p, t(p)>>}
                          /\ todo' = todo \ {p}
    BY <1>15 DEF PatchFile, Writes
  <2>2. pc = "patching" /\ pc' = "patching" /\ UNCHANGED <<backups, trash, asked, op>>
    BY <1>15 DEF PatchFile, client
  <2> HIDE DEF t
  <2>3. \A k \in known : k[1] = p => Aside(k[1], k[2])
    BY <2>1, <2>2 DEF KeepInv
  <2>4. p \in Paths /\ \A k \in known : k[1] \in Paths
    BY <2>1 DEF TypeOK
  <2> QED BY <2>1, <2>2, <2>3, <2>4 DEF KeepInv, Aside, TypeOK
<1>16. ASSUME PatchDone \/ Report PROVE KeepInv'
  BY <1>16, <1>b DEF PatchDone, Report, store, client
(* What a command or somebody else changes is kept by them, or by nobody. *)
<1>d. ASSUME NEW p \in Paths, NEW t \in Texts \cup {Absent}, Replaces(p, t),
             UNCHANGED <<backups, trash, asked>>, pc' \in {"idle", "reporting"}
      PROVE  KeepInv'
  <2>1. /\ content' = [content EXCEPT ![p] = t]
        /\ known' = (known \ {<<p, content[p]>>}) \cup ({<<p, t>>} \ {<<p, Absent>>})
    BY <1>d DEF Replaces
  <2>2. ASSUME NEW k \in known, k # <<p, content[p]>>
        PROVE  content'[k[1]] = k[2] \/ Aside(k[1], k[2])'
    <3>1. k = <<k[1], k[2]>> /\ k[1] \in Paths
      BY DEF TypeOK
    <3>2. CASE k[1] = p
      BY <1>d, <2>2, <3>1, <3>2 DEF KeepInv, Aside
    <3>3. CASE k[1] # p
      BY <1>d, <2>1, <3>1, <3>3 DEF KeepInv, Aside, TypeOK
    <3> QED BY <3>2, <3>3
  <2>3. content'[p] = t
    BY <2>1 DEF TypeOK
  <2> QED BY <1>d, <2>1, <2>2, <2>3 DEF KeepInv
<1>20. ASSUME Run PROVE KeepInv'
  <2>0. PICK p \in Paths : \E t \in {content[p], <<op>>, Absent} : Replaces(p, t)
    BY <1>20 DEF Run
  <2>1. PICK t \in {content[p], <<op>>, Absent} : Replaces(p, t)
    BY <2>0
  <2>2. t \in Texts \cup {Absent}
    BY <2>1, MarkTexts DEF TypeOK
  <2> QED BY <1>d, <1>20, <2>1, <2>2 DEF Run, client
<1>17. ASSUME Complete \/ FillCompleted \/ Fail \/ FillFailed PROVE KeepInv'
  BY <1>17, <1>b DEF Complete, FillCompleted, Fail, FillFailed, Returns, store, client
<1>18. ASSUME Raise \/ Kill PROVE KeepInv'
  BY <1>18, <1>b DEF Raise, Kill, Returns, store, client
<1>21. ASSUME Unaudited PROVE KeepInv'
  <2>1. CASE StartUnaudited \/ CompleteUnaudited \/ FailUnaudited
    BY <1>b, <2>1 DEF StartUnaudited, CompleteUnaudited, FailUnaudited, Returns, store, client
  <2>2. CASE \E o \in Ops : ReuseUnaudited(o)
    BY <1>b, <2>2 DEF ReuseUnaudited, CallsNow, store
  <2> QED BY <1>21, <2>1, <2>2 DEF Unaudited
<1>19. ASSUME NEW p \in Paths, Edit(p) PROVE KeepInv'
  <2>1. Edited \in Texts
    BY MarkTexts DEF TypeOK
  <2> QED BY <1>d, <1>19, <2>1 DEF Edit
<1> QED
  BY <1>c, <1>1, <1>2, <1>3, <1>4, <1>5, <1>6, <1>7, <1>8, <1>9, <1>10, <1>11, <1>12, <1>13,
     <1>14, <1>15, <1>16, <1>17, <1>18, <1>19, <1>20, <1>21 DEF Next, Begin, Serve, Fault

(* If nobody else changes a file while a tool runs, and directories are    *)
(* not restored over each other, then no file tool loses a text, wherever  *)
(* it fails or is killed: not one it found, nor one a command left behind. *)
THEOREM NoTextLost ==
  ASSUME DirectoriesSpared, EditsDuring = FALSE
  PROVE  Spec => []NothingLost
<1>1. Init => TypeInv /\ KeepInv
  BY InitTypeInv, InitKeepInv
<1>2. TypeInv /\ KeepInv /\ [Next]_vars => (TypeInv /\ KeepInv)'
  BY NextTypeInv, NextKeepInv
<1>3. KeepInv => NothingLost
  BY DEF KeepInv, NothingLost, Aside
<1> QED BY <1>1, <1>2, <1>3, PTL DEF Spec

------------------------------------------------------------------------------
(* Records that stay open *)

(* The record of the operation that is served, and who leaves one open. *)
Served == {"check", "backup", "truncating", "filling", "appending", "creating", "moving",
           "listing", "unlinking", "movingBack", "applying", "patching", "reporting",
           "running", "completing"}

OpenInv ==
  /\ pc \in Served /\ IsLedgered(op) => ledger[op] = "started"
  /\ pc \in {"opened", "closing", "failClosing"} => IsLedgered(op)
  /\ pc = "failing" /\ IsLedgered(op) => ledger[op] = "started" \/ "ledger" \in faults[op]
  /\ \A o \in Ops :
       /\ ~IsLedgered(o) => ledger[o] = "none"
       /\ ledger[o] \in {"started", "torn"} => "ledger" \in faults[o] \/ (pc # "idle" /\ op = o)

(* What has an effect at all: not a command that is only recorded. *)
HasEffect(o) == ~(asked[o].tool = "exec" /\ ~asked[o].force)

TruthInv ==
  /\ pc # "idle" => reply[op] = "none"
  /\ pc \in Served \ {"check", "completing"} => HasEffect(op)
  /\ pc \in {"filling", "listing", "patching", "reporting"} => effects[op] # 0
  /\ pc \in {"completing", "closing"} /\ HasEffect(op) => effects[op] # 0
  /\ pc \in {"failing", "failClosing"} /\ IsLedgered(op) /\ faults[op] = {} => effects[op] = 0
  /\ \A o \in Ops :
       /\ effects[o] # 0 => HasEffect(o)
       /\ HasEffect(o) /\ (ledger[o] = "completed" \/ reply[o] = "ok") => effects[o] # 0
       /\ faults[o] = {} /\ IsLedgered(o) /\ (ledger[o] = "failed" \/ reply[o] = "error")
            => effects[o] = 0

LEMMA InitOpenInv == Init => OpenInv
BY DEF Init, OpenInv, Served

LEMMA NextOpenInv == TypeOK /\ OpenInv /\ [Next]_vars => OpenInv'
<1> SUFFICES ASSUME TypeOK, OpenInv, [Next]_vars PROVE OpenInv'
  OBVIOUS
<1> USE DEF OpenInv, Served, IsLedgered
<1>c. ASSUME UNCHANGED vars PROVE OpenInv'
  BY <1>c DEF vars
<1>1. ASSUME NEW o \in Ops, BeginFresh(o) \/ BeginReuse(o) \/ BeginRefuse(o) \/ BeginPlain(o)
      PROVE  OpenInv'
  BY <1>1 DEF BeginFresh, BeginReuse, BeginRefuse, BeginPlain, CallsNow, Answers, store, TypeOK
<1>2. ASSUME FillStarted \/ Refuse PROVE OpenInv'
  BY <1>2 DEF FillStarted, Refuse, store, client, TypeOK
(* Steps inside a tool leave the records alone. *)
<1>3. ASSUME UNCHANGED <<asked, ledger, faults, op>>, pc \in Served,
             pc' \in Served \/ pc' = "failing"
      PROVE  OpenInv'
  BY <1>3 DEF TypeOK
<1>4. ASSUME Check PROVE OpenInv'
  <2>1. PICK tool : Passes(tool) /\ pc' \in Served
    BY <1>4 DEF Check, CheckWrite, CheckReplace, CheckAppend, CheckPatch, CheckRestoreDeleted,
                CheckRestoreBackup, CheckCreateDirectory, CheckDelete, CheckExec, CheckGitAdd,
                CheckGitCommit, CheckRunProfile, BacksUp, Goes
  <2> QED BY <1>3, <2>1 DEF Passes, client
<1>5. ASSUME Backup \/ BackupsDone PROVE OpenInv'
  <2>1. pc = "backup" /\ pc' \in Served
    BY <1>5 DEF Backup, BackupsDone
  <2> QED BY <1>3, <1>5, <2>1 DEF Backup, BackupsDone, client
<1>6. ASSUME \/ Truncate \/ Fill \/ AppendText \/ CreateDirectory \/ MoveToTrash \/ ListTrash
             \/ Unlink \/ MoveBack \/ StartApply \/ PatchFile \/ PatchDone \/ Run \/ Report
      PROVE  OpenInv'
  BY <1>3, <1>6 DEF Truncate, Fill, AppendText, CreateDirectory, MoveToTrash, ListTrash, Unlink,
     MoveBack, StartApply, PatchFile, PatchDone, Run, Report, client
<1>7. ASSUME Complete PROVE OpenInv'
  BY <1>7 DEF Complete, Returns, store, client, TypeOK
<1>8. ASSUME FillCompleted \/ FillFailed PROVE OpenInv'
  BY <1>8 DEF FillCompleted, FillFailed, Returns, store, client, TypeOK
<1>9. ASSUME Fail PROVE OpenInv'
  BY <1>9 DEF Fail, Returns, store, client, TypeOK
<1>10. ASSUME Kill PROVE OpenInv'
  BY <1>10 DEF Kill, Returns, store, client, TypeOK
<1>11. ASSUME Raise PROVE OpenInv'
  <2>1. UNCHANGED <<asked, ledger, op>> BY <1>11 DEF Raise, client
  <2>2. \A o \in Ops : faults[o] \subseteq faults'[o]
    BY <1>11 DEF Raise, Faulted, TypeOK
  <2>3. AtLedger => "ledger" \in faults'[op]
    BY <1>11 DEF Raise, Faulted, TypeOK
  <2>4. CASE pc \in {"opened", "failing", "failClosing"}
    <3>1. pc' = "idle" BY <1>11, <2>4 DEF Raise, Returns
    <3> QED BY <2>1, <2>2, <2>3, <2>4, <3>1 DEF AtLedger, TypeOK
  <2>5. CASE pc \notin {"opened", "failing", "failClosing"} /\ ~IsLedgered(op)
    <3>1. pc' = "idle" BY <1>11, <2>5 DEF Raise, Returns
    <3> QED BY <2>1, <2>2, <2>5, <3>1 DEF TypeOK
  <2>6. CASE pc \notin {"opened", "failing", "failClosing"} /\ IsLedgered(op)
    <3>1. pc' = "failing" /\ pc # "idle" BY <1>11, <2>6 DEF Raise
    <3>2. ledger[op] = "started" \/ "ledger" \in faults'[op]
      BY <2>3, <2>6, <3>1 DEF AtLedger, TypeOK, Labels
    <3> QED BY <2>1, <2>2, <3>1, <3>2 DEF TypeOK
  <2> QED BY <2>4, <2>5, <2>6
<1>13. ASSUME Unaudited PROVE OpenInv'
  <2>1. CASE StartUnaudited \/ CompleteUnaudited \/ FailUnaudited
    <3>1. UNCHANGED <<asked, op>> /\ "ledger" \in faults'[op]
      BY <2>1 DEF StartUnaudited, CompleteUnaudited, FailUnaudited, Faulted, AtLedger, client, TypeOK
    <3>2. \A o \in Ops : o # op => ledger'[o] = ledger[o] /\ faults'[o] = faults[o]
      BY <2>1 DEF StartUnaudited, CompleteUnaudited, FailUnaudited, Faulted, TypeOK
    <3>3. pc' \in {"idle", "failing"} /\ IsLedgered(op)
      BY <2>1 DEF StartUnaudited, CompleteUnaudited, FailUnaudited, Returns
    <3> QED BY <3>1, <3>2, <3>3 DEF TypeOK
  <2>2. CASE \E o \in Ops : ReuseUnaudited(o)
    BY <2>2 DEF ReuseUnaudited, CallsNow, Answers, store, TypeOK
  <2> QED BY <1>13, <2>1, <2>2 DEF Unaudited
<1>12. ASSUME NEW p \in Paths, Edit(p) PROVE OpenInv'
  BY <1>12 DEF Edit, TypeOK
<1> QED
  BY <1>c, <1>1, <1>2, <1>4, <1>5, <1>6, <1>7, <1>8, <1>9, <1>10, <1>11, <1>12, <1>13
     DEF Next, Begin, Serve, Fault

(* An operation stays "already running" only if the server was killed, or  *)
(* the write of its record or audit line failed: every other way through a tool, also    *)
(* through its exceptions, closes the record (operations.py, and           *)
(* _begin_operation, _complete_operation and _fail_operation of server.py).*)
THEOREM RecordsClose == Spec => []OpenOnlyAfterFault
<1>1. Init => TypeInv /\ OpenInv
  BY InitTypeInv, InitOpenInv
<1>2. TypeInv /\ OpenInv /\ [Next]_vars => (TypeInv /\ OpenInv)'
  BY NextTypeInv, NextOpenInv DEF TypeInv
<1>3. OpenInv => OpenOnlyAfterFault
  BY DEF OpenInv, OpenOnlyAfterFault
<1> QED BY <1>1, <1>2, <1>3, PTL DEF Spec

------------------------------------------------------------------------------
(* What the client hears *)

LEMMA InitTruthInv == Init => TruthInv
BY DEF Init, TruthInv, Served

LEMMA NextTruthInv ==
  TypeOK /\ OnceInv /\ OpenInv /\ TruthInv /\ [Next]_vars => TruthInv'
<1> SUFFICES ASSUME TypeOK, OnceInv, OpenInv, TruthInv, [Next]_vars PROVE TruthInv'
  OBVIOUS
<1> USE DEF TruthInv, Served, IsLedgered, HasEffect
<1>c. ASSUME UNCHANGED vars PROVE TruthInv'
  BY <1>c DEF vars
<1>1. ASSUME NEW o \in Ops, BeginFresh(o) \/ BeginPlain(o) PROVE TruthInv'
  BY <1>1 DEF BeginFresh, BeginPlain, CallsNow, Answers, store, TypeOK
<1>2. ASSUME NEW o \in Ops, BeginReuse(o) PROVE TruthInv'
  BY <1>2 DEF BeginReuse, CallsNow, Answers, store, TypeOK, Ledgered
<1>3. ASSUME NEW o \in Ops, BeginRefuse(o) PROVE TruthInv'
  <2>1. faults[o] = {} => ledger[o] = "failed"
    BY <1>3 DEF BeginRefuse, CallsNow, OpenInv
  <2> QED BY <1>3, <2>1 DEF BeginRefuse, CallsNow, Answers, store, TypeOK
<1>4. ASSUME FillStarted \/ Refuse PROVE TruthInv'
  BY <1>4 DEF FillStarted, Refuse, store, client, TypeOK, OnceInv, Untouched
<1>5. ASSUME Check PROVE TruthInv'
  <2>1. /\ pc = "check" /\ UNCHANGED <<asked, ledger, op, effects, reply, faults>>
        /\ pc' \in {"backup", "creating", "moving", "running", "completing"}
        /\ pc' = "completing" <=> ~HasEffect(op)
    <3>1. ASSUME NEW tool, Passes(tool),
                 tool # "exec" /\ pc' \in {"backup", "creating", "moving", "running"}
          PROVE  /\ pc = "check" /\ UNCHANGED <<asked, ledger, op, effects, reply, faults>>
                 /\ pc' \in {"backup", "creating", "moving", "running", "completing"}
                 /\ pc' = "completing" <=> ~HasEffect(op)
      BY <3>1 DEF Passes, client, Req
    <3>2. CASE CheckExec
      BY <3>2 DEF CheckExec, Passes, Goes, client, Req
    <3> QED BY <1>5, <3>1, <3>2 DEF Check, CheckWrite, CheckReplace, CheckAppend, CheckPatch,
          CheckRestoreDeleted, CheckRestoreBackup, CheckCreateDirectory, CheckDelete,
          CheckGitAdd, CheckGitCommit, CheckRunProfile, BacksUp, Goes
  <2> QED BY <2>1 DEF TypeOK
<1>6. ASSUME Backup \/ BackupsDone PROVE TruthInv'
  <2>1. /\ pc = "backup" /\ UNCHANGED <<asked, ledger, op, effects, reply, faults>>
        /\ pc' \in {"backup", "appending", "applying", "unlinking", "movingBack", "truncating"}
    BY <1>6 DEF Backup, BackupsDone, client
  <2> QED BY <2>1 DEF TypeOK
(* The effect, and what comes after it. *)
<1>7. ASSUME Truncate \/ AppendText \/ CreateDirectory \/ MoveToTrash \/ Unlink \/ MoveBack \/ Run
      PROVE  TruthInv'
  BY <1>7 DEF Truncate, AppendText, CreateDirectory, MoveToTrash, Unlink, MoveBack, Run, Acts,
              client, TypeOK, OnceInv, OpenInv, Untouched, PlainLabels
<1>8. ASSUME Fill \/ ListTrash \/ PatchFile \/ PatchDone \/ Report PROVE TruthInv'
  BY <1>8 DEF Fill, ListTrash, PatchFile, PatchDone, Report, store, client, TypeOK
<1>9. ASSUME StartApply PROVE TruthInv'
  BY <1>9 DEF StartApply, Acts, store, client, TypeOK, OnceInv, OpenInv, Untouched
<1>10. ASSUME Complete \/ FillCompleted PROVE TruthInv'
  BY <1>10 DEF Complete, FillCompleted, Returns, Answers, store, client, TypeOK
<1>11. ASSUME Fail \/ FillFailed PROVE TruthInv'
  BY <1>11 DEF Fail, FillFailed, Returns, Answers, store, client, TypeOK
<1>12. ASSUME Raise \/ Kill PROVE TruthInv'
  <2>1. /\ UNCHANGED <<asked, ledger, op, effects>>
        /\ faults'[op] # {} /\ \A o \in Ops : o # op => faults'[o] = faults[o]
        /\ \A o \in Ops : o # op => reply'[o] = reply[o]
        /\ \/ pc' = "idle" /\ reply'[op] # "ok"
           \/ pc' = "failing" /\ reply' = reply /\ pc # "idle"
    <3>1. op \in Ops /\ UNCHANGED <<asked, ledger, op, effects>> /\ pc # "idle"
      BY <1>12 DEF Raise, Kill, client, TypeOK
    <3>2. \/ faults' = [faults EXCEPT ![op] = @ \cup {"ledger"}]
          \/ faults' = [faults EXCEPT ![op] = @ \cup {"tool"}]
      BY <1>12 DEF Raise, Kill, Faulted
    <3>3. faults'[op] # {} /\ \A o \in Ops : o # op => faults'[o] = faults[o]
      <4>1. \E f \in {"ledger", "tool"} : faults' = [faults EXCEPT ![op] = @ \cup {f}]
        BY <3>2
      <4>2. PICK f \in {"ledger", "tool"} : faults' = [faults EXCEPT ![op] = @ \cup {f}]
        BY <4>1
      <4>3. faults \in [Ops -> SUBSET {"tool", "ledger"}] BY DEF TypeOK
      <4>4. /\ f \in faults'[op]
            /\ \A o \in Ops : o # op => faults'[o] = faults[o]
        BY ONLY <3>1, <4>2, <4>3
      <4> QED BY <4>4
    <3>4. \/ pc' = "idle" /\ reply' = [reply EXCEPT ![op] = "error"]
          \/ pc' = "idle" /\ reply' = [reply EXCEPT ![op] = "lost"]
          \/ pc' = "failing" /\ reply' = reply
      BY <1>12 DEF Raise, Kill, Returns, Answers
    <3>5. /\ \A o \in Ops : o # op => reply'[o] = reply[o]
          /\ \/ pc' = "idle" /\ reply'[op] # "ok"
             \/ pc' = "failing" /\ reply' = reply
      BY <3>1, <3>4 DEF TypeOK
    <3> QED BY <3>1, <3>3, <3>5
  <2> QED BY <2>1 DEF TypeOK
<1>14. ASSUME StartUnaudited \/ CompleteUnaudited \/ FailUnaudited PROVE TruthInv'
  <2>1. /\ UNCHANGED <<asked, op, effects>> /\ op \in Ops
        /\ faults' = [faults EXCEPT ![op] = @ \cup {"ledger"}]
    BY <1>14 DEF StartUnaudited, CompleteUnaudited, FailUnaudited, Faulted, AtLedger, client, TypeOK
  <2>2. faults'[op] # {} /\ \A o \in Ops : o # op => faults'[o] = faults[o]
    BY <2>1 DEF TypeOK
  <2>3. CASE CompleteUnaudited
    BY <2>1, <2>2, <2>3 DEF CompleteUnaudited, TypeOK
  <2>4. CASE StartUnaudited \/ FailUnaudited
    <3>1. pc' = "idle" /\ reply' = [reply EXCEPT ![op] = "error"]
          /\ \E l \in {"started", "failed"} : ledger' = [ledger EXCEPT ![op] = l]
      BY <2>4 DEF StartUnaudited, FailUnaudited, Returns, Answers
    <3> QED BY <2>1, <2>2, <3>1 DEF TypeOK
  <2> QED BY <1>14, <2>3, <2>4
<1>15. ASSUME NEW o \in Ops, ReuseUnaudited(o) PROVE TruthInv'
  <2>1. faults'[o] # {} /\ \A x \in Ops : x # o => faults'[x] = faults[x]
    BY <1>15 DEF ReuseUnaudited, TypeOK
  <2> QED BY <1>15, <2>1 DEF ReuseUnaudited, CallsNow, Answers, store, TypeOK
<1>13. ASSUME NEW p \in Paths, Edit(p) PROVE TruthInv'
  BY <1>13 DEF Edit, TypeOK
<1> QED
  BY <1>c, <1>1, <1>2, <1>3, <1>4, <1>5, <1>6, <1>7, <1>8, <1>9, <1>10, <1>11, <1>12, <1>13,
     <1>14, <1>15 DEF Next, Begin, Serve, Fault, Unaudited

(* What the client hears is true, of a first call and of every repetition: *)
(* "ok" that the operation has had its effect, and an error that no fault  *)
(* explains that it has had none (server.py, _begin_operation).            *)
THEOREM AnswersAreTrue == Spec => []AnswersTrue
<1> DEFINE Inv == TypeInv /\ OnceInv /\ OpenInv /\ TruthInv
<1>1. Init => Inv
  BY InitTypeInv, InitOnceInv, InitOpenInv, InitTruthInv
<1>2. Inv /\ [Next]_vars => Inv'
  BY NextTypeInv, NextOnceInv, NextOpenInv, NextTruthInv DEF TypeInv
<1>3. Inv => AnswersTrue
  BY DEF TruthInv, AnswersTrue, HasEffect
<1> QED BY <1>1, <1>2, <1>3, PTL DEF Spec
=============================================================================
