----------------------- MODULE ActionExecutionProofs -----------------------
(***************************************************************************)
(* Theorems about ActionExecution, for any number of runners and files,    *)
(* every directory they are in, every set of bundles of any length and     *)
(* every choice of faults.                                                 *)
(***************************************************************************)
EXTENDS ActionExecution, FiniteSetTheorems, TLAPS

Marks == (Runners \cup {"orig", "missing"}) \X Nat
Steps == [kind : Kinds, file : Files]

Stepping == {"backup", "truncating", "filling"}
RollingBack == {"rollingBack", "restoring"}
Early == {"claimed", "snapshotting", "step"} \cup Stepping

FnInv ==
  /\ prog \in [Runners -> Seq(Steps)]
  /\ before \in [text : [Files -> {Missing, Orig}], folders : SUBSET Folders]
  /\ at \in [Runners -> Nat]
  /\ DOMAIN snap = Runners
  /\ draft \in [Runners -> Texts]
  /\ left \in [Runners -> SUBSET Files]

(* What each label promises about a runner. *)
RunnerInv(r) ==
  /\ prog[r] \in Programs[r]
  /\ at[r] \in 1..(Len(prog[r]) + 1)
  /\ pc[r] \in Stepping => at[r] <= Len(prog[r])
  /\ DOMAIN snap[r] \subseteq Targets(prog[r])
  /\ \A f \in DOMAIN snap[r] : snap[r][f] \in Texts
  /\ left[r] \subseteq Targets(prog[r])
  /\ pc[r] \in RollingBack => left[r] \subseteq DOMAIN snap[r]
  /\ pc[r] = "restoring" => left[r] # {}
  /\ pc[r] \in Early => rollback[r] = "none" /\ outcome[r] = "none"
  /\ pc[r] \in RollingBack => rollback[r] # "none" /\ outcome[r] \in {"failed", "interrupted"}

TypeInv == TypeOK /\ FnInv /\ \A r \in Runners : RunnerInv(r)

LEMMA LeastNatural ==
  ASSUME NEW T \in SUBSET Nat, T # {}
  PROVE  \E m \in T : \A n \in T : m <= n
<1> DEFINE R == StrictSubsetOrdering(Nat)
<1> DEFINE U == {1..n : n \in T}
<1>1. IsWellFoundedOn(R, FiniteSubsetsOf(Nat)) BY FS_StrictSubsetOrderingWellFounded
<1>2. U \subseteq FiniteSubsetsOf(Nat) /\ U # {}
  <2>1. \A n \in Nat : IsFiniteSet(1..n) /\ 1..n \subseteq Nat
    <3> TAKE n \in Nat
    <3> QED BY FS_Interval
  <2> QED BY <2>1 DEF FiniteSubsetsOf
<1>3. PICK u \in U : \A v \in U : <<v, u>> \notin R BY <1>1, <1>2, WFMin
<1>4. PICK m \in T : u = 1..m BY <1>3
<1>5. ASSUME NEW n \in T, n < m PROVE FALSE
  <2>1. 1..n \subseteq 1..m /\ m \in 1..m /\ m \notin 1..n /\ 1..m \subseteq Nat BY <1>5
  <2>2. <<1..n, 1..m>> \in R BY <2>1 DEF StrictSubsetOrdering
  <2> QED BY <2>2, <1>3, <1>4
<1> QED BY <1>5

LEMMA FirstMentionFound ==
  ASSUME NEW p \in Seq(Steps), NEW f \in Targets(p)
  PROVE  FirstMention(p, f) \in Nat
<1> DEFINE T == {i \in DOMAIN p : IsFileStep(p[i]) /\ p[i].file = f}
<1>1. T \in SUBSET Nat /\ T # {} BY DEF Targets
<1>2. PICK i \in T : \A j \in T : i <= j BY <1>1, LeastNatural
<1>3. \A j \in 1..(i - 1) : ~(IsFileStep(p[j]) /\ p[j].file = f)
  <2>1. \A j \in 1..(i - 1) : j \in DOMAIN p /\ j < i BY <1>2
  <2> QED BY <1>2, <2>1
<1> QED BY <1>2, <1>3 DEF FirstMention

(* The rollback and the snapshots visit a file that is still to visit.     *)
LEMMA NextTargetIsLeft ==
  ASSUME TypeInv, NEW r \in Runners, left[r] # {}
  PROVE  NextTarget(r) \in left[r] /\ NextTarget(r) \in Targets(prog[r]) /\ NextTarget(r) \in Files
<1> DEFINE T == {FirstMention(prog[r], f) : f \in left[r]}
<1>0. left[r] \subseteq Targets(prog[r]) /\ left[r] \subseteq Files /\ prog[r] \in Seq(Steps)
  BY DEF TypeInv, FnInv, RunnerInv
<1>1. \A f \in left[r] : FirstMention(prog[r], f) \in Nat BY <1>0, FirstMentionFound
<1>2. T \in SUBSET Nat /\ T # {} BY <1>1
<1>3. PICK m \in T : \A n \in T : m <= n BY <1>2, LeastNatural
<1>4. PICK f \in left[r] : m = FirstMention(prog[r], f) BY <1>3
<1>5. \A g \in left[r] : FirstMention(prog[r], f) <= FirstMention(prog[r], g) BY <1>3, <1>4
<1> QED BY <1>0, <1>4, <1>5 DEF NextTarget, FirstOf

LEMMA StepTyped ==
  ASSUME TypeInv, NEW r \in Runners, at[r] <= Len(prog[r])
  PROVE  Step(r) \in Steps /\ Step(r).file \in Files /\ Step(r).kind \in Kinds
         /\ at[r] \in DOMAIN prog[r]
<1>1. prog[r] \in Seq(Steps) /\ at[r] \in 1..(Len(prog[r]) + 1) BY DEF TypeInv, FnInv, RunnerInv
<1>2. DOMAIN prog[r] = 1..Len(prog[r]) /\ Len(prog[r]) \in Nat BY <1>1
<1>3. at[r] \in DOMAIN prog[r] BY <1>1, <1>2
<1>4. prog[r][at[r]] \in Steps BY <1>1, <1>3
<1> QED BY <1>3, <1>4 DEF Step, Steps

LEMMA MarkTyped ==
  ASSUME TypeInv, NEW r \in Runners
  PROVE  Mark(r) \in Marks
BY DEF TypeInv, FnInv, Mark, Marks

LEMMA InitTypes == Init => TypeInv
<1> SUFFICES ASSUME Init PROVE TypeInv
  OBVIOUS
<1>1. Missing \in Texts /\ Orig \in Texts BY DEF Missing, Orig, OrigMark, Texts
<1>2. text \in [Files -> {Missing, Orig}] BY DEF Init
<1>3. text \in [Files -> Texts] BY <1>1, <1>2
<1>4. folders \subseteq Folders
  <2>1. {Folder[f] : f \in {g \in Files : text[g] # Missing}} \ {"."} \subseteq Folders BY DEF Folders
  <2> QED BY <2>1 DEF Init
<1>5. \A r \in Runners : prog[r] \in Programs[r] BY DEF Init
<1>6. prog \in [Runners -> Seq(Steps)]
  BY <1>5, ProgramsAssumption DEF Init, Steps
<1>7. /\ before \in [text : [Files -> {Missing, Orig}], folders : SUBSET Folders]
      /\ at \in [Runners -> Nat] /\ DOMAIN snap = Runners
      /\ draft \in [Runners -> Texts] /\ left \in [Runners -> SUBSET Files]
  BY <1>1, <1>2, <1>4 DEF Init
<1>8. \A r \in Runners : RunnerInv(r)
  <2> SUFFICES ASSUME NEW r \in Runners PROVE RunnerInv(r)
    OBVIOUS
  <2>1. DOMAIN snap[r] = {} /\ left[r] = {} /\ pc[r] = "claimed" /\ at[r] = 1
        /\ rollback[r] = "none" /\ outcome[r] = "none"
    BY DEF Init
  <2>2. Len(prog[r]) \in Nat BY <1>6
  <2> QED BY <1>5, <2>1, <2>2 DEF RunnerInv, Stepping, RollingBack
<1>9. TypeOK
  <2>1. backups \subseteq Files \X Texts BY DEF Init
  <2>2. pc \in [Runners -> Labels] /\ stopped \in [Runners -> Labels \cup {"none"}]
        /\ outcome \in [Runners -> {"none", "applied", "failed", "interrupted"}]
        /\ rollback \in [Runners -> {"none", "completed", "failed"}]
    BY DEF Init, Labels
  <2>3. taken \subseteq Files BY DEF Init
  <2> QED BY <1>3, <1>4, <1>8, <2>1, <2>2, <2>3 DEF TypeOK, RunnerInv
<1> QED BY <1>6, <1>7, <1>8, <1>9 DEF TypeInv, FnInv

(* What an action leaves of the other runners, and of the types.           *)
SameRunner(q) ==
  /\ pc'[q] = pc[q] /\ at'[q] = at[q] /\ snap'[q] = snap[q] /\ draft'[q] = draft[q]
  /\ left'[q] = left[q] /\ outcome'[q] = outcome[q] /\ rollback'[q] = rollback[q]
  /\ stopped'[q] = stopped[q]

LocalTypes ==
  /\ pc \in [Runners -> Labels]
  /\ at \in [Runners -> Nat]
  /\ DOMAIN snap = Runners
  /\ draft \in [Runners -> Texts]
  /\ left \in [Runners -> SUBSET Files]
  /\ outcome \in [Runners -> {"none", "applied", "failed", "interrupted"}]
  /\ rollback \in [Runners -> {"none", "completed", "failed"}]
  /\ stopped \in [Runners -> Labels \cup {"none"}]

WorkspaceTypes ==
  /\ text \in [Files -> Texts]
  /\ folders \subseteq Folders
  /\ backups \subseteq Files \X Texts
  /\ taken \subseteq Files

Framed(r) ==
  /\ prog' = prog /\ before' = before
  /\ \A q \in Runners \ {r} : SameRunner(q)

LEMMA PartsOfTypes ==
  TypeInv <=> /\ LocalTypes /\ WorkspaceTypes
              /\ prog \in [Runners -> Seq(Steps)]
              /\ before \in [text : [Files -> {Missing, Orig}], folders : SUBSET Folders]
              /\ \A r \in Runners : RunnerInv(r)
BY DEF TypeInv, TypeOK, FnInv, LocalTypes, WorkspaceTypes, RunnerInv

(* A runner's step keeps the types if it keeps its own.                    *)
LEMMA TypesFromParts ==
  ASSUME TypeInv, NEW r \in Runners, Framed(r), LocalTypes', WorkspaceTypes', RunnerInv(r)'
  PROVE  TypeInv'
<1>1. ASSUME NEW q \in Runners \ {r} PROVE RunnerInv(q)'
  <2>1. RunnerInv(q) /\ SameRunner(q) /\ prog' = prog BY <1>1, PartsOfTypes DEF Framed
  <2> QED BY <2>1 DEF RunnerInv, SameRunner, Targets, IsFileStep
<1>2. \A q \in Runners : RunnerInv(q)' BY <1>1
<1>3. prog' \in [Runners -> Seq(Steps)]
      /\ before' \in [text : [Files -> {Missing, Orig}], folders : SUBSET Folders]
  BY PartsOfTypes DEF Framed
<1>4. \A q \in Runners : /\ prog'[q] \in Programs[q]
                          /\ at'[q] \in 1..(Len(prog'[q]) + 1)
                          /\ DOMAIN snap'[q] \subseteq Targets(prog'[q])
                          /\ left'[q] \subseteq Targets(prog'[q])
  BY <1>2 DEF RunnerInv, Targets, IsFileStep
<1>5. TypeOK' BY <1>4 DEF TypeOK, LocalTypes, WorkspaceTypes
<1> QED BY <1>2, <1>3, <1>5 DEF TypeInv, FnInv, LocalTypes

LEMMA TextsTyped ==
  /\ Texts = Seq(Marks) /\ Missing \in Texts /\ Orig \in Texts /\ <<>> \in Texts
  /\ \A t \in Texts, m \in Marks : Append(t, m) \in Texts /\ Replaced(t, m) \in Texts /\ <<m>> \in Texts
<1>1. Texts = Seq(Marks) BY DEF Texts, Marks
<1>2. Missing \in Texts /\ Orig \in Texts /\ <<>> \in Texts
  BY <1>1 DEF Missing, Orig, OrigMark, Marks
<1>3. ASSUME NEW t \in Texts, NEW m \in Marks
      PROVE  Append(t, m) \in Texts /\ Replaced(t, m) \in Texts /\ <<m>> \in Texts
  <2>1. t \in Seq(Marks) BY <1>1
  <2>2. Replaced(t, m) \in Seq(Marks)
    <3>1. \A i \in 1..Len(t) : (IF t[i] = OrigMark THEN m ELSE t[i]) \in Marks BY <2>1
    <3>2. Replaced(t, m) = [i \in 1..Len(t) |-> IF t[i] = OrigMark THEN m ELSE t[i]]
      BY <2>1 DEF Replaced
    <3> QED BY <2>1, <3>1, <3>2
  <2> QED BY <1>1, <2>1, <2>2
<1> QED BY <1>1, <1>2, <1>3

LEMMA TargetsAreFiles ==
  ASSUME TypeInv, NEW r \in Runners
  PROVE  Targets(prog[r]) \subseteq Files /\ DOMAIN snap[r] \subseteq Files
<1>1. prog[r] \in Seq(Steps) /\ DOMAIN snap[r] \subseteq Targets(prog[r])
  BY PartsOfTypes DEF RunnerInv
<1>2. \A i \in DOMAIN prog[r] : prog[r][i] \in Steps BY <1>1
<1>3. \A i \in DOMAIN prog[r] : prog[r][i].file \in Files BY <1>2 DEF Steps
<1> QED BY <1>1, <1>3 DEF Targets

LEMMA DraftTyped ==
  ASSUME TypeInv, NEW r \in Runners, at[r] <= Len(prog[r])
  PROVE  Draft(r, Step(r)) \in Texts /\ Filled(r) \in Texts
<1>1. text[Step(r).file] \in Texts /\ Mark(r) \in Marks /\ draft[r] \in Texts
  BY StepTyped, MarkTyped, PartsOfTypes DEF WorkspaceTypes, LocalTypes
<1> HIDE DEF Texts, Marks
<1>2. Draft(r, Step(r)) \in Texts BY <1>1, TextsTyped DEF Draft
<1>3. Filled(r) \in Texts BY <1>1, TextsTyped DEF Filled
<1> QED BY <1>2, <1>3

LEMMA StopsAsTypes ==
  ASSUME TypeInv, NEW r \in Runners, NEW how \in {"failed", "interrupted"}, StopsAs(r, how)
  PROVE  Framed(r) /\ LocalTypes' /\ RunnerInv(r)'
<1>0. LocalTypes /\ RunnerInv(r) BY PartsOfTypes
<1>1. /\ outcome' = [outcome EXCEPT ![r] = how] /\ stopped' = [stopped EXCEPT ![r] = pc[r]]
      /\ prog' = prog /\ before' = before /\ at' = at /\ snap' = snap /\ draft' = draft
  BY DEF StopsAs
<1>2. CASE IsActionBundle(prog[r])
  <2>1. /\ pc' = [pc EXCEPT ![r] = "rollingBack"] /\ left' = [left EXCEPT ![r] = DOMAIN snap[r]]
        /\ rollback' = [rollback EXCEPT ![r] = "completed"]
    BY <1>2 DEF StopsAs, Goto
  <2>2. DOMAIN snap[r] \in SUBSET Files BY TargetsAreFiles
  <2>3. Framed(r) BY <1>0, <1>1, <2>1 DEF Framed, SameRunner, LocalTypes
  <2>4. LocalTypes' BY <1>0, <1>1, <2>1, <2>2 DEF LocalTypes, Labels
  <2>5. RunnerInv(r)'
    BY <1>0, <1>1, <2>1 DEF RunnerInv, LocalTypes, Early, Stepping, RollingBack
  <2> QED BY <2>3, <2>4, <2>5
<1>3. CASE ~IsActionBundle(prog[r])
  <2>1. pc' = [pc EXCEPT ![r] = "ended"] /\ left' = left /\ rollback' = rollback
    BY <1>3 DEF StopsAs, Goto
  <2>3. Framed(r) BY <1>0, <1>1, <2>1 DEF Framed, SameRunner, LocalTypes
  <2>4. LocalTypes' BY <1>0, <1>1, <2>1 DEF LocalTypes, Labels
  <2>5. RunnerInv(r)'
    BY <1>0, <1>1, <2>1 DEF RunnerInv, LocalTypes, Early, Stepping, RollingBack
  <2> QED BY <2>3, <2>4, <2>5
<1> QED BY <1>2, <1>3

LEMMA BeginTypes ==
  ASSUME TypeInv, NEW r \in Runners, Begin(r)
  PROVE  Framed(r) /\ TypeInv'
<1>0. LocalTypes /\ WorkspaceTypes /\ RunnerInv(r) /\ prog[r] \in Seq(Steps) BY PartsOfTypes
<1> USE <1>0
<1>1. \/ pc' = [pc EXCEPT ![r] = "snapshotting"] /\ left' = [left EXCEPT ![r] = Targets(prog[r])]
      \/ pc' = [pc EXCEPT ![r] = "step"] /\ left' = left
  BY DEF Begin, Goto
<1>2. /\ pc[r] = "claimed" /\ prog' = prog /\ before' = before /\ at' = at /\ snap' = snap /\ draft' = draft
      /\ outcome' = outcome /\ rollback' = rollback /\ stopped' = stopped /\ UNCHANGED wsVars
  BY DEF Begin
<1>3. Targets(prog[r]) \in SUBSET Files BY TargetsAreFiles
<1>4. Framed(r) BY <1>1, <1>2 DEF Framed, SameRunner, LocalTypes
<1>5. LocalTypes'
  <2>1. pc' \in [Runners -> Labels] BY <1>1 DEF LocalTypes, Labels
  <2>2. left' \in [Runners -> SUBSET Files]
    <3>1. [left EXCEPT ![r] = Targets(prog[r])] \in [Runners -> SUBSET Files] BY <1>3 DEF LocalTypes
    <3>2. left \in [Runners -> SUBSET Files] BY DEF LocalTypes
    <3> QED BY <1>1, <3>1, <3>2
  <2> QED BY <1>2, <2>1, <2>2 DEF LocalTypes
<1>6. WorkspaceTypes' BY <1>2 DEF WorkspaceTypes, wsVars
<1>7. RunnerInv(r)' BY <1>1, <1>2 DEF RunnerInv, LocalTypes, Early, Stepping, RollingBack
<1> QED BY <1>4, <1>5, <1>6, <1>7, TypesFromParts

LEMMA SnapshotTypes ==
  ASSUME TypeInv, NEW r \in Runners, Snapshot(r)
  PROVE  Framed(r) /\ TypeInv'
<1>0. LocalTypes /\ WorkspaceTypes /\ RunnerInv(r) /\ prog[r] \in Seq(Steps) BY PartsOfTypes
<1> USE <1>0
<1>1. /\ pc[r] = "snapshotting" /\ prog' = prog /\ before' = before /\ at' = at /\ draft' = draft
      /\ outcome' = outcome /\ rollback' = rollback /\ stopped' = stopped /\ UNCHANGED wsVars
  BY DEF Snapshot
<1>2. WorkspaceTypes' BY <1>1 DEF WorkspaceTypes, wsVars
<1>3. CASE left[r] = {}
  <2>1. pc' = [pc EXCEPT ![r] = "step"] /\ snap' = snap /\ left' = left
    BY <1>3 DEF Snapshot, Goto
  <2>2. Framed(r) BY <1>1, <2>1 DEF Framed, SameRunner, LocalTypes
  <2>3. LocalTypes' BY <1>1, <2>1 DEF LocalTypes, Labels
  <2>4. RunnerInv(r)' BY <1>1, <2>1 DEF RunnerInv, LocalTypes, Early, Stepping, RollingBack
  <2> QED BY <1>2, <2>2, <2>3, <2>4, TypesFromParts
<1>4. CASE left[r] # {}
  <2>1. PICK f \in Files : f = NextTarget(r) /\ f \in Targets(prog[r]) BY <1>4, NextTargetIsLeft
  <2> DEFINE more == [g \in DOMAIN snap[r] \cup {f} |-> IF g = f THEN text[f] ELSE snap[r][g]]
  <2>2. snap' = [snap EXCEPT ![r] = more] /\ left' = [left EXCEPT ![r] = @ \ {f}] /\ pc' = pc
    BY <1>4, <2>1 DEF Snapshot
  <2>3. DOMAIN more = DOMAIN snap[r] \cup {f} /\ \A g \in DOMAIN more : more[g] \in Texts
    BY <2>1 DEF RunnerInv, WorkspaceTypes
  <2> HIDE DEF more
  <2>4. snap'[r] = more /\ left'[r] \subseteq left[r] BY <2>2 DEF LocalTypes
  <2>5. Framed(r) BY <1>1, <2>2 DEF Framed, SameRunner, LocalTypes
  <2>6. LocalTypes' BY <1>1, <2>2 DEF LocalTypes
  <2>7. RunnerInv(r)'
    BY <1>1, <2>1, <2>2, <2>3, <2>4 DEF RunnerInv, LocalTypes, Early, Stepping, RollingBack
  <2> QED BY <1>2, <2>5, <2>6, <2>7, TypesFromParts
<1> QED BY <1>3, <1>4

LEMMA SnapshotFailsTypes ==
  ASSUME TypeInv, NEW r \in Runners, NEW how \in {"failed", "interrupted"}, SnapshotFails(r, how)
  PROVE  Framed(r) /\ TypeInv'
<1>0. LocalTypes /\ WorkspaceTypes /\ RunnerInv(r) /\ prog[r] \in Seq(Steps) BY PartsOfTypes
<1> USE <1>0
<1>1. Framed(r) BY DEF Framed, SameRunner, LocalTypes, SnapshotFails, Goto
<1>2. LocalTypes' BY TargetsAreFiles DEF LocalTypes, RunnerInv, SnapshotFails, Goto, Labels
<1>3. WorkspaceTypes' BY DEF WorkspaceTypes, SnapshotFails, wsVars
<1>4. RunnerInv(r)' BY DEF RunnerInv, LocalTypes, WorkspaceTypes, SnapshotFails, Goto, Early, Stepping, RollingBack
<1> QED BY <1>1, <1>2, <1>3, <1>4, TypesFromParts

LEMMA CheckStepTypes ==
  ASSUME TypeInv, NEW r \in Runners, CheckStep(r)
  PROVE  Framed(r) /\ TypeInv'
<1>0. LocalTypes /\ WorkspaceTypes /\ RunnerInv(r) /\ prog[r] \in Seq(Steps) BY PartsOfTypes
<1> USE <1>0
<1>1. Framed(r) BY DEF Framed, SameRunner, LocalTypes, CheckStep, Goto
<1>2. LocalTypes' BY DraftTyped DEF LocalTypes, RunnerInv, CheckStep, Goto, Labels
<1>3. WorkspaceTypes' BY DEF WorkspaceTypes, CheckStep, wsVars
<1>4. RunnerInv(r)' BY DEF RunnerInv, LocalTypes, WorkspaceTypes, CheckStep, Goto, Early, Stepping, RollingBack
<1> QED BY <1>1, <1>2, <1>3, <1>4, TypesFromParts

LEMMA StepRefusedTypes ==
  ASSUME TypeInv, NEW r \in Runners, StepRefused(r)
  PROVE  Framed(r) /\ TypeInv'
<1>1. StopsAs(r, "failed") /\ UNCHANGED wsVars BY DEF StepRefused
<1>2. WorkspaceTypes' BY <1>1, PartsOfTypes DEF WorkspaceTypes, wsVars
<1> QED BY <1>1, <1>2, StopsAsTypes, TypesFromParts

LEMMA BackupTypes ==
  ASSUME TypeInv, NEW r \in Runners, Backup(r)
  PROVE  Framed(r) /\ TypeInv'
<1>0. LocalTypes /\ WorkspaceTypes /\ RunnerInv(r) /\ prog[r] \in Seq(Steps) BY PartsOfTypes
<1> USE <1>0
<1>1. Framed(r) BY DEF Framed, SameRunner, LocalTypes, Backup, Goto
<1>2. LocalTypes' BY DEF LocalTypes, RunnerInv, Backup, Goto, Labels
<1>3. WorkspaceTypes'
  <2>1. Step(r).file \in Files /\ Folder[Step(r).file] \in Folders \cup {"."}
    BY StepTyped DEF Backup, RunnerInv, Stepping, Folders
  <2> QED BY <2>1 DEF WorkspaceTypes, Backup
<1>4. RunnerInv(r)' BY DEF RunnerInv, LocalTypes, WorkspaceTypes, Backup, Goto, Early, Stepping, RollingBack
<1> QED BY <1>1, <1>2, <1>3, <1>4, TypesFromParts

LEMMA TruncateTypes ==
  ASSUME TypeInv, NEW r \in Runners, Truncate(r)
  PROVE  Framed(r) /\ TypeInv'
<1>0. LocalTypes /\ WorkspaceTypes /\ RunnerInv(r) /\ prog[r] \in Seq(Steps) BY PartsOfTypes
<1> USE <1>0
<1>1. Framed(r) BY DEF Framed, SameRunner, LocalTypes, Truncate, Goto
<1>2. LocalTypes' BY DEF LocalTypes, RunnerInv, Truncate, Goto, Labels
<1>3. WorkspaceTypes' BY TextsTyped DEF WorkspaceTypes, Truncate
<1>4. RunnerInv(r)' BY DEF RunnerInv, LocalTypes, WorkspaceTypes, Truncate, Goto, Early, Stepping, RollingBack
<1> QED BY <1>1, <1>2, <1>3, <1>4, TypesFromParts

LEMMA FillTypes ==
  ASSUME TypeInv, NEW r \in Runners, Fill(r)
  PROVE  Framed(r) /\ TypeInv'
<1>0. LocalTypes /\ WorkspaceTypes /\ RunnerInv(r) /\ prog[r] \in Seq(Steps) BY PartsOfTypes
<1> USE <1>0
<1>1. Framed(r) BY DEF Framed, SameRunner, LocalTypes, Fill, Goto
<1>2. LocalTypes' BY DEF LocalTypes, RunnerInv, Fill, Goto, Labels
<1>3. WorkspaceTypes' BY DraftTyped DEF WorkspaceTypes, Fill, RunnerInv, Stepping
<1>4. RunnerInv(r)' BY DEF RunnerInv, LocalTypes, WorkspaceTypes, Fill, Goto, Early, Stepping, RollingBack
<1> QED BY <1>1, <1>2, <1>3, <1>4, TypesFromParts

LEMMA StepFailsTypes ==
  ASSUME TypeInv, NEW r \in Runners, StepFails(r)
  PROVE  Framed(r) /\ TypeInv'
<1>1. StopsAs(r, "failed") /\ UNCHANGED wsVars BY DEF StepFails
<1>2. WorkspaceTypes' BY <1>1, PartsOfTypes DEF WorkspaceTypes, wsVars
<1> QED BY <1>1, <1>2, StopsAsTypes, TypesFromParts

LEMMA MadeTyped ==
  ASSUME TypeInv, NEW r \in Runners, NEW t \in Texts
  PROVE  Makes(r, t) \subseteq Texts
<1>1. Mark(r) \in Marks BY MarkTyped
<1>2. (IF t = Missing THEN <<>> ELSE t) \in Texts BY TextsTyped
<1> HIDE DEF Texts, Marks
<1>3. Append(IF t = Missing THEN <<>> ELSE t, Mark(r)) \in Texts /\ <<Mark(r)>> \in Texts
      /\ <<>> \in Texts /\ Missing \in Texts
  BY <1>1, <1>2, TextsTyped
<1> QED BY <1>3 DEF Makes

LEMMA RunCommandTypes ==
  ASSUME TypeInv, NEW r \in Runners, RunCommand(r)
  PROVE  Framed(r) /\ TypeInv'
<1>0. LocalTypes /\ WorkspaceTypes /\ RunnerInv(r) /\ prog[r] \in Seq(Steps) BY PartsOfTypes
<1> USE <1>0
<1>1. WorkspaceTypes'
  <2>1. PICK f \in Files : f = Step(r).file BY StepTyped DEF RunCommand
  <2>2. Makes(r, text[f]) \subseteq Texts BY <2>1, MadeTyped DEF WorkspaceTypes
  <2>3. PICK t \in Makes(r, text[f]) :
          /\ text' = [text EXCEPT ![f] = t]
          /\ taken' = IF Has(text[f], OrigMark) /\ ~Has(t, OrigMark) THEN taken \cup {f} ELSE taken
    BY <2>1 DEF RunCommand
  <2>4. text' \in [Files -> Texts] BY <2>2, <2>3 DEF WorkspaceTypes
  <2>5. taken' \subseteq Files BY <2>3 DEF WorkspaceTypes
  <2> QED BY <2>4, <2>5 DEF WorkspaceTypes, RunCommand
<1>2. CASE StopsAs(r, "failed")
  BY <1>1, <1>2, StopsAsTypes, TypesFromParts
<1>3. CASE at' = [at EXCEPT ![r] = @ + 1] /\ UNCHANGED <<prog, before, pc, snap, draft, left, outcome, rollback, stopped>>
  <2>1. Framed(r) BY <1>3 DEF Framed, SameRunner, LocalTypes
  <2>2. LocalTypes' BY <1>3 DEF LocalTypes
  <2>3. RunnerInv(r)'
    BY <1>3 DEF RunnerInv, LocalTypes, RunCommand, Early, Stepping, RollingBack
  <2> QED BY <1>1, <2>1, <2>2, <2>3, TypesFromParts
<1> QED BY <1>2, <1>3 DEF RunCommand

LEMMA AllAppliedTypes ==
  ASSUME TypeInv, NEW r \in Runners, AllApplied(r)
  PROVE  Framed(r) /\ TypeInv'
<1>0. LocalTypes /\ WorkspaceTypes /\ RunnerInv(r) /\ prog[r] \in Seq(Steps) BY PartsOfTypes
<1> USE <1>0
<1>1. Framed(r) BY DEF Framed, SameRunner, LocalTypes, AllApplied, Goto
<1>2. LocalTypes' BY DEF LocalTypes, RunnerInv, AllApplied, Goto, Labels
<1>3. WorkspaceTypes' BY DEF WorkspaceTypes, AllApplied, wsVars
<1>4. RunnerInv(r)' BY DEF RunnerInv, LocalTypes, WorkspaceTypes, AllApplied, Goto, Early, Stepping, RollingBack
<1> QED BY <1>1, <1>2, <1>3, <1>4, TypesFromParts

LEMMA RemoveNewTypes ==
  ASSUME TypeInv, NEW r \in Runners, RemoveNew(r)
  PROVE  Framed(r) /\ TypeInv'
<1>0. LocalTypes /\ WorkspaceTypes /\ RunnerInv(r) /\ prog[r] \in Seq(Steps) BY PartsOfTypes
<1> USE <1>0
<1>1. Framed(r) BY DEF Framed, SameRunner, LocalTypes, RemoveNew, Goto
<1>2. LocalTypes' BY DEF LocalTypes, RunnerInv, RemoveNew, Goto, Labels
<1>3. WorkspaceTypes' BY TextsTyped DEF WorkspaceTypes, RemoveNew, WithoutEmpty
<1>4. RunnerInv(r)' BY DEF RunnerInv, LocalTypes, WorkspaceTypes, RemoveNew, Goto, Early, Stepping, RollingBack
<1> QED BY <1>1, <1>2, <1>3, <1>4, TypesFromParts

LEMMA RestoreOpenTypes ==
  ASSUME TypeInv, NEW r \in Runners, RestoreOpen(r)
  PROVE  Framed(r) /\ TypeInv'
<1>0. LocalTypes /\ WorkspaceTypes /\ RunnerInv(r) /\ prog[r] \in Seq(Steps) BY PartsOfTypes
<1> USE <1>0
<1>1. Framed(r) BY DEF Framed, SameRunner, LocalTypes, RestoreOpen, Goto
<1>2. LocalTypes' BY DEF LocalTypes, RunnerInv, RestoreOpen, Goto, Labels
<1>3. WorkspaceTypes'
  <2>1. PICK f \in Files : f = NextTarget(r) BY NextTargetIsLeft DEF RestoreOpen
  <2>2. Folder[f] \in Folders \cup {"."} BY DEF Folders
  <2> QED BY <2>1, <2>2, TextsTyped DEF WorkspaceTypes, RestoreOpen
<1>4. RunnerInv(r)' BY DEF RunnerInv, LocalTypes, WorkspaceTypes, RestoreOpen, Goto, Early, Stepping, RollingBack
<1> QED BY <1>1, <1>2, <1>3, <1>4, TypesFromParts

LEMMA RestoreFillTypes ==
  ASSUME TypeInv, NEW r \in Runners, RestoreFill(r)
  PROVE  Framed(r) /\ TypeInv'
<1>0. LocalTypes /\ WorkspaceTypes /\ RunnerInv(r) /\ prog[r] \in Seq(Steps) BY PartsOfTypes
<1> USE <1>0
<1>1. Framed(r) BY DEF Framed, SameRunner, LocalTypes, RestoreFill, Goto
<1>2. LocalTypes' BY DEF LocalTypes, RunnerInv, RestoreFill, Goto, Labels
<1>3. WorkspaceTypes'
  <2>1. PICK f \in Files : f = NextTarget(r) /\ f \in left[r]
    BY NextTargetIsLeft DEF RestoreFill, RunnerInv
  <2>2. snap[r][f] \in Texts BY <2>1 DEF RestoreFill, RunnerInv, RollingBack
  <2> QED BY <2>1, <2>2 DEF WorkspaceTypes, RestoreFill
<1>4. RunnerInv(r)' BY DEF RunnerInv, LocalTypes, WorkspaceTypes, RestoreFill, Goto, Early, Stepping, RollingBack
<1> QED BY <1>1, <1>2, <1>3, <1>4, TypesFromParts

LEMMA RestoreFailsTypes ==
  ASSUME TypeInv, NEW r \in Runners, RestoreFails(r)
  PROVE  Framed(r) /\ TypeInv'
<1>0. LocalTypes /\ WorkspaceTypes /\ RunnerInv(r) /\ prog[r] \in Seq(Steps) BY PartsOfTypes
<1> USE <1>0
<1>1. Framed(r) BY DEF Framed, SameRunner, LocalTypes, RestoreFails, Goto
<1>2. LocalTypes' BY DEF LocalTypes, RunnerInv, RestoreFails, Goto, Labels
<1>3. WorkspaceTypes' BY DEF WorkspaceTypes, RestoreFails, wsVars
<1>4. RunnerInv(r)' BY DEF RunnerInv, LocalTypes, WorkspaceTypes, RestoreFails, Goto, Early, Stepping, RollingBack
<1> QED BY <1>1, <1>2, <1>3, <1>4, TypesFromParts

LEMMA RolledBackTypes ==
  ASSUME TypeInv, NEW r \in Runners, RolledBack(r)
  PROVE  Framed(r) /\ TypeInv'
<1>0. LocalTypes /\ WorkspaceTypes /\ RunnerInv(r) /\ prog[r] \in Seq(Steps) BY PartsOfTypes
<1> USE <1>0
<1>1. Framed(r) BY DEF Framed, SameRunner, LocalTypes, RolledBack, Goto
<1>2. LocalTypes' BY DEF LocalTypes, RunnerInv, RolledBack, Goto, Labels
<1>3. WorkspaceTypes' BY DEF WorkspaceTypes, RolledBack, wsVars
<1>4. RunnerInv(r)' BY DEF RunnerInv, LocalTypes, WorkspaceTypes, RolledBack, Goto, Early, Stepping, RollingBack
<1> QED BY <1>1, <1>2, <1>3, <1>4, TypesFromParts

LEMMA InterruptTypes ==
  ASSUME TypeInv, NEW r \in Runners, Interrupt(r)
  PROVE  Framed(r) /\ TypeInv'
<1>1. StopsAs(r, "interrupted") /\ UNCHANGED wsVars BY DEF Interrupt
<1>2. WorkspaceTypes' BY <1>1, PartsOfTypes DEF WorkspaceTypes, wsVars
<1> QED BY <1>1, <1>2, StopsAsTypes, TypesFromParts

LEMMA KillTypes ==
  ASSUME TypeInv, NEW r \in Runners, Kill(r)
  PROVE  Framed(r) /\ TypeInv'
<1>0. LocalTypes /\ WorkspaceTypes /\ RunnerInv(r) /\ prog[r] \in Seq(Steps) BY PartsOfTypes
<1> USE <1>0
<1>1. Framed(r) BY DEF Framed, SameRunner, LocalTypes, Kill, Goto
<1>2. LocalTypes' BY DEF LocalTypes, RunnerInv, Kill, Goto, Labels
<1>3. WorkspaceTypes' BY DEF WorkspaceTypes, Kill, wsVars
<1>4. RunnerInv(r)' BY DEF RunnerInv, LocalTypes, WorkspaceTypes, Kill, Goto, Early, Stepping, RollingBack
<1> QED BY <1>1, <1>2, <1>3, <1>4, TypesFromParts

(* The steps of one runner.                                                *)
StepOf(r) ==
  \/ Advance(r) \/ Interrupt(r) \/ Kill(r)
  \/ r \in MayFail /\ SnapshotFails(r, "failed")
  \/ r \in MayInterrupt /\ SnapshotFails(r, "interrupted")

LEMMA StepTypes ==
  ASSUME TypeInv, NEW r \in Runners, StepOf(r)
  PROVE  Framed(r) /\ TypeInv'
BY BeginTypes, SnapshotTypes, CheckStepTypes, StepRefusedTypes,
   BackupTypes, TruncateTypes, FillTypes, StepFailsTypes,
   RunCommandTypes, AllAppliedTypes, RemoveNewTypes, RestoreOpenTypes,
   RestoreFillTypes, RestoreFailsTypes, RolledBackTypes,
   InterruptTypes, KillTypes, SnapshotFailsTypes DEF StepOf, Advance

LEMMA StuttersTypes ==
  ASSUME TypeInv, UNCHANGED vars
  PROVE  TypeInv'
BY DEF vars, wsVars, TypeInv, TypeOK, FnInv, RunnerInv, Targets, IsFileStep, Texts

(* The type invariant with what each label of a runner promises            *)
(* (command_bundle_runner.py:762-917): a step that is written is a step of *)
(* the bundle, a rollback visits what was snapshotted, and an outcome      *)
(* comes with the end of the run.                                          *)
THEOREM TypeCorrect == Spec => []TypeInv
<1>1. TypeInv /\ [Next]_vars => TypeInv'
  <2>1. Next <=> \E r \in Runners : StepOf(r) BY DEF Next, StepOf
  <2> QED BY <2>1, StepTypes, StuttersTypes
<1> QED BY InitTypes, <1>1, PTL DEF Spec

(* The type invariant of the steps, snapshots and rollbacks of a runner    *)
(* (command_bundle_runner.py:762-917).                                     *)
THEOREM TypesCorrect == Spec => []TypeOK
<1>1. TypeInv => TypeOK BY DEF TypeInv
<1> QED BY TypeCorrect, <1>1, PTL

------------------------------------------------------------------------------
(* The steps lose no text *)

Saved(f) == f \in taken \/ \E c \in backups : c[1] = f /\ Has(c[2], OrigMark)
NoRollback == \A r \in Runners : rollback[r] = "none"

(* Whoever is about to overwrite a file has it in a backup, unless a       *)
(* command took its text before.                                           *)
KeepInv ==
  NoRollback =>
    /\ \A f \in Files : before.text[f] # Missing => Has(text[f], OrigMark) \/ Saved(f)
    /\ \A r \in Runners : /\ pc[r] \in {"truncating", "filling"}
                           /\ before.text[Step(r).file] # Missing
                           => Saved(Step(r).file)

LEMMA MarksDiffer ==
  ASSUME TypeInv, NEW r \in Runners
  PROVE  Mark(r) # OrigMark /\ Mark(r) # <<"missing", 0>>
<1>1. at[r] >= 1 BY PartsOfTypes DEF RunnerInv
<1> QED BY <1>1 DEF Mark, OrigMark

LEMMA AppendKeeps ==
  ASSUME NEW t \in Texts, NEW m \in Marks, m # <<"missing", 0>>
  PROVE  /\ Append(t, m) # Missing
         /\ \A x \in Marks : Has(t, x) => Has(Append(t, m), x)
<1>1. t \in Seq(Marks) BY TextsTyped
<1>2. Append(t, m) # Missing
  <2>1. Append(t, m)[Len(t) + 1] = m /\ Len(Append(t, m)) = Len(t) + 1 BY <1>1
  <2>2. Len(Missing) = 1 /\ Missing[1] = <<"missing", 0>> BY DEF Missing
  <2> QED BY <1>1, <2>1, <2>2
<1>3. ASSUME NEW x \in Marks, Has(t, x) PROVE Has(Append(t, m), x)
  <2>1. PICK i \in 1..Len(t) : t[i] = x BY <1>1, <1>3 DEF Has, ToSet
  <2>2. i \in DOMAIN Append(t, m) /\ Append(t, m)[i] = x BY <1>1, <2>1
  <2> QED BY <1>2, <2>2 DEF Has, ToSet
<1> QED BY <1>2, <1>3

(* No step undoes a rollback or a backup.                                  *)
LEMMA RollbacksStay ==
  ASSUME TypeInv, NEW r \in Runners, StepOf(r)
  PROVE  /\ rollback'[r] = "none" => rollback[r] = "none"
         /\ backups \subseteq backups' /\ taken \subseteq taken'
<1>1. LocalTypes BY PartsOfTypes
<1>2. ASSUME NEW how \in {"failed", "interrupted"}, StopsAs(r, how)
      PROVE  rollback'[r] = "none" => rollback[r] = "none"
  <2>1. rollback' = rollback \/ rollback' = [rollback EXCEPT ![r] = "completed"]
    BY <1>2 DEF StopsAs
  <2> QED BY <1>1, <2>1 DEF LocalTypes
<1>3. rollback'[r] = "none" => rollback[r] = "none"
  BY <1>1, <1>2 DEF StepOf, Advance, Begin, Snapshot, CheckStep, StepRefused, Backup, Truncate, Fill,
    StepFails, RunCommand, AllApplied, RemoveNew, RestoreOpen, RestoreFill, RestoreFails, RolledBack,
    Interrupt, Kill, SnapshotFails, LocalTypes
<1>4. backups \subseteq backups'
  BY DEF StepOf, Advance, Begin, Snapshot, CheckStep, StepRefused, Backup, Truncate, Fill,
    StepFails, RunCommand, AllApplied, RemoveNew, RestoreOpen, RestoreFill, RestoreFails, RolledBack,
    Interrupt, Kill, SnapshotFails, wsVars
<1>5. taken \subseteq taken'
  BY DEF StepOf, Advance, Begin, Snapshot, CheckStep, StepRefused, Backup, Truncate, Fill,
    StepFails, RunCommand, AllApplied, RemoveNew, RestoreOpen, RestoreFill, RestoreFails, RolledBack,
    Interrupt, Kill, SnapshotFails, wsVars
<1> QED BY <1>3, <1>4, <1>5

(* The steps that leave the workspace alone.                               *)
LooksOnly(r) ==
  \/ Begin(r) \/ Snapshot(r) \/ CheckStep(r) \/ StepRefused(r) \/ StepFails(r) \/ AllApplied(r)
  \/ RestoreFails(r) \/ RolledBack(r) \/ Interrupt(r) \/ Kill(r)
  \/ \E how \in {"failed", "interrupted"} : SnapshotFails(r, how)

LEMMA LooksOnlyFacts ==
  ASSUME TypeInv, NEW r \in Runners, LooksOnly(r)
  PROVE  /\ UNCHANGED wsVars
         /\ pc'[r] \notin {"truncating", "filling"}
<1>1. LocalTypes BY PartsOfTypes
<1>2. ASSUME NEW how \in {"failed", "interrupted"}, StopsAs(r, how)
      PROVE  pc'[r] \notin {"truncating", "filling"}
  <2>1. pc' = [pc EXCEPT ![r] = "rollingBack"] \/ pc' = [pc EXCEPT ![r] = "ended"]
    BY <1>2 DEF StopsAs, Goto
  <2> QED BY <1>1, <2>1 DEF LocalTypes
<1>3. UNCHANGED wsVars
  BY DEF LooksOnly, Begin, Snapshot, CheckStep, StepRefused, StepFails, AllApplied, RestoreFails,
    RolledBack, Interrupt, Kill, SnapshotFails
<1>4. CASE StepRefused(r) \/ StepFails(r) \/ Interrupt(r)
  BY <1>2, <1>4 DEF StepRefused, StepFails, Interrupt
<1>5. CASE Begin(r) \/ Snapshot(r)
  <2>1. CASE Begin(r)
    <3>1. pc' = [pc EXCEPT ![r] = "snapshotting"] \/ pc' = [pc EXCEPT ![r] = "step"]
      BY <2>1 DEF Begin, Goto
    <3> QED BY <1>1, <1>3, <3>1 DEF LocalTypes
  <2>2. CASE Snapshot(r)
    <3>1. pc[r] = "snapshotting" /\ (pc' = pc \/ pc' = [pc EXCEPT ![r] = "step"])
      BY <2>2 DEF Snapshot, Goto
    <3> QED BY <1>1, <1>3, <3>1 DEF LocalTypes
  <2> QED BY <1>5, <2>1, <2>2
<1>6. CASE CheckStep(r) \/ AllApplied(r) \/ RestoreFails(r) \/ RolledBack(r) \/ Kill(r)
           \/ \E how \in {"failed", "interrupted"} : SnapshotFails(r, how)
  BY <1>1, <1>6 DEF CheckStep, AllApplied, RestoreFails, RolledBack, Kill, SnapshotFails, Goto, LocalTypes
<1> QED BY <1>3, <1>4, <1>5, <1>6 DEF LooksOnly

LEMMA StepsSplit ==
  ASSUME NEW r \in Runners, StepOf(r)
  PROVE  \/ LooksOnly(r) \/ Backup(r) \/ Truncate(r) \/ Fill(r) \/ RunCommand(r)
         \/ RemoveNew(r) \/ RestoreOpen(r) \/ RestoreFill(r)
BY DEF StepOf, Advance, LooksOnly

LEMMA OthersStay ==
  ASSUME NEW r \in Runners, Framed(r), NEW q \in Runners \ {r}
  PROVE  /\ pc'[q] = pc[q] /\ Step(q)' = Step(q) /\ left'[q] = left[q] /\ snap'[q] = snap[q]
         /\ rollback'[q] = rollback[q] /\ outcome'[q] = outcome[q] /\ stopped'[q] = stopped[q]
         /\ at'[q] = at[q] /\ draft'[q] = draft[q] /\ prog'[q] = prog[q]
BY DEF Framed, SameRunner, Step

(* An invariant of the texts is kept by a step of r if r keeps its part.   *)
LEMMA KeepStep ==
  ASSUME TypeInv, KeepInv, NEW r \in Runners, StepOf(r)
  PROVE  KeepInv'
<1>0. Framed(r) /\ TypeInv' /\ LocalTypes /\ WorkspaceTypes /\ RunnerInv(r) BY StepTypes, PartsOfTypes
<1> SUFFICES ASSUME NoRollback'
             PROVE  /\ \A f \in Files : before'.text[f] # Missing
                                        => Has(text'[f], OrigMark) \/ f \in taken'
                                           \/ \E c \in backups' : c[1] = f /\ Has(c[2], OrigMark)
                    /\ \A q \in Runners : /\ pc'[q] \in {"truncating", "filling"}
                                          /\ before'.text[Step(q)'.file] # Missing
                                          => Saved(Step(q).file)'
  BY DEF KeepInv, Saved
<1>1. NoRollback
  <2>1. rollback[r] = "none" BY RollbacksStay DEF NoRollback
  <2>2. ASSUME NEW q \in Runners \ {r} PROVE rollback[q] = "none"
    BY <1>0, OthersStay DEF NoRollback
  <2> QED BY <2>1, <2>2 DEF NoRollback
<1>2. before' = before BY <1>0 DEF Framed
<1> DEFINE Kept(f) == f \in taken' \/ \E c \in backups' : c[1] = f /\ Has(c[2], OrigMark)
<1>3. \A f \in Files : Saved(f) => Kept(f) BY RollbacksStay DEF Saved
<1>4. \A f \in Files : before.text[f] # Missing => Has(text[f], OrigMark) \/ Saved(f)
  BY <1>1 DEF KeepInv
<1>5. ASSUME NEW q \in Runners, pc[q] \in {"truncating", "filling"}, before.text[Step(q).file] # Missing
      PROVE  Step(q).file \in Files /\ Kept(Step(q).file)
  <2>1. Step(q).file \in Files BY <1>5, StepTyped, PartsOfTypes DEF RunnerInv, Stepping
  <2>2. Saved(Step(q).file) BY <1>1, <1>5 DEF KeepInv
  <2> QED BY <2>1, <2>2, <1>3
<1>6. ASSUME NEW q \in Runners \ {r}, pc'[q] \in {"truncating", "filling"},
             before'.text[Step(q)'.file] # Missing
      PROVE  Saved(Step(q).file)'
  <2>1. pc[q] = pc'[q] /\ Step(q)' = Step(q) BY <1>0, OthersStay
  <2>2. Kept(Step(q).file) BY <1>2, <1>5, <1>6, <2>1
  <2> QED BY <2>1, <2>2 DEF Saved
<1>7. pc[r] \notin RollingBack BY <1>0, <1>1 DEF RunnerInv, NoRollback
<1>8. CASE LooksOnly(r)
  <2>1. text' = text /\ pc'[r] \notin {"truncating", "filling"} BY <1>8, LooksOnlyFacts DEF wsVars
  <2> QED BY <1>2, <1>3, <1>4, <1>6, <2>1
<1>9. CASE Backup(r)
  <2>1. PICK f \in Files : f = Step(r).file BY <1>9, StepTyped, <1>0 DEF RunnerInv, Stepping, Backup
  <2>2. text' = text /\ Step(r)' = Step(r) BY <1>9 DEF Backup, Step
  <2>3. ASSUME Has(text[f], OrigMark) PROVE Kept(f)
    <3>1. <<f, text[f]>> \in backups' BY <1>9, <2>1, <2>3 DEF Backup, Has
    <3> QED BY <3>1, <2>3
  <2>4. before.text[f] # Missing => Kept(f) BY <1>3, <1>4, <2>3
  <2>5. before'.text[Step(r)'.file] # Missing => Saved(Step(r).file)'
    BY <1>2, <2>1, <2>2, <2>4 DEF Saved
  <2> QED BY <1>2, <1>3, <1>4, <1>6, <2>2, <2>5
<1>10. CASE Truncate(r)
  <2>1. PICK f \in Files : f = Step(r).file BY <1>10, <1>0, StepTyped DEF RunnerInv, Stepping, Truncate
  <2>2. /\ Step(r)' = Step(r) /\ backups' = backups /\ pc[r] = "truncating"
        /\ \A g \in Files \ {f} : text'[g] = text[g]
    BY <1>0, <1>10, <2>1 DEF Truncate, Step, WorkspaceTypes
  <2>3. before.text[f] # Missing => Kept(f) BY <1>5, <2>1, <2>2
  <2>4. before'.text[Step(r)'.file] # Missing => Saved(Step(r).file)'
    BY <1>2, <2>1, <2>2, <2>3 DEF Saved
  <2> QED BY <1>2, <1>3, <1>4, <1>6, <2>2, <2>3, <2>4
<1>11. CASE Fill(r)
  <2>1. PICK f \in Files : f = Step(r).file BY <1>11, <1>0, StepTyped DEF RunnerInv, Stepping, Fill
  <2>2. /\ pc[r] = "filling" /\ pc'[r] = "step"
        /\ \A g \in Files \ {f} : text'[g] = text[g]
    BY <1>0, <1>11, <2>1 DEF Fill, Goto, WorkspaceTypes, LocalTypes
  <2>3. before.text[f] # Missing => Kept(f) BY <1>5, <2>1, <2>2
  <2> QED BY <1>2, <1>3, <1>4, <1>6, <2>2, <2>3
<1>12. CASE RunCommand(r)
  <2>1. PICK f \in Files : f = Step(r).file BY <1>12, StepTyped DEF RunCommand
  <2>2. pc'[r] \notin {"truncating", "filling"}
    <3>1. pc[r] = "step" /\ (pc' = pc \/ pc' = [pc EXCEPT ![r] = "rollingBack"] \/ pc' = [pc EXCEPT ![r] = "ended"])
      BY <1>12 DEF RunCommand, StopsAs, Goto
    <3> QED BY <1>0, <3>1 DEF LocalTypes
  <2>3. \A g \in Files : Has(text[g], OrigMark) => Has(text'[g], OrigMark) \/ g \in taken'
    <3>1. PICK t \in Makes(r, text[f]) :
            /\ text' = [text EXCEPT ![f] = t]
            /\ taken' = IF Has(text[f], OrigMark) /\ ~Has(t, OrigMark) THEN taken \cup {f} ELSE taken
      BY <1>12, <2>1 DEF RunCommand
    <3>2. text'[f] = t /\ \A g \in Files \ {f} : text'[g] = text[g]
      BY <1>0, <3>1 DEF WorkspaceTypes
    <3> QED BY <3>1, <3>2
  <2> QED BY <1>2, <1>3, <1>4, <1>6, <2>2, <2>3
<1>13. CASE RemoveNew(r) \/ RestoreOpen(r) \/ RestoreFill(r)
  BY <1>7, <1>13 DEF RemoveNew, RestoreOpen, RestoreFill, RollingBack
<1> QED BY <1>8, <1>9, <1>10, <1>11, <1>12, <1>13, StepsSplit

(* The file actions and patches lose no text that was there before         *)
(* (command_bundle_runner.py:617-759): whatever is truncated or replaced   *)
(* was copied first, at whatever step a runner is killed or fails, and     *)
(* whoever else changes the file, commands that rewrite or delete it       *)
(* included.  What a command destroys before anyone copied it is lost.     *)
THEOREM NothingLostBySteps == Spec => []StepsLoseNothing
<1>1. Init => KeepInv
  <2> SUFFICES ASSUME Init PROVE KeepInv
    OBVIOUS
  <2>1. \A f \in Files : before.text[f] # Missing => text[f] = Orig BY DEF Init
  <2>2. Orig # Missing /\ Has(Orig, OrigMark)
    <3>1. Orig[1] = OrigMark /\ DOMAIN Orig = {1} /\ Missing[1] = <<"missing", 0>>
      BY DEF Orig, Missing
    <3>2. OrigMark # <<"missing", 0>> BY DEF OrigMark
    <3> QED BY <3>1, <3>2 DEF Has, ToSet
  <2>3. \A r \in Runners : pc[r] = "claimed" BY DEF Init
  <2> QED BY <2>1, <2>2, <2>3 DEF KeepInv
<1>2. TypeInv /\ KeepInv /\ [Next]_vars => KeepInv'
  <2>1. Next <=> \E r \in Runners : StepOf(r) BY DEF Next, StepOf
  <2>2. CASE UNCHANGED vars
    BY <2>2 DEF vars, wsVars, KeepInv, NoRollback, Saved, Step
  <2> QED BY <2>1, <2>2, KeepStep
<1>3. KeepInv => StepsLoseNothing
  BY DEF KeepInv, StepsLoseNothing, NoRollback, Recoverable, Saved
<1> QED BY TypeCorrect, <1>1, <1>2, <1>3, PTL DEF Spec

------------------------------------------------------------------------------
(* What a rollback puts back *)

(* Only the runner itself names the targets of its bundle.                 *)
FilesOf(p) == {p[i].file : i \in DOMAIN p}
TargetsApart ==
  \A r, s \in Runners : r # s =>
    \A p \in Programs[r], q \in Programs[s] : Targets(p) \cap FilesOf(q) = {}

(* A snapshot is what was there before the bundle; every target has one    *)
(* when the first step begins; what is no longer left to restore is as it  *)
(* was.                                                                    *)
RestoreInv(r) ==
  /\ \A f \in DOMAIN snap[r] : snap[r][f] = before.text[f]
  /\ pc[r] \in {"claimed", "snapshotting"} => \A f \in Targets(prog[r]) : text[f] = before.text[f]
  /\ pc[r] = "snapshotting" => Targets(prog[r]) \ left[r] \subseteq DOMAIN snap[r]
  /\ pc[r] \in {"step"} \cup Stepping => Targets(prog[r]) \subseteq DOMAIN snap[r]
  /\ pc[r] \in RollingBack /\ rollback[r] = "completed"
       => \A f \in Targets(prog[r]) \ left[r] : text[f] = before.text[f]
  /\ pc[r] = "restoring" => snap[r][NextTarget(r)] # Missing
  /\ pc[r] = "ended" /\ rollback[r] = "completed" =>
       \A f \in Targets(prog[r]) : text[f] = before.text[f]

RestoresInv == \A r \in Runners : RestoreInv(r)

LEMMA TargetsAreNamed ==
  ASSUME NEW p
  PROVE  Targets(p) \subseteq FilesOf(p)
BY DEF Targets, FilesOf

(* A step writes to a file of its bundle only: the one its step names, or  *)
(* a target that is restored.                                              *)
LEMMA WritesOwn ==
  ASSUME TypeInv, NEW r \in Runners, StepOf(r)
  PROVE  \A f \in Files \ FilesOf(prog[r]) : text'[f] = text[f]
<1>0. LocalTypes /\ WorkspaceTypes /\ RunnerInv(r) BY PartsOfTypes
<1>1. CASE LooksOnly(r) \/ Backup(r) BY <1>1, LooksOnlyFacts DEF wsVars, Backup
<1>2. CASE Truncate(r) \/ Fill(r) \/ RunCommand(r)
  <2>1. at[r] \in DOMAIN prog[r]
    BY <1>0, <1>2, StepTyped DEF RunnerInv, Stepping, Truncate, Fill, RunCommand
  <2>2. Step(r).file \in FilesOf(prog[r]) BY <2>1 DEF FilesOf, Step
  <2> QED BY <1>0, <1>2, <2>2 DEF WorkspaceTypes, Truncate, Fill, RunCommand
<1>3. CASE RemoveNew(r) \/ RestoreOpen(r) \/ RestoreFill(r)
  <2>1. left[r] # {} BY <1>0, <1>3 DEF RemoveNew, RestoreOpen, RestoreFill, RunnerInv
  <2>2. NextTarget(r) \in FilesOf(prog[r]) BY <2>1, NextTargetIsLeft, TargetsAreNamed
  <2> QED BY <1>0, <1>3, <2>2 DEF WorkspaceTypes, RemoveNew, RestoreOpen, RestoreFill
<1> QED BY <1>1, <1>2, <1>3, StepsSplit

LEMMA TargetsUndisturbed ==
  ASSUME TypeInv, TargetsApart, NEW r \in Runners, StepOf(r), NEW q \in Runners \ {r}
  PROVE  \A f \in Targets(prog[q]) : text'[f] = text[f]
<1>1. prog[r] \in Programs[r] /\ prog[q] \in Programs[q] BY PartsOfTypes DEF RunnerInv
<1>2. Targets(prog[q]) \cap FilesOf(prog[r]) = {} BY <1>1 DEF TargetsApart
<1>3. Targets(prog[q]) \subseteq Files BY TargetsAreFiles
<1> QED BY <1>2, <1>3, WritesOwn

LEMMA StopsRestorable ==
  ASSUME TypeInv, NEW r \in Runners, RestoreInv(r), pc[r] \in {"step"} \cup Stepping,
         NEW how \in {"failed", "interrupted"}, StopsAs(r, how)
  PROVE  RestoreInv(r)'
<1>0. LocalTypes /\ RunnerInv(r) BY PartsOfTypes
<1>1. rollback[r] = "none" BY <1>0 DEF RunnerInv, Early
<1>2. before' = before /\ snap' = snap /\ prog' = prog BY DEF StopsAs
<1>3. CASE IsActionBundle(prog[r])
  <2>1. pc'[r] = "rollingBack" /\ left'[r] = DOMAIN snap[r]
    BY <1>0, <1>3 DEF StopsAs, Goto, LocalTypes
  <2> QED BY <1>2, <2>1 DEF RestoreInv, Stepping, RollingBack
<1>4. CASE ~IsActionBundle(prog[r])
  <2>1. pc'[r] = "ended" /\ rollback'[r] = rollback[r]
    BY <1>0, <1>4 DEF StopsAs, Goto, LocalTypes
  <2> QED BY <1>1, <1>2, <2>1 DEF RestoreInv, Stepping, RollingBack
<1> QED BY <1>3, <1>4

LEMMA SnapshotRestorable ==
  ASSUME TypeInv, NEW r \in Runners, RestoreInv(r), Snapshot(r)
  PROVE  RestoreInv(r)'
<1>0. LocalTypes /\ RunnerInv(r) BY PartsOfTypes
<1>1. pc[r] = "snapshotting" /\ prog' = prog /\ before' = before /\ text' = text /\ rollback' = rollback
  BY DEF Snapshot, wsVars
<1>2. CASE left[r] = {}
  <2>1. pc'[r] = "step" /\ snap' = snap BY <1>0, <1>2 DEF Snapshot, Goto, LocalTypes
  <2> QED BY <1>1, <1>2, <2>1 DEF RestoreInv, Stepping, RollingBack
<1>3. CASE left[r] # {}
  <2>1. PICK f \in Files : f = NextTarget(r) /\ f \in Targets(prog[r]) BY <1>3, NextTargetIsLeft
  <2> DEFINE more == [g \in DOMAIN snap[r] \cup {f} |-> IF g = f THEN text[f] ELSE snap[r][g]]
  <2>2. snap' = [snap EXCEPT ![r] = more] /\ left' = [left EXCEPT ![r] = @ \ {f}] /\ pc' = pc
    BY <1>3, <2>1 DEF Snapshot
  <2>3. DOMAIN more = DOMAIN snap[r] \cup {f} /\ \A g \in DOMAIN more : more[g] = before.text[g]
    BY <1>1, <2>1 DEF RestoreInv
  <2> HIDE DEF more
  <2>4. snap'[r] = more /\ left'[r] = left[r] \ {f} BY <1>0, <2>2 DEF LocalTypes
  <2> QED BY <1>1, <2>2, <2>3, <2>4 DEF RestoreInv, Stepping, RollingBack
<1> QED BY <1>2, <1>3

LEMMA RollbackRestorable ==
  ASSUME TypeInv, NEW r \in Runners, RestoreInv(r),
         RemoveNew(r) \/ RestoreOpen(r) \/ RestoreFill(r) \/ RestoreFails(r) \/ RolledBack(r)
  PROVE  RestoreInv(r)'
<1>0. LocalTypes /\ WorkspaceTypes /\ RunnerInv(r) BY PartsOfTypes
<1>1. /\ pc[r] \in RollingBack /\ prog' = prog /\ before' = before /\ snap' = snap
  BY DEF RemoveNew, RestoreOpen, RestoreFill, RestoreFails, RolledBack, RollingBack
<1>2. CASE RolledBack(r)
  <2>1. left[r] = {} /\ pc'[r] = "ended" /\ text' = text /\ rollback' = rollback
    BY <1>0, <1>2 DEF RolledBack, Goto, LocalTypes, wsVars
  <2> QED BY <1>1, <2>1 DEF RestoreInv, Stepping, RollingBack
<1>3. CASE RestoreFails(r)
  <2>1. rollback'[r] = "failed" /\ pc'[r] = "rollingBack"
    BY <1>0, <1>3 DEF RestoreFails, Goto, LocalTypes
  <2> QED BY <1>1, <2>1 DEF RestoreInv, Stepping, RollingBack
<1>4. CASE RemoveNew(r) \/ RestoreOpen(r) \/ RestoreFill(r)
  <2>1. left[r] # {} BY <1>0, <1>4 DEF RemoveNew, RestoreOpen, RestoreFill, RunnerInv
  <2>2. PICK f \in Files : f = NextTarget(r) /\ f \in left[r] /\ f \in DOMAIN snap[r]
    BY <1>0, <1>1, <2>1, NextTargetIsLeft DEF RunnerInv
  <2>3. snap[r][f] = before.text[f] BY <2>2 DEF RestoreInv
  <2>4. \A g \in Files \ {f} : text'[g] = text[g]
    BY <1>0, <1>4, <2>2 DEF RemoveNew, RestoreOpen, RestoreFill, WorkspaceTypes
  <2>5. rollback' = rollback /\ Targets(prog[r]) \subseteq Files
    BY <1>4, TargetsAreFiles DEF RemoveNew, RestoreOpen, RestoreFill
  <2>6. CASE RemoveNew(r) \/ RestoreFill(r)
    <3>1. pc'[r] = "rollingBack" /\ left'[r] = left[r] \ {f} /\ text'[f] = before.text[f]
      BY <1>0, <2>2, <2>3, <2>6 DEF RemoveNew, RestoreFill, Goto, LocalTypes, WorkspaceTypes
    <3> QED BY <1>1, <2>4, <2>5, <3>1 DEF RestoreInv, Stepping, RollingBack
  <2>7. CASE RestoreOpen(r)
    <3>1. pc'[r] = "restoring" /\ left' = left /\ snap[r][f] # Missing
      BY <1>0, <2>2, <2>7 DEF RestoreOpen, Goto, LocalTypes
    <3>2. NextTarget(r)' = f BY <1>1, <2>2, <3>1 DEF NextTarget
    <3> QED BY <1>1, <2>2, <2>4, <2>5, <3>1, <3>2 DEF RestoreInv, Stepping, RollingBack
  <2> QED BY <1>4, <2>6, <2>7
<1> QED BY <1>2, <1>3, <1>4

LEMMA OwnRestorable ==
  ASSUME TypeInv, NEW r \in Runners, RestoreInv(r), StepOf(r)
  PROVE  RestoreInv(r)'
<1>0. LocalTypes /\ WorkspaceTypes /\ RunnerInv(r) BY PartsOfTypes
<1>1. CASE Begin(r)
  <2>1. /\ pc[r] = "claimed" /\ prog' = prog /\ before' = before /\ snap' = snap /\ text' = text
        /\ rollback' = rollback /\ rollback[r] = "none"
    BY <1>0, <1>1 DEF Begin, wsVars, RunnerInv, Early
  <2>2. CASE IsActionBundle(prog[r])
    <3>1. pc'[r] = "snapshotting" /\ left'[r] = Targets(prog[r])
      BY <1>0, <1>1, <2>2 DEF Begin, Goto, LocalTypes
    <3> QED BY <2>1, <3>1 DEF RestoreInv, Stepping, RollingBack
  <2>3. CASE ~IsActionBundle(prog[r])
    <3>1. pc'[r] = "step" /\ Targets(prog[r]) = {}
      BY <1>0, <1>1, <2>3 DEF Begin, Goto, LocalTypes, IsActionBundle
    <3> QED BY <2>1, <3>1 DEF RestoreInv, Stepping, RollingBack
  <2> QED BY <2>2, <2>3
<1>2. CASE Snapshot(r) BY <1>2, SnapshotRestorable
<1>3. ASSUME NEW how \in {"failed", "interrupted"}, SnapshotFails(r, how) PROVE RestoreInv(r)'
  <2>1. /\ pc[r] = "snapshotting" /\ prog' = prog /\ before' = before /\ text' = text
        /\ pc'[r] = "rollingBack" /\ DOMAIN snap'[r] = {}
    BY <1>0, <1>3 DEF SnapshotFails, wsVars, Goto, LocalTypes
  <2> QED BY <2>1 DEF RestoreInv, Stepping, RollingBack
<1>4. CASE StepRefused(r) \/ StepFails(r) \/ Interrupt(r)
  BY <1>4, StopsRestorable DEF StepRefused, StepFails, Interrupt, Stepping
<1>5. CASE CheckStep(r) \/ Backup(r) \/ Truncate(r) \/ Fill(r)
  <2>1. /\ pc[r] \in {"step"} \cup Stepping /\ prog' = prog /\ before' = before /\ snap' = snap
        /\ pc'[r] \in {"step"} \cup Stepping
    BY <1>0, <1>5 DEF CheckStep, Backup, Truncate, Fill, Goto, LocalTypes, Stepping
  <2> QED BY <2>1 DEF RestoreInv, Stepping, RollingBack
<1>6. CASE RunCommand(r)
  <2>1. CASE StopsAs(r, "failed") BY <1>6, <2>1, StopsRestorable DEF RunCommand
  <2>2. CASE UNCHANGED <<prog, before, pc, snap, draft, left, outcome, rollback, stopped>>
    BY <1>6, <2>2 DEF RestoreInv, RunCommand, Stepping, RollingBack
  <2> QED BY <1>6, <2>1, <2>2 DEF RunCommand
<1>7. CASE AllApplied(r)
  <2>1. /\ rollback[r] = "none" /\ rollback' = rollback /\ prog' = prog /\ before' = before /\ snap' = snap
        /\ pc'[r] = "ended"
    BY <1>0, <1>7 DEF AllApplied, Goto, LocalTypes, RunnerInv, Early
  <2> QED BY <2>1 DEF RestoreInv, Stepping, RollingBack
<1>8. CASE Kill(r)
  <2>1. prog' = prog /\ before' = before /\ snap' = snap /\ pc'[r] = "killed"
    BY <1>0, <1>8 DEF Kill, Goto, LocalTypes
  <2> QED BY <2>1 DEF RestoreInv, Stepping, RollingBack
<1> QED BY <1>1, <1>2, <1>3, <1>4, <1>5, <1>6, <1>7, <1>8, RollbackRestorable DEF StepOf, Advance

LEMMA OthersRestorable ==
  ASSUME TypeInv, TargetsApart, NEW r \in Runners, StepOf(r), NEW q \in Runners \ {r}, RestoreInv(q)
  PROVE  RestoreInv(q)'
<1>1. Framed(r) /\ \A f \in Targets(prog[q]) : text'[f] = text[f] BY StepTypes, TargetsUndisturbed
<1>2. /\ before' = before /\ pc'[q] = pc[q] /\ left'[q] = left[q] /\ snap'[q] = snap[q]
      /\ rollback'[q] = rollback[q] /\ prog'[q] = prog[q]
  BY <1>1, OthersStay DEF Framed
<1>3. NextTarget(q)' = NextTarget(q) BY <1>2 DEF NextTarget
<1> QED BY <1>1, <1>2, <1>3 DEF RestoreInv

LEMMA RestoresKept ==
  ASSUME TargetsApart
  PROVE  Spec => []RestoresInv
<1>1. Init => RestoresInv
  <2> SUFFICES ASSUME Init, NEW r \in Runners PROVE RestoreInv(r)
    BY DEF RestoresInv
  <2>1. pc[r] = "claimed" /\ before.text = text /\ DOMAIN snap[r] = {} BY DEF Init
  <2> QED BY <2>1 DEF RestoreInv, Stepping, RollingBack
<1>2. TypeInv /\ RestoresInv /\ [Next]_vars => RestoresInv'
  <2> SUFFICES ASSUME TypeInv, RestoresInv, [Next]_vars PROVE RestoresInv'
    OBVIOUS
  <2>1. CASE UNCHANGED vars
    BY <2>1 DEF vars, wsVars, RestoresInv, RestoreInv, NextTarget
  <2>2. CASE Next
    <3>1. PICK r \in Runners : StepOf(r) BY <2>2 DEF Next, StepOf
    <3>2. ASSUME NEW q \in Runners PROVE RestoreInv(q)'
      BY <3>1, OwnRestorable, OthersRestorable DEF RestoresInv
    <3> QED BY <3>2 DEF RestoresInv
  <2> QED BY <2>1, <2>2
<1> QED BY TypeCorrect, <1>1, <1>2, PTL DEF Spec

(* A runner that reports a completed rollback left every target of its     *)
(* bundle as it found it (command_bundle_runner.py:399-431), wherever it   *)
(* failed or was interrupted, as long as no other bundle names one of its  *)
(* targets: two bundles that change one file are not kept apart by the     *)
(* runner (RollbackOnlyOwn).                                               *)
THEOREM CompletedRollbackRestores ==
  ASSUME TargetsApart
  PROVE  Spec => []RollbackRestores
<1>1. RestoresInv => RollbackRestores BY DEF RestoresInv, RestoreInv, RollbackRestores
<1> QED BY RestoresKept, <1>1, PTL

------------------------------------------------------------------------------
(* What an applied bundle has made of its targets *)

(* The recursive function of TextsAfter obeys its equations: a least i up  *)
(* to which no function does would have a predecessor with one to extend.  *)
LEMMA TextsAfterUnfold ==
  ASSUME NEW r, NEW p \in Seq(Steps), NEW f, NEW first
  PROVE  /\ TextsAfter(r, p, f, first)[0] = first
         /\ \A i \in 1..Len(p) : TextsAfter(r, p, f, first)[i] = Effect(r, p, f, i, TextsAfter(r, p, f, first)[i - 1])
<1> DEFINE Body(g) == [i \in 0..Len(p) |-> IF i = 0 THEN first ELSE Effect(r, p, f, i, g[i - 1])]
           Upto(h, k) == /\ h = [i \in 0..k |-> h[i]] /\ h[0] = first
                         /\ \A i \in 1..k : h[i] = Effect(r, p, f, i, h[i - 1])
           Bad == {k \in 0..Len(p) : ~\E h : Upto(h, k)}
<1>0. Len(p) \in Nat OBVIOUS
<1>1. Bad = {}
  <2> SUFFICES ASSUME Bad # {} PROVE FALSE
    OBVIOUS
  <2>1. PICK m \in Bad : \A n \in Bad : m <= n
    <3>1. Bad \in SUBSET Nat /\ Bad # {} BY <1>0
    <3> HIDE DEF Bad
    <3> QED BY <3>1, LeastNatural
  <2>2. m # 0
    <3> DEFINE h == [i \in 0..0 |-> first]
    <3>1. \A i \in 0..0 : h[i] = first OBVIOUS
    <3>2. h = [i \in 0..0 |-> h[i]] BY <3>1
    <3>3. 0 \in 0..0 /\ 1..0 = {} OBVIOUS
    <3>4. Upto(h, 0) BY <3>1, <3>2, <3>3
    <3> QED BY <2>1, <3>4
  <2>3. m - 1 \in 0..Len(p) /\ m - 1 \notin Bad BY <1>0, <2>1, <2>2
  <2>4. PICK h : Upto(h, m - 1) BY <2>3
  <2> DEFINE next == Effect(r, p, f, m, h[m - 1])
             g == [i \in 0..m |-> IF i = m THEN next ELSE h[i]]
  <2>5. Upto(g, m)
    <3> HIDE DEF next
    <3>1. g = [i \in 0..m |-> g[i]] /\ g[0] = first BY <1>0, <2>1, <2>2, <2>4
    <3>2. \A i \in 0..(m - 1) : g[i] = h[i] BY <1>0, <2>1
    <3>3. ASSUME NEW i \in 1..m PROVE g[i] = Effect(r, p, f, i, g[i - 1])
      <4>1. CASE i = m
        <5>1. g[i - 1] = h[m - 1] BY <1>0, <2>1, <2>2, <3>2, <4>1
        <5>2. g[i] = next BY <4>1, <2>1, <1>0
        <5> QED BY <4>1, <5>1, <5>2 DEF next
      <4>2. CASE i # m
        <5>1. i \in 1..(m - 1) /\ i - 1 \in 0..(m - 1) /\ i \in 0..(m - 1) BY <4>2, <2>1, <1>0
        <5> HIDE DEF g
        <5> QED BY <2>4, <3>2, <5>1
      <4> QED BY <4>1, <4>2
    <3> HIDE DEF g
    <3> QED BY <3>1, <3>3
  <2> QED BY <2>1, <2>5
<1>2. PICK h : Upto(h, Len(p)) BY <1>0, <1>1
<1>3. h = Body(h)
  <2>1. h = [i \in 0..Len(p) |-> h[i]] BY <1>2
  <2>2. \A i \in 0..Len(p) : h[i] = IF i = 0 THEN first ELSE Effect(r, p, f, i, h[i - 1]) BY <1>0, <1>2
  <2> QED BY <2>1, <2>2
<1>4. TextsAfter(r, p, f, first) = CHOOSE g : g = Body(g) BY DEF TextsAfter
<1>5. TextsAfter(r, p, f, first) = Body(TextsAfter(r, p, f, first))
  <2> HIDE DEF Body
  <2> QED BY <1>3, <1>4
<1> QED BY <1>0, <1>5

Truncates(s) == s.kind \in {"write_file", "overwrite", "replace_text"}
After(r, f) == TextsAfter(r, prog[r], f, before.text[f])

(* Before each step every target that the bundle's commands leave alone is *)
(* what the steps so far make of it, and so is the draft of a step.        *)
AppliedInv(r) ==
  /\ pc[r] \in Stepping => Step(r).kind # "command"
  /\ pc[r] = "truncating" => Truncates(Step(r))
  /\ pc[r] \in {"claimed", "snapshotting", "step", "backup", "truncating"} =>
       \A f \in Settled(prog[r]) : text[f] = After(r, f)[at[r] - 1]
  /\ pc[r] = "filling" =>
       \A f \in Settled(prog[r]) :
         (f = Step(r).file => ~Truncates(Step(r))) => text[f] = After(r, f)[at[r] - 1]
  /\ pc[r] \in Stepping /\ Truncates(Step(r)) /\ Step(r).file \in Settled(prog[r]) =>
       draft[r] = Effect(r, prog[r], Step(r).file, at[r], After(r, Step(r).file)[at[r] - 1])
  /\ outcome[r] = "applied" =>
       pc[r] = "ended" /\ \A f \in Settled(prog[r]) : text[f] = After(r, f)[Len(prog[r])]

AppliedsInv == \A r \in Runners : AppliedInv(r)

LEMMA AfterStep ==
  ASSUME TypeInv, NEW r \in Runners, NEW f
  PROVE  /\ After(r, f)[0] = before.text[f]
         /\ at[r] <= Len(prog[r]) =>
              After(r, f)[at[r]] = Effect(r, prog[r], f, at[r], After(r, f)[at[r] - 1])
<1>1. prog[r] \in Seq(Steps) /\ at[r] \in 1..(Len(prog[r]) + 1) BY PartsOfTypes DEF RunnerInv
<1>2. at[r] <= Len(prog[r]) => at[r] \in 1..Len(prog[r]) BY <1>1
<1> QED BY <1>1, <1>2, TextsAfterUnfold DEF After

LEMMA AfterStays ==
  ASSUME NEW r, NEW f, prog'[r] = prog[r], before' = before
  PROVE  After(r, f)' = After(r, f)
BY DEF After

LEMMA SettledAreTargets ==
  ASSUME TypeInv, NEW r \in Runners
  PROVE  Settled(prog[r]) \subseteq Targets(prog[r]) /\ Settled(prog[r]) \subseteq Files
BY TargetsAreFiles DEF Settled

LEMMA StopsUnapplied ==
  ASSUME TypeInv, NEW r \in Runners, NEW how \in {"failed", "interrupted"}, StopsAs(r, how)
  PROVE  AppliedInv(r)'
<1>0. LocalTypes BY PartsOfTypes
<1>1. pc' = [pc EXCEPT ![r] = "rollingBack"] \/ pc' = [pc EXCEPT ![r] = "ended"]
  BY DEF StopsAs, Goto
<1>2. pc'[r] \in {"rollingBack", "ended"} BY <1>0, <1>1 DEF LocalTypes
<1>3. outcome'[r] = how BY <1>0 DEF StopsAs, LocalTypes
<1> QED BY <1>2, <1>3 DEF AppliedInv, Stepping

(* The steps that leave the targets alone.                                 *)
LEMMA CheckApplies ==
  ASSUME TypeInv, NEW r \in Runners, AppliedInv(r), CheckStep(r)
  PROVE  AppliedInv(r)'
<1>0. LocalTypes /\ RunnerInv(r) /\ Framed(r) BY PartsOfTypes, CheckStepTypes
<1>1. /\ pc[r] = "step" /\ pc'[r] = "backup" /\ at' = at /\ prog' = prog /\ before' = before
      /\ text' = text /\ outcome' = outcome /\ draft'[r] = Draft(r, Step(r))
      /\ Step(r).kind # "command" /\ at[r] <= Len(prog[r])
  BY <1>0 DEF CheckStep, Goto, LocalTypes, wsVars
<1>2. Step(r)' = Step(r) BY <1>1 DEF Step
<1>3. ASSUME Truncates(Step(r)), Step(r).file \in Settled(prog[r])
      PROVE  draft'[r] = Effect(r, prog[r], Step(r).file, at[r], After(r, Step(r).file)[at[r] - 1])
  <2>2. text[Step(r).file] = After(r, Step(r).file)[at[r] - 1] BY <1>1, <1>3 DEF AppliedInv
  <2>3. Step(r) = prog[r][at[r]] /\ Mark(r) = <<r, at[r]>> BY DEF Step, Mark
  <2>4. Draft(r, Step(r)) =
          IF Step(r).kind = "replace_text" THEN Replaced(text[Step(r).file], Mark(r)) ELSE <<Mark(r)>>
    BY DEF Draft
  <2> QED BY <1>1, <1>3, <2>2, <2>3, <2>4 DEF Effect, Truncates
<1>4. \A f : After(r, f)' = After(r, f) BY <1>1, AfterStays
<1>5. outcome[r] # "applied" BY <1>1 DEF AppliedInv
<1>6. draft'[r] = Effect(r, prog[r], Step(r).file, at[r], After(r, Step(r).file)[at[r] - 1])
      \/ ~(Truncates(Step(r)) /\ Step(r).file \in Settled(prog[r]))
  BY <1>3
<1>7. \A f \in Settled(prog[r]) : text[f] = After(r, f)[at[r] - 1] BY <1>1 DEF AppliedInv
<1> QED BY <1>1, <1>2, <1>4, <1>5, <1>6, <1>7 DEF AppliedInv, Stepping, After

LEMMA BackupApplies ==
  ASSUME TypeInv, NEW r \in Runners, AppliedInv(r), Backup(r)
  PROVE  AppliedInv(r)'
<1>0. LocalTypes BY PartsOfTypes
<1>1. /\ pc[r] = "backup" /\ at' = at /\ prog' = prog /\ before' = before /\ draft' = draft
      /\ text' = text /\ outcome' = outcome
      /\ pc'[r] = IF Step(r).kind \in {"append_file", "apply_patch"} THEN "filling" ELSE "truncating"
  BY <1>0 DEF Backup, Goto, LocalTypes
<1>2. Step(r)' = Step(r) BY <1>1 DEF Step
<1>3. Step(r).kind \in Kinds /\ Step(r).kind # "command"
  BY <1>1, StepTyped, PartsOfTypes DEF AppliedInv, Stepping, RunnerInv
<1>4. Step(r).kind \notin {"append_file", "apply_patch"} => Truncates(Step(r))
  BY <1>3 DEF Truncates, Kinds, FileKinds
<1>5. \A f : After(r, f)' = After(r, f) BY <1>1, AfterStays
<1>6. outcome[r] # "applied" BY <1>1 DEF AppliedInv
<1>7. \A f \in Settled(prog[r]) : text[f] = After(r, f)[at[r] - 1] BY <1>1 DEF AppliedInv
<1>8. Truncates(Step(r)) /\ Step(r).file \in Settled(prog[r]) =>
        draft[r] = Effect(r, prog[r], Step(r).file, at[r], After(r, Step(r).file)[at[r] - 1])
  BY <1>1 DEF AppliedInv, Stepping
<1> QED BY <1>1, <1>2, <1>3, <1>4, <1>5, <1>6, <1>7, <1>8 DEF AppliedInv, Stepping, After

LEMMA TruncateApplies ==
  ASSUME TypeInv, NEW r \in Runners, AppliedInv(r), Truncate(r)
  PROVE  AppliedInv(r)'
<1>0. LocalTypes /\ WorkspaceTypes BY PartsOfTypes
<1>1. /\ pc[r] = "truncating" /\ at' = at /\ prog' = prog /\ before' = before /\ draft' = draft
      /\ outcome' = outcome /\ pc'[r] = "filling"
      /\ \A f \in Files : f # Step(r).file => text'[f] = text[f]
  BY <1>0 DEF Truncate, Goto, LocalTypes, WorkspaceTypes
<1>2. Step(r)' = Step(r) /\ Step(r).kind # "command" /\ Truncates(Step(r))
  BY <1>1 DEF Step, AppliedInv, Stepping
<1>3. \A f : After(r, f)' = After(r, f) BY <1>1, AfterStays
<1>4. outcome[r] # "applied" BY <1>1 DEF AppliedInv
<1>5. \A f \in Settled(prog[r]) : text[f] = After(r, f)[at[r] - 1] BY <1>1 DEF AppliedInv
<1>6. Step(r).file \in Settled(prog[r]) =>
        draft[r] = Effect(r, prog[r], Step(r).file, at[r], After(r, Step(r).file)[at[r] - 1])
  BY <1>1, <1>2 DEF AppliedInv, Stepping
<1>7. \A f \in Settled(prog[r]) : f # Step(r).file => text'[f] = After(r, f)[at[r] - 1]
  BY <1>1, <1>5, SettledAreTargets
<1> QED BY <1>1, <1>2, <1>3, <1>4, <1>6, <1>7 DEF AppliedInv, Stepping, After

LEMMA FillApplies ==
  ASSUME TypeInv, NEW r \in Runners, AppliedInv(r), Fill(r)
  PROVE  AppliedInv(r)'
<1>0. LocalTypes /\ WorkspaceTypes /\ RunnerInv(r) BY PartsOfTypes
<1>1. /\ pc[r] = "filling" /\ at'[r] = at[r] + 1 /\ prog' = prog /\ before' = before
      /\ outcome' = outcome /\ pc'[r] = "step" /\ at[r] <= Len(prog[r])
      /\ \A f \in Files : text'[f] = IF f = Step(r).file THEN Filled(r) ELSE text[f]
  BY <1>0 DEF Fill, Goto, LocalTypes, WorkspaceTypes, RunnerInv, Stepping
<1>2. Step(r).kind \in Kinds /\ Step(r).kind # "command" /\ Step(r) = prog[r][at[r]]
  BY <1>1, StepTyped DEF AppliedInv, Stepping, Step
<1>3. \A f : After(r, f)' = After(r, f) BY <1>1, AfterStays
<1>4. outcome[r] # "applied" BY <1>1 DEF AppliedInv
<1>5. ASSUME NEW f \in Settled(prog[r]) PROVE text'[f] = After(r, f)[at[r]]
  <2>1. f \in Files BY SettledAreTargets
  <2>2. After(r, f)[at[r]] = Effect(r, prog[r], f, at[r], After(r, f)[at[r] - 1])
    BY <1>1, AfterStep
  <2>3. CASE f # Step(r).file
    <3>1. text'[f] = After(r, f)[at[r] - 1] BY <1>1, <2>1, <2>3 DEF AppliedInv
    <3> QED BY <1>2, <2>2, <2>3, <3>1 DEF Effect
  <2>4. CASE f = Step(r).file /\ Truncates(Step(r))
    <3>1. text'[f] = draft[r] BY <1>1, <2>1, <2>4 DEF Filled, Truncates
    <3>2. draft[r] = Effect(r, prog[r], f, at[r], After(r, f)[at[r] - 1])
      BY <1>1, <2>4 DEF AppliedInv, Stepping
    <3> QED BY <2>2, <3>1, <3>2
  <2>5. CASE f = Step(r).file /\ ~Truncates(Step(r))
    <3>1. text[f] = After(r, f)[at[r] - 1] BY <1>1, <2>5 DEF AppliedInv
    <3>2. Step(r).kind = "append_file" \/ Step(r).kind = "apply_patch"
      BY <1>2, <2>5 DEF Truncates, Kinds, FileKinds
    <3>3. Mark(r) = <<r, at[r]>> BY DEF Mark
    <3>4. text'[f] = Filled(r) BY <1>1, <2>1, <2>5
    <3>5. CASE Step(r).kind = "append_file"
      BY <1>2, <2>2, <2>5, <3>1, <3>3, <3>4, <3>5 DEF Filled, Effect
    <3>6. CASE Step(r).kind = "apply_patch"
      BY <1>2, <2>2, <2>5, <3>1, <3>3, <3>4, <3>6 DEF Filled, Effect
    <3> QED BY <3>2, <3>5, <3>6
  <2> QED BY <2>3, <2>4, <2>5
<1>6. at'[r] - 1 = at[r] BY <1>0, <1>1 DEF LocalTypes
<1> QED BY <1>1, <1>3, <1>4, <1>5, <1>6 DEF AppliedInv, Stepping, After

LEMMA CommandApplies ==
  ASSUME TypeInv, NEW r \in Runners, AppliedInv(r), RunCommand(r)
  PROVE  AppliedInv(r)'
<1>0. LocalTypes /\ WorkspaceTypes /\ RunnerInv(r) BY PartsOfTypes
<1>1. CASE StopsAs(r, "failed") BY <1>1, StopsUnapplied
<1>2. CASE at' = [at EXCEPT ![r] = @ + 1]
           /\ UNCHANGED <<prog, before, pc, snap, draft, left, outcome, rollback, stopped>>
  <2>1. /\ pc[r] = "step" /\ pc' = pc /\ at'[r] = at[r] + 1 /\ at[r] \in Nat /\ prog' = prog
        /\ before' = before /\ outcome' = outcome /\ at[r] <= Len(prog[r])
    BY <1>0, <1>2 DEF RunCommand, LocalTypes
  <2>2. Step(r).kind = "command" /\ Step(r) = prog[r][at[r]] /\ at[r] \in DOMAIN prog[r]
    BY <2>1, StepTyped DEF RunCommand, Step
  <2>3. Step(r).file \notin Settled(prog[r]) BY <2>2 DEF Settled, CommandFiles
  <2>4. \A f : After(r, f)' = After(r, f) BY <2>1, AfterStays
  <2>5. outcome[r] # "applied" BY <2>1 DEF AppliedInv
  <2>6. ASSUME NEW f \in Settled(prog[r]) PROVE text'[f] = After(r, f)[at[r]]
    <3>1. f \in Files /\ f # Step(r).file BY <2>3, SettledAreTargets
    <3>2. text'[f] = text[f] BY <1>0, <3>1 DEF RunCommand, WorkspaceTypes
    <3>3. text[f] = After(r, f)[at[r] - 1] BY <2>1 DEF AppliedInv
    <3>4. After(r, f)[at[r]] = Effect(r, prog[r], f, at[r], After(r, f)[at[r] - 1])
      BY <2>1, AfterStep
    <3> QED BY <2>2, <3>1, <3>2, <3>3, <3>4 DEF Effect
  <2>7. at'[r] - 1 = at[r] BY <2>1
  <2> QED BY <2>1, <2>4, <2>5, <2>6, <2>7 DEF AppliedInv, Stepping, After
<1> QED BY <1>1, <1>2 DEF RunCommand

LEMMA OwnApplied ==
  ASSUME TypeInv, NEW r \in Runners, AppliedInv(r), StepOf(r)
  PROVE  AppliedInv(r)'
<1>0. LocalTypes /\ WorkspaceTypes /\ RunnerInv(r) BY PartsOfTypes
<1>1. CASE Begin(r) \/ Snapshot(r)
  <2>1. /\ pc[r] \in {"claimed", "snapshotting"} /\ at' = at /\ prog' = prog /\ before' = before
        /\ text' = text /\ outcome' = outcome
    BY <1>1 DEF Begin, Snapshot, wsVars
  <2>2. pc'[r] \in {"snapshotting", "step"}
    <3>1. \/ pc' = [pc EXCEPT ![r] = "snapshotting"] \/ pc' = [pc EXCEPT ![r] = "step"]
          \/ pc[r] = "snapshotting" /\ pc' = pc
      BY <1>1 DEF Begin, Snapshot, Goto
    <3> QED BY <1>0, <3>1 DEF LocalTypes
  <2>3. \A f : After(r, f)' = After(r, f) BY <2>1, AfterStays
  <2>4. outcome[r] # "applied" BY <2>1 DEF AppliedInv
  <2>5. \A f \in Settled(prog[r]) : text[f] = After(r, f)[at[r] - 1] BY <2>1 DEF AppliedInv
  <2> QED BY <2>1, <2>2, <2>3, <2>4, <2>5 DEF AppliedInv, Stepping, After
<1>2. CASE StepRefused(r) \/ StepFails(r) \/ Interrupt(r)
  BY <1>2, StopsUnapplied DEF StepRefused, StepFails, Interrupt
<1>3. ASSUME NEW how \in {"failed", "interrupted"}, SnapshotFails(r, how) PROVE AppliedInv(r)'
  <2>1. pc'[r] = "rollingBack" /\ outcome'[r] = how
    BY <1>0, <1>3 DEF SnapshotFails, Goto, LocalTypes
  <2> QED BY <2>1 DEF AppliedInv, Stepping
<1>4. CASE RemoveNew(r) \/ RestoreOpen(r) \/ RestoreFill(r) \/ RestoreFails(r) \/ RolledBack(r)
  <2>1. pc[r] \in RollingBack /\ outcome' = outcome /\ pc'[r] \in RollingBack \cup {"ended"}
    BY <1>0, <1>4 DEF RemoveNew, RestoreOpen, RestoreFill, RestoreFails, RolledBack, Goto,
      LocalTypes, RollingBack
  <2>2. outcome'[r] # "applied" BY <1>0, <2>1 DEF RunnerInv
  <2> QED BY <2>1, <2>2 DEF AppliedInv, Stepping, RollingBack
<1>5. CASE Kill(r)
  <2>1. pc[r] # "ended" /\ pc'[r] = "killed" /\ outcome' = outcome
    BY <1>0, <1>5 DEF Kill, Goto, LocalTypes
  <2> QED BY <2>1 DEF AppliedInv, Stepping
<1>6. CASE AllApplied(r)
  <2>1. /\ pc[r] = "step" /\ pc'[r] = "ended" /\ text' = text /\ prog' = prog /\ before' = before
        /\ at[r] > Len(prog[r])
    BY <1>0, <1>6 DEF AllApplied, Goto, LocalTypes, wsVars
  <2>2. at[r] - 1 = Len(prog[r])
    <3>1. prog[r] \in Seq(Steps) BY PartsOfTypes
    <3>2. Len(prog[r]) \in Nat /\ at[r] \in 1..(Len(prog[r]) + 1) BY <1>0, <3>1 DEF RunnerInv
    <3> QED BY <2>1, <3>2
  <2>3. \A f : After(r, f)' = After(r, f) BY <2>1, AfterStays
  <2>4. \A f \in Settled(prog[r]) : text[f] = After(r, f)[at[r] - 1] BY <2>1 DEF AppliedInv
  <2> QED BY <2>1, <2>2, <2>3, <2>4 DEF AppliedInv, Stepping, After
<1>7. CASE CheckStep(r) \/ Backup(r) \/ Truncate(r) \/ Fill(r) \/ RunCommand(r)
  BY <1>7, CheckApplies, BackupApplies, TruncateApplies, FillApplies, CommandApplies
<1> QED BY <1>1, <1>2, <1>3, <1>4, <1>5, <1>6, <1>7 DEF StepOf, Advance

LEMMA OthersApplied ==
  ASSUME TypeInv, TargetsApart, NEW r \in Runners, StepOf(r), NEW q \in Runners \ {r}, AppliedInv(q)
  PROVE  AppliedInv(q)'
<1>1. Framed(r) /\ \A f \in Settled(prog[q]) : text'[f] = text[f]
  BY StepTypes, TargetsUndisturbed, SettledAreTargets
<1>2. /\ before' = before /\ pc'[q] = pc[q] /\ at'[q] = at[q] /\ draft'[q] = draft[q]
      /\ outcome'[q] = outcome[q] /\ prog'[q] = prog[q] /\ Step(q)' = Step(q)
  BY <1>1, OthersStay DEF Framed
<1>3. \A f : After(q, f)' = After(q, f) BY <1>2, AfterStays
<1> QED BY <1>1, <1>2, <1>3 DEF AppliedInv, After

(* A bundle reported as applied has had the effect of all its steps, one   *)
(* after the other, on each of its targets (command_bundle_runner.py:831-  *)
(* 917) that its own commands leave alone, as long as no other bundle      *)
(* names them.                                                             *)
THEOREM AppliedHasAllEffects ==
  ASSUME TargetsApart
  PROVE  Spec => []AppliedMeansAll
<1>1. Init /\ TypeInv => AppliedsInv
  <2> SUFFICES ASSUME Init, TypeInv, NEW r \in Runners PROVE AppliedInv(r)
    BY DEF AppliedsInv
  <2>1. pc[r] = "claimed" /\ before.text = text /\ at[r] = 1 /\ outcome[r] = "none" BY DEF Init
  <2>2. \A f \in Settled(prog[r]) : text[f] = After(r, f)[at[r] - 1] BY <2>1, AfterStep
  <2> QED BY <2>1, <2>2 DEF AppliedInv, Stepping
<1>2. TypeInv /\ AppliedsInv /\ [Next]_vars => AppliedsInv'
  <2> SUFFICES ASSUME TypeInv, AppliedsInv, [Next]_vars PROVE AppliedsInv'
    OBVIOUS
  <2>1. CASE UNCHANGED vars
    BY <2>1 DEF vars, wsVars, AppliedsInv, AppliedInv, Step, After
  <2>2. CASE Next
    <3>1. PICK r \in Runners : StepOf(r) BY <2>2 DEF Next, StepOf
    <3>2. ASSUME NEW q \in Runners PROVE AppliedInv(q)'
      BY <3>1, OwnApplied, OthersApplied DEF AppliedsInv
    <3> QED BY <3>2 DEF AppliedsInv
  <2> QED BY <2>1, <2>2
<1>3. AppliedsInv => AppliedMeansAll
  BY DEF AppliedsInv, AppliedInv, AppliedMeansAll, Meaning, After
<1> QED BY TypeCorrect, InitTypes, <1>1, <1>2, <1>3, PTL DEF Spec
------------------------------------------------------------------------------
(* The directories *)

(* A command needs no directory of its own.                                *)
CommandsInPlace ==
  \A r \in Runners : \A p \in Programs[r] : \A i \in DOMAIN p :
    p[i].kind = "command" => Folder[p[i].file] = "."

(* A runner writes texts; the file it patches or restores is there.        *)
DraftInv(r) ==
  /\ pc[r] \in Early => stopped[r] = "none"
  /\ pc[r] \in Stepping => draft[r] # Missing
  /\ pc[r] \in Stepping /\ Step(r).kind = "apply_patch" /\ Folder[Step(r).file] # "."
       => text[Step(r).file] # Missing
  /\ pc[r] = "restoring" => text[NextTarget(r)] # Missing

(* Runner r is why directory d may be there without a file.                *)
Owes(r, d) ==
  \/ pc[r] \in {"truncating", "filling"} /\ Folder[Step(r).file] = d
  \/ pc[r] = "killed" \/ rollback[r] = "failed" \/ MadeOnlyFolder(r)

Inhabited(d) == \E g \in Files : Folder[g] = d /\ text[g] # Missing

FolderInv ==
  /\ \A d \in before.folders : \E g \in Files : Folder[g] = d /\ before.text[g] # Missing
  /\ \A g \in Files : before.text[g] # Missing /\ Folder[g] # "." => Folder[g] \in before.folders
  /\ \A r \in Runners : DraftInv(r)
  /\ \A g \in Files : before.text[g] # Missing /\ Folder[g] # "." => text[g] # Missing
  /\ \A g \in Files : text[g] # Missing => HasFolder(g)
  /\ \A g \in Files : text[g] # Missing /\ before.text[g] = Missing /\ Folder[g] # "." =>
       \E r \in Runners : g \in Targets(prog[r])
  /\ \A d \in folders \ before.folders : Inhabited(d) \/ \E r \in Runners : Owes(r, d)

LEMMA WrittenPresent ==
  ASSUME NEW t \in Texts, NEW m \in Marks, m # <<"missing", 0>>
  PROVE  /\ <<m>> # Missing /\ <<>> # Missing
         /\ t # Missing => Replaced(t, m) # Missing
<1>1. t \in Seq(Marks) BY TextsTyped
<1>2. Len(Missing) = 1 /\ DOMAIN Missing = {1} /\ Missing[1] = <<"missing", 0>> BY DEF Missing
<1>3. <<m>>[1] = m /\ Len(<<>>) = 0 OBVIOUS
<1>4. ASSUME Replaced(t, m) = Missing PROVE t = Missing
  <2>1. DOMAIN Replaced(t, m) = DOMAIN t /\ DOMAIN t = 1..Len(t) /\ Len(t) \in Nat BY <1>1 DEF Replaced
  <2>2. 1..Len(t) = {1} BY <1>2, <1>4, <2>1
  <2>3. Len(t) = 1 BY <2>1, <2>2
  <2>4. Replaced(t, m)[1] = (IF t[1] = OrigMark THEN m ELSE t[1]) BY <2>1, <2>2 DEF Replaced
  <2>5. t[1] = <<"missing", 0>> BY <1>2, <1>4, <2>4
  <2>6. \A i \in 1..1 : t[i] = Missing[i] BY <1>2, <2>5
  <2>7. Missing \in Seq(Marks) BY TextsTyped
  <2> HIDE DEF Missing, Marks
  <2> QED BY <1>1, <1>2, <2>3, <2>6, <2>7
<1>5. <<m>> # Missing BY <1>2, <1>3
<1>6. <<>> # Missing BY <1>2, <1>3
<1> QED BY <1>4, <1>5, <1>6

LEMMA FillPresent ==
  ASSUME TypeInv, NEW r \in Runners, DraftInv(r), Fill(r)
  PROVE  text'[Step(r).file] # Missing
<1>0. LocalTypes /\ WorkspaceTypes /\ RunnerInv(r) BY PartsOfTypes
<1>1. PICK f \in Files : f = Step(r).file BY <1>0, StepTyped DEF RunnerInv, Stepping, Fill
<1>2. text[f] \in Texts /\ Mark(r) \in Marks /\ Mark(r) # <<"missing", 0>> /\ <<>> \in Texts
  BY <1>0, MarkTyped, MarksDiffer, TextsTyped DEF WorkspaceTypes
<1>3. Filled(r) # Missing
  <2> HIDE DEF Texts, Marks
  <2>1. CASE Step(r).kind = "append_file"
    <3>1. Filled(r) = Append(IF text[f] = Missing THEN <<>> ELSE text[f], Mark(r))
      BY <1>1, <2>1 DEF Filled
    <3>2. (IF text[f] = Missing THEN <<>> ELSE text[f]) \in Texts BY <1>2
    <3> QED BY <1>2, <3>1, <3>2, AppendKeeps
  <2>2. CASE Step(r).kind = "apply_patch"
    <3>1. Filled(r) = Replaced(text[f], Mark(r)) BY <1>1, <2>2 DEF Filled
    <3>2. text[f] # Missing BY <1>1, <2>2 DEF Fill, Fillable, Has
    <3> QED BY <1>2, <3>1, <3>2, WrittenPresent
  <2>3. CASE Step(r).kind \notin {"append_file", "apply_patch"}
    <3>1. Filled(r) = draft[r] BY <2>3 DEF Filled
    <3> QED BY <3>1 DEF DraftInv, Fill, Stepping
  <2> QED BY <2>1, <2>2, <2>3
<1>4. text' = [text EXCEPT ![f] = Filled(r)] BY <1>1 DEF Fill
<1> QED BY <1>0, <1>1, <1>3, <1>4 DEF WorkspaceTypes

(* A file goes only by the rollback of the bundle that made it, or by a    *)
(* command.                                                                *)
LEMMA OnlyRemoved ==
  ASSUME TypeInv, CommandsInPlace, NEW r \in Runners, RestoreInv(r), DraftInv(r), StepOf(r),
         NEW f \in Files, text[f] # Missing, text'[f] = Missing
  PROVE  \/ /\ RemoveNew(r) /\ f = NextTarget(r) /\ f \in Targets(prog[r])
            /\ before.text[f] = Missing
         \/ Folder[f] = "." /\ f \in FilesOf(prog[r])
<1>0. LocalTypes /\ WorkspaceTypes /\ RunnerInv(r) BY PartsOfTypes
<1>1. CASE LooksOnly(r) \/ Backup(r) BY <1>1, LooksOnlyFacts DEF wsVars, Backup
<1>2. CASE Truncate(r)
  <2>1. text' = [text EXCEPT ![Step(r).file] = <<>>] BY <1>2 DEF Truncate
  <2>2. <<>> # Missing BY DEF Missing
  <2> QED BY <1>0, <2>1, <2>2 DEF WorkspaceTypes
<1>3. CASE Fill(r)
  <2>1. f # Step(r).file => text'[f] = text[f] BY <1>0, <1>3 DEF Fill, WorkspaceTypes
  <2> QED BY <1>3, <2>1, FillPresent
<1>4. CASE RunCommand(r)
  <2>1. f = Step(r).file /\ at[r] \in DOMAIN prog[r]
    BY <1>0, <1>4, StepTyped DEF RunCommand, WorkspaceTypes
  <2>2. Folder[f] = "." BY <1>0, <1>4, <2>1 DEF CommandsInPlace, RunCommand, RunnerInv, Step
  <2> QED BY <2>1, <2>2 DEF FilesOf, Step
<1>5. ASSUME RemoveNew(r) \/ RestoreOpen(r) \/ RestoreFill(r)
      PROVE  left[r] # {} /\ NextTarget(r) \in Targets(prog[r])
             /\ snap[r][NextTarget(r)] = before.text[NextTarget(r)]
  <2>1. left[r] # {} /\ left[r] \subseteq DOMAIN snap[r]
    BY <1>0, <1>5 DEF RemoveNew, RestoreOpen, RestoreFill, RunnerInv, RollingBack
  <2>2. NextTarget(r) \in left[r] /\ NextTarget(r) \in Targets(prog[r]) BY <2>1, NextTargetIsLeft
  <2> QED BY <2>1, <2>2 DEF RestoreInv
<1>6. CASE RemoveNew(r)
  <2>1. f = NextTarget(r) BY <1>0, <1>6 DEF RemoveNew, WorkspaceTypes
  <2>2. snap[r][f] = Missing BY <1>6, <2>1 DEF RemoveNew
  <2> QED BY <1>5, <1>6, <2>1, <2>2
<1>7. CASE RestoreOpen(r)
  <2>1. text' = [text EXCEPT ![NextTarget(r)] = <<>>] BY <1>7 DEF RestoreOpen
  <2>2. <<>> # Missing BY DEF Missing
  <2> QED BY <1>0, <2>1, <2>2 DEF WorkspaceTypes
<1>8. CASE RestoreFill(r)
  <2>1. text' = [text EXCEPT ![NextTarget(r)] = snap[r][NextTarget(r)]] BY <1>8 DEF RestoreFill
  <2>2. snap[r][NextTarget(r)] # Missing BY <1>8 DEF RestoreFill, RestoreInv
  <2> QED BY <1>0, <2>1, <2>2 DEF WorkspaceTypes
<1> QED BY <1>1, <1>2, <1>3, <1>4, <1>6, <1>7, <1>8, StepsSplit

(* A file comes where its directory is, as a target or by a command.       *)
LEMMA OnlyMade ==
  ASSUME TypeInv, CommandsInPlace, NEW r \in Runners, DraftInv(r), StepOf(r),
         \A g \in Files : text[g] # Missing => HasFolder(g),
         NEW f \in Files, text[f] = Missing, text'[f] # Missing
  PROVE  /\ HasFolder(f)'
         /\ Folder[f] = "." \/ f \in Targets(prog[r])
<1>0. LocalTypes /\ WorkspaceTypes /\ RunnerInv(r) BY PartsOfTypes
<1>1. CASE LooksOnly(r) \/ Backup(r) BY <1>1, LooksOnlyFacts DEF wsVars, Backup
<1>2. CASE Truncate(r) \/ Fill(r)
  <2>1. /\ f = Step(r).file /\ HasFolder(f) /\ folders' = folders /\ pc[r] \in Stepping
    BY <1>0, <1>2 DEF Truncate, Fill, Fillable, WorkspaceTypes, Stepping
  <2>2. at[r] \in DOMAIN prog[r] /\ Step(r).kind \in Kinds
    BY <1>0, <2>1, StepTyped DEF RunnerInv
  <2>3. Step(r).kind \in FileKinds \/ Folder[f] = "."
    <3>1. CASE Step(r).kind = "command"
      BY <1>0, <2>1, <2>2, <3>1 DEF CommandsInPlace, RunnerInv, Step
    <3>2. CASE Step(r).kind = "apply_patch" BY <1>2, <2>1, <3>2 DEF DraftInv
    <3> QED BY <2>2, <3>1, <3>2 DEF Kinds
  <2>4. HasFolder(f)' BY <2>1 DEF HasFolder
  <2> QED BY <2>1, <2>2, <2>3, <2>4 DEF Targets, IsFileStep, Step
<1>3. CASE RunCommand(r)
  <2>1. f = Step(r).file /\ at[r] \in DOMAIN prog[r]
    BY <1>0, <1>3, StepTyped DEF RunCommand, WorkspaceTypes
  <2>2. Folder[f] = "." BY <1>0, <1>3, <2>1 DEF CommandsInPlace, RunCommand, RunnerInv, Step
  <2> QED BY <2>2 DEF HasFolder
<1>4. CASE RemoveNew(r) BY <1>0, <1>4 DEF RemoveNew, WorkspaceTypes
<1>5. CASE RestoreOpen(r)
  <2>1. f = NextTarget(r) /\ left[r] # {} BY <1>0, <1>5 DEF RestoreOpen, WorkspaceTypes
  <2>2. f \in Targets(prog[r]) BY <2>1, NextTargetIsLeft
  <2> QED BY <1>5, <2>1, <2>2 DEF RestoreOpen, HasFolder
<1>6. CASE RestoreFill(r)
  <2>1. f = NextTarget(r) BY <1>0, <1>6 DEF RestoreFill, WorkspaceTypes
  <2> QED BY <1>6, <2>1 DEF RestoreFill, DraftInv
<1> QED BY <1>1, <1>2, <1>3, <1>4, <1>5, <1>6, StepsSplit

LEMMA StopsDrafted ==
  ASSUME TypeInv, NEW r \in Runners, pc[r] \in {"step"} \cup Stepping,
         NEW how \in {"failed", "interrupted"}, StopsAs(r, how)
  PROVE  DraftInv(r)'
<1>0. LocalTypes BY PartsOfTypes
<1>1. pc' = [pc EXCEPT ![r] = "rollingBack"] \/ pc' = [pc EXCEPT ![r] = "ended"]
  BY DEF StopsAs, Goto
<1> QED BY <1>0, <1>1 DEF DraftInv, LocalTypes, Early, Stepping

LEMMA OwnDrafted ==
  ASSUME TypeInv, NEW r \in Runners, RestoreInv(r), DraftInv(r), StepOf(r)
  PROVE  DraftInv(r)'
<1>0. LocalTypes /\ WorkspaceTypes /\ RunnerInv(r) BY PartsOfTypes
<1>1. CASE Begin(r) \/ Snapshot(r)
  <2>1. /\ pc[r] \in Early /\ stopped' = stopped
        /\ pc' = pc \/ pc' = [pc EXCEPT ![r] = "snapshotting"] \/ pc' = [pc EXCEPT ![r] = "step"]
    BY <1>1 DEF Begin, Snapshot, Goto, Early
  <2>2. pc'[r] \in {"claimed", "snapshotting", "step"}
    BY <1>0, <1>1, <2>1 DEF LocalTypes, Begin, Snapshot
  <2> QED BY <2>1, <2>2 DEF DraftInv, Early, Stepping
<1>2. CASE CheckStep(r)
  <2>1. /\ pc'[r] = "backup" /\ draft'[r] = Draft(r, Step(r)) /\ text' = text /\ Step(r)' = Step(r)
        /\ stopped' = stopped /\ pc[r] = "step"
    BY <1>0, <1>2 DEF CheckStep, Goto, LocalTypes, wsVars, Step
  <2>2. PICK f \in Files : f = Step(r).file BY <1>2, StepTyped DEF CheckStep
  <2>3. text[f] \in Texts /\ Mark(r) \in Marks /\ Mark(r) # <<"missing", 0>>
    BY <1>0, MarkTyped, MarksDiffer DEF WorkspaceTypes
  <2>4. Step(r).kind \in {"replace_text", "apply_patch"} => text[f] # Missing
    BY <1>2, <2>2 DEF CheckStep, Doable, Has
  <2>5. Draft(r, Step(r)) # Missing
    <3> HIDE DEF Texts, Marks
    <3>1. CASE Step(r).kind = "replace_text"
      BY <2>2, <2>3, <2>4, <3>1, WrittenPresent DEF Draft
    <3>2. CASE Step(r).kind # "replace_text" BY <2>3, <3>2, WrittenPresent DEF Draft
    <3> QED BY <3>1, <3>2
  <2> QED BY <2>1, <2>2, <2>4, <2>5 DEF DraftInv, Early, Stepping
<1>3. CASE Backup(r) \/ Truncate(r)
  <2>1. /\ pc[r] \in Stepping /\ pc'[r] \in {"truncating", "filling"} /\ draft' = draft
        /\ Step(r)' = Step(r) /\ stopped' = stopped
    BY <1>0, <1>3 DEF Backup, Truncate, Goto, LocalTypes, Step, Stepping
  <2>2. text' = text \/ text' = [text EXCEPT ![Step(r).file] = <<>>]
    BY <1>3 DEF Backup, Truncate
  <2>3. PICK f \in Files : f = Step(r).file BY <1>0, <2>1, StepTyped DEF RunnerInv
  <2>4. text'[f] = text[f] \/ text'[f] # Missing
    <3>1. <<>> # Missing BY DEF Missing
    <3> QED BY <1>0, <2>2, <2>3, <3>1 DEF WorkspaceTypes
  <2> QED BY <2>1, <2>3, <2>4 DEF DraftInv, Early, Stepping
<1>4. CASE Fill(r)
  <2>1. pc[r] \in Early /\ pc'[r] = "step" /\ stopped' = stopped
    BY <1>0, <1>4 DEF Fill, Goto, LocalTypes, Early, Stepping
  <2> QED BY <2>1 DEF DraftInv, Early, Stepping
<1>5. CASE StepRefused(r) \/ StepFails(r) \/ Interrupt(r)
  BY <1>5, StopsDrafted DEF StepRefused, StepFails, Interrupt, Stepping
<1>6. CASE RunCommand(r)
  <2>1. CASE StopsAs(r, "failed") BY <1>6, <2>1, StopsDrafted DEF RunCommand
  <2>2. CASE UNCHANGED <<prog, before, pc, snap, draft, left, outcome, rollback, stopped>>
    BY <1>6, <2>2 DEF DraftInv, RunCommand, Early, Stepping
  <2> QED BY <1>6, <2>1, <2>2 DEF RunCommand
<1>7. CASE AllApplied(r) \/ RemoveNew(r) \/ RestoreFill(r) \/ RestoreFails(r) \/ RolledBack(r) \/ Kill(r)
           \/ \E how \in {"failed", "interrupted"} : SnapshotFails(r, how)
  <2>1. pc'[r] \in {"rollingBack", "ended", "killed"}
    BY <1>0, <1>7 DEF AllApplied, RemoveNew, RestoreFill, RestoreFails, RolledBack, Kill, SnapshotFails,
      Goto, LocalTypes
  <2> QED BY <2>1 DEF DraftInv, Early, Stepping
<1>8. CASE RestoreOpen(r)
  <2>1. /\ pc'[r] = "restoring" /\ NextTarget(r)' = NextTarget(r)
        /\ text' = [text EXCEPT ![NextTarget(r)] = <<>>]
    BY <1>0, <1>8 DEF RestoreOpen, Goto, LocalTypes, NextTarget
  <2>2. NextTarget(r) \in Files BY <1>8, NextTargetIsLeft DEF RestoreOpen
  <2>3. <<>> # Missing BY DEF Missing
  <2> QED BY <1>0, <2>1, <2>2, <2>3 DEF DraftInv, Early, Stepping, WorkspaceTypes
<1> QED BY <1>1, <1>2, <1>3, <1>4, <1>5, <1>6, <1>7, <1>8 DEF StepOf, Advance

(* A runner's step takes no file from under another bundle.                *)
LEMMA OthersDrafted ==
  ASSUME TypeInv, TargetsApart, CommandsInPlace, NEW r \in Runners, RestoreInv(r), DraftInv(r),
         StepOf(r), NEW q \in Runners \ {r}, DraftInv(q)
  PROVE  DraftInv(q)'
<1>0. LocalTypes /\ RunnerInv(q) /\ RunnerInv(r) /\ Framed(r) BY PartsOfTypes, StepTypes
<1>1. /\ pc'[q] = pc[q] /\ Step(q)' = Step(q) /\ left'[q] = left[q] /\ prog'[q] = prog[q]
      /\ stopped'[q] = stopped[q] /\ draft'[q] = draft[q]
  BY <1>0, OthersStay
<1>2. NextTarget(q)' = NextTarget(q) BY <1>1 DEF NextTarget
<1>3. ASSUME NEW f \in Files, f \in FilesOf(prog[q]), text[f] # Missing,
             Folder[f] # "." \/ f \in Targets(prog[q])
      PROVE  text'[f] # Missing
  <2>1. SUFFICES ASSUME text'[f] = Missing PROVE FALSE
    OBVIOUS
  <2>2. f \in Targets(prog[r]) \/ (Folder[f] = "." /\ f \in FilesOf(prog[r]))
    BY <1>3, <2>1, OnlyRemoved
  <2> QED BY <1>0, <1>3, <2>2 DEF TargetsApart, RunnerInv
<1>4. pc[q] \in Stepping => Step(q).file \in Files /\ Step(q).file \in FilesOf(prog[q])
  BY <1>0, StepTyped DEF RunnerInv, FilesOf, Step
<1>5. pc[q] = "restoring" => /\ NextTarget(q) \in Files /\ NextTarget(q) \in FilesOf(prog[q])
                             /\ NextTarget(q) \in Targets(prog[q])
  BY <1>0, NextTargetIsLeft, TargetsAreNamed DEF RunnerInv
<1> QED BY <1>1, <1>2, <1>3, <1>4, <1>5 DEF DraftInv

(* A directory comes with a backup, which answers for it, or with a file   *)
(* that is restored; one goes when nothing is in it.                       *)
LEMMA FoldersMade ==
  ASSUME TypeInv, NEW r \in Runners, StepOf(r), NEW d, d \in folders', d \notin folders
  PROVE  \/ pc'[r] \in {"truncating", "filling"} /\ Folder[Step(r).file] = d /\ Step(r)' = Step(r)
         \/ \E g \in Files : Folder[g] = d /\ text'[g] # Missing
<1>0. LocalTypes /\ WorkspaceTypes BY PartsOfTypes
<1>1. CASE Backup(r)
  <2>1. pc'[r] \in {"truncating", "filling"} BY <1>0, <1>1 DEF Backup, Goto, LocalTypes
  <2> QED BY <1>1, <2>1 DEF Backup, Step
<1>2. CASE RestoreOpen(r)
  <2>1. PICK f \in Files : f = NextTarget(r) BY <1>2, NextTargetIsLeft DEF RestoreOpen
  <2>2. d = Folder[f] /\ text'[f] = <<>> BY <1>0, <1>2, <2>1 DEF RestoreOpen, WorkspaceTypes
  <2>3. <<>> # Missing BY DEF Missing
  <2> QED BY <2>2, <2>3
<1>3. CASE LooksOnly(r) BY <1>3, LooksOnlyFacts DEF wsVars
<1>4. CASE Truncate(r) \/ Fill(r) \/ RunCommand(r) \/ RestoreFill(r)
  BY <1>4 DEF Truncate, Fill, RunCommand, RestoreFill
<1>5. CASE RemoveNew(r) BY <1>5 DEF RemoveNew, WithoutEmpty
<1> QED BY <1>1, <1>2, <1>3, <1>4, <1>5, StepsSplit

LEMMA FoldersGone ==
  ASSUME NEW r \in Runners, StepOf(r), TypeInv, NEW d, d \in folders, d \notin folders'
  PROVE  \A g \in Files : Folder[g] = d => text'[g] = Missing
<1>1. CASE RemoveNew(r) BY <1>1 DEF RemoveNew, WithoutEmpty
<1>2. CASE LooksOnly(r) BY <1>2, LooksOnlyFacts DEF wsVars
<1>3. CASE Backup(r) \/ Truncate(r) \/ Fill(r) \/ RunCommand(r) \/ RestoreOpen(r) \/ RestoreFill(r)
  BY <1>3 DEF Backup, Truncate, Fill, RunCommand, RestoreOpen, RestoreFill
<1> QED BY <1>1, <1>2, <1>3, StepsSplit

LEMMA StopsOwing ==
  ASSUME TypeInv, NEW r \in Runners, pc[r] \in {"truncating", "filling"}, r \in MayFail \cup MayInterrupt,
         NEW how \in {"failed", "interrupted"}, StopsAs(r, how), NEW d
  PROVE  Owes(r, d)'
<1>1. stopped'[r] = pc[r] BY PartsOfTypes DEF StopsAs, LocalTypes
<1> QED BY <1>1 DEF Owes, MadeOnlyFolder

(* Who answers for a directory does so until there is a file in it.        *)
LEMMA OwingStays ==
  ASSUME TypeInv, NEW r \in Runners, DraftInv(r), StepOf(r), NEW d, d \in folders, Owes(r, d)
  PROVE  Owes(r, d)' \/ \E g \in Files : Folder[g] = d /\ text'[g] # Missing
<1>0. LocalTypes /\ WorkspaceTypes /\ RunnerInv(r) BY PartsOfTypes
<1>1. CASE pc[r] \in {"truncating", "filling"} /\ Folder[Step(r).file] = d
  <2>1. PICK f \in Files : f = Step(r).file BY <1>0, <1>1, StepTyped DEF RunnerInv, Stepping
  <2>2. HasFolder(f) BY <1>1, <2>1 DEF HasFolder
  <2>3. CASE Truncate(r)
    <3>1. pc'[r] = "filling" /\ Step(r)' = Step(r)
      BY <1>0, <2>3 DEF Truncate, Goto, LocalTypes, Step
    <3> QED BY <1>1, <3>1 DEF Owes
  <2>4. CASE Fill(r) BY <1>1, <2>1, <2>4, FillPresent
  <2>5. CASE StepFails(r)
    <3>1. CASE r \in MayFail BY <1>1, <2>5, <3>1, StopsOwing DEF StepFails
    <3>2. CASE r \notin MayFail
      <4>1. pc[r] = "filling" /\ ~Fillable(r) BY <1>1, <2>1, <2>2, <2>5, <3>2 DEF StepFails
      <4>2. Step(r).kind = "apply_patch" BY <2>1, <2>2, <4>1 DEF Fillable
      <4>3. text[f] # Missing /\ text' = text
        <5>1. Folder[f] # "." BY <1>0, <1>1, <2>1 DEF WorkspaceTypes, Folders
        <5> QED BY <2>1, <2>5, <4>1, <4>2, <5>1 DEF DraftInv, Stepping, StepFails, wsVars
      <4> QED BY <1>1, <2>1, <4>3
    <3> QED BY <3>1, <3>2
  <2>6. CASE Interrupt(r) BY <1>1, <2>6, StopsOwing DEF Interrupt
  <2>7. CASE Kill(r)
    <3>1. pc'[r] = "killed" BY <1>0, <2>7 DEF Kill, Goto, LocalTypes
    <3> QED BY <3>1 DEF Owes
  <2> QED BY <1>1, <2>3, <2>4, <2>5, <2>6, <2>7 DEF StepOf, Advance, Begin, Snapshot, CheckStep,
    StepRefused, Backup, RunCommand, AllApplied, RemoveNew, RestoreOpen, RestoreFill, RestoreFails,
    RolledBack, SnapshotFails
<1>2. CASE pc[r] \notin Early
  <2>1. \/ RemoveNew(r) \/ RestoreOpen(r) \/ RestoreFill(r) \/ RestoreFails(r) \/ RolledBack(r)
        \/ Kill(r) /\ pc[r] # "killed"
    BY <1>2 DEF StepOf, Advance, Begin, Snapshot, CheckStep, StepRefused, Backup, Truncate, Fill,
      StepFails, RunCommand, AllApplied, Interrupt, Kill, SnapshotFails, Early, Stepping
  <2>2. pc[r] # "killed"
    BY <2>1 DEF RemoveNew, RestoreOpen, RestoreFill, RestoreFails, RolledBack
  <2>3. stopped' = stopped /\ (rollback' = rollback \/ rollback'[r] = "failed")
    BY <1>0, <2>1 DEF RemoveNew, RestoreOpen, RestoreFill, RestoreFails, RolledBack, Kill, LocalTypes
  <2> QED BY <1>2, <2>2, <2>3 DEF Owes, MadeOnlyFolder, Early, Stepping
<1>3. CASE pc[r] \in Early /\ ~(pc[r] \in {"truncating", "filling"} /\ Folder[Step(r).file] = d)
  BY <1>0, <1>3 DEF Owes, MadeOnlyFolder, DraftInv, RunnerInv, Early, Stepping
<1> QED BY <1>1, <1>2, <1>3

LEMMA FolderStep ==
  ASSUME TypeInv, TargetsApart, CommandsInPlace, RestoresInv, FolderInv, NEW r \in Runners, StepOf(r)
  PROVE  FolderInv'
<1>0. Framed(r) /\ RestoreInv(r) /\ DraftInv(r) /\ before' = before /\ prog' = prog
  BY StepTypes DEF Framed, RestoresInv, FolderInv
<1>1. \A q \in Runners : DraftInv(q)'
  <2>1. ASSUME NEW q \in Runners \ {r} PROVE DraftInv(q)'
    BY <1>0, <2>1, OthersDrafted DEF FolderInv
  <2> QED BY <1>0, <2>1, OwnDrafted
<1>2. \A g \in Files : before.text[g] # Missing /\ Folder[g] # "." => text'[g] # Missing
  BY <1>0, OnlyRemoved DEF FolderInv
<1>3. \A g \in Files : text[g] # Missing => HasFolder(g) BY DEF FolderInv
<1>4. ASSUME NEW g \in Files, text'[g] # Missing
      PROVE  HasFolder(g)' /\ (before.text[g] = Missing /\ Folder[g] # "." =>
                                 \E q \in Runners : g \in Targets(prog[q]))
  <2>1. CASE text[g] = Missing BY <1>0, <1>3, <1>4, <2>1, OnlyMade
  <2>2. CASE text[g] # Missing
    <3>1. Folder[g] # "." => Folder[g] \in folders BY <1>3, <2>2 DEF HasFolder
    <3>2. Folder[g] # "." => Folder[g] \in folders' BY <1>4, <3>1, FoldersGone
    <3> QED BY <2>2, <3>2 DEF HasFolder, FolderInv
  <2> QED BY <2>1, <2>2
<1>5. ASSUME NEW d, d \in folders', d \notin before.folders
      PROVE  (\E g \in Files : Folder[g] = d /\ text'[g] # Missing) \/ \E q \in Runners : Owes(q, d)'
  <2>1. CASE d \notin folders
    <3>1. CASE \E g \in Files : Folder[g] = d /\ text'[g] # Missing BY <3>1
    <3>2. CASE pc'[r] \in {"truncating", "filling"} /\ Folder[Step(r).file] = d /\ Step(r)' = Step(r)
      BY <3>2 DEF Owes
    <3> QED BY <1>5, <2>1, <3>1, <3>2, FoldersMade
  <2>2. CASE d \in folders
    <3>1. CASE Inhabited(d)
      <4>1. PICK g \in Files : Folder[g] = d /\ text[g] # Missing BY <3>1 DEF Inhabited
      <4>2. CASE text'[g] # Missing BY <4>1, <4>2
      <4>3. CASE text'[g] = Missing
        <5>0. Folder[g] # "." BY <2>2, <4>1, PartsOfTypes DEF WorkspaceTypes, Folders
        <5>1. RemoveNew(r) /\ g = NextTarget(r) BY <1>0, <4>1, <4>3, <5>0, OnlyRemoved
        <5>2. folders' = WithoutEmpty(g, text') BY <4>1, <5>1 DEF RemoveNew
        <5> QED BY <1>5, <4>1, <5>2 DEF WithoutEmpty
      <4> QED BY <4>2, <4>3
    <3>2. ASSUME NEW q \in Runners, Owes(q, d)
          PROVE  (\E g \in Files : Folder[g] = d /\ text'[g] # Missing) \/ Owes(q, d)'
      <4>1. CASE q = r BY <1>0, <2>2, <3>2, <4>1, OwingStays
      <4>2. CASE q # r
        <5>1. pc'[q] = pc[q] /\ Step(q)' = Step(q) /\ rollback'[q] = rollback[q] /\ stopped'[q] = stopped[q]
          BY <1>0, <4>2, OthersStay
        <5> QED BY <3>2, <5>1 DEF Owes, MadeOnlyFolder
      <4> QED BY <4>1, <4>2
    <3> QED BY <1>5, <2>2, <3>1, <3>2 DEF FolderInv
  <2> QED BY <2>1, <2>2
<1> QED BY <1>0, <1>1, <1>2, <1>4, <1>5 DEF FolderInv, Inhabited

(* When all bundles have rolled back completely, the directories are as    *)
(* they were as well (command_bundle_runner.py:387-431), unless a run      *)
(* failed between making a directory and the first file in it: no          *)
(* directory is left over, and remove_empty_parent_dirs takes none that    *)
(* was there, if none was empty at first, no two bundles share a target    *)
(* and the commands change files of the bundle's own cwd only.             *)
THEOREM RolledBackFolders ==
  ASSUME TargetsApart, CommandsInPlace, ~EmptyFolders
  PROVE  Spec => []FoldersRestored
<1>1. Init => FolderInv
  <2> SUFFICES ASSUME Init PROVE FolderInv
    OBVIOUS
  <2>1. /\ before.text = text /\ before.folders = folders
        /\ folders = {Folder[f] : f \in {g \in Files : text[g] # Missing}} \ {"."}
    BY DEF Init
  <2>2. \A r \in Runners : pc[r] = "claimed" /\ stopped[r] = "none" BY DEF Init
  <2>3. \A r \in Runners : DraftInv(r) BY <2>2 DEF DraftInv, Stepping
  <2> QED BY <2>1, <2>3 DEF FolderInv, HasFolder
<1>2. TypeInv /\ RestoresInv /\ FolderInv /\ [Next]_vars => FolderInv'
  <2> SUFFICES ASSUME TypeInv, RestoresInv, FolderInv, [Next]_vars PROVE FolderInv'
    OBVIOUS
  <2>1. CASE UNCHANGED vars
    BY <2>1 DEF vars, wsVars, FolderInv, DraftInv, Inhabited, Owes, MadeOnlyFolder, HasFolder, Step, NextTarget
  <2>2. CASE Next
    <3>1. PICK r \in Runners : StepOf(r) BY <2>2 DEF Next, StepOf
    <3> QED BY <3>1, FolderStep
  <2> QED BY <2>1, <2>2
<1>3. TypeInv /\ FolderInv /\ RestoresInv => FoldersRestored
  <2> SUFFICES ASSUME TypeInv, FolderInv, RestoresInv,
                      \A r \in Runners : pc[r] = "ended" /\ rollback[r] = "completed" /\ ~MadeOnlyFolder(r)
               PROVE  folders = before.folders
    BY DEF FoldersRestored
  <2>1. \A r \in Runners, d \in folders : ~Owes(r, d) BY DEF Owes
  <2>2. \A r \in Runners : \A f \in Targets(prog[r]) : text[f] = before.text[f]
    BY DEF RestoresInv, RestoreInv
  <2>3. \A d \in folders \cup before.folders : d # "." BY PartsOfTypes DEF WorkspaceTypes, Folders
  <2>4. ASSUME NEW d \in folders, d \notin before.folders PROVE FALSE
    <3>1. PICK g \in Files : Folder[g] = d /\ text[g] # Missing
      BY <2>1, <2>4 DEF FolderInv, Inhabited
    <3>2. before.text[g] = Missing BY <2>3, <2>4, <3>1 DEF FolderInv
    <3>3. PICK r \in Runners : g \in Targets(prog[r]) BY <2>3, <3>1, <3>2 DEF FolderInv
    <3> QED BY <2>2, <3>1, <3>2, <3>3
  <2>5. ASSUME NEW d \in before.folders PROVE d \in folders
    <3>1. PICK g \in Files : Folder[g] = d /\ text[g] # Missing BY <2>3 DEF FolderInv
    <3> QED BY <2>3, <3>1 DEF FolderInv, HasFolder
  <2> QED BY <2>4, <2>5
<1> QED BY TypeCorrect, RestoresKept, <1>1, <1>2, <1>3, PTL DEF Spec

=============================================================================
