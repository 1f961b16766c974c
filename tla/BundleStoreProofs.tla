-------------------------- MODULE BundleStoreProofs --------------------------
(***************************************************************************)
(* What BundleStore guarantees for every set of bundles and processes and  *)
(* every choice of faults.                                                 *)
(***************************************************************************)
EXTENDS BundleStore, FiniteSetTheorems, TLAPS

(* The labels at which a process works on a bundle. *)
Working == Labels \ {"idle", "sweeping", "done", "crashed"}

(* What process p works on and holds in memory at its label. *)
LabelAt(p) ==
  /\ pc[p] \in Working => job[p] \in Bundles
  /\ pc[p] \in {"claiming", "recording", "claimed", "executing"} =>
       held[p] \in Record
  /\ pc[p] \in {"finChecking", "finWriting", "finMoving"} =>
       held[p] \in Record /\ held[p].status \in Terminal
  /\ pc[p] \in {"rejecting", "rejWriting"} =>
       held[p] \in Record /\ held[p].status = "rejected"
  /\ pc[p] = "handingOff" => held[p].status \in Terminal \cup {"rejected"}
  /\ pc[p] \in {"mvWriting", "mvMoving"} =>
       /\ p \in Cancellers
       /\ held[p] \in Record
       /\ source[p] \in Dirs \ {"pending"}

LabelInv == \A p \in Procs : LabelAt(p)

TypeInv == TypeOK /\ LabelInv

(* What WriteFile does to every directory. *)
LEMMA WriteFileEffect ==
  ASSUME file \in [Bundles -> [Dirs -> Record \cup {NoFile}]],
         NEW b \in Bundles, NEW d \in Dirs, NEW record \in Record,
         WriteFile(b, d, record)
  PROVE  /\ file' \in [Bundles -> [Dirs -> Record \cup {NoFile}]]
         /\ \A c \in Bundles : \A e \in Dirs :
              file'[c][e] = IF c = b /\ e = d THEN record ELSE file[c][e]
<1> DEFINE R == Record \cup {NoFile}
<1>1. file' = [file EXCEPT ![b] = [file[b] EXCEPT ![d] = record]]
  BY DEF WriteFile
<1>2. [file[b] EXCEPT ![d] = record] \in [Dirs -> R]
  OBVIOUS
<1> HIDE DEF R
<1>3. file' \in [Bundles -> [Dirs -> R]]
  BY <1>1, <1>2 DEF R
<1>4. \A c \in Bundles : \A e \in Dirs :
        file'[c][e] = IF c = b /\ e = d THEN record ELSE file[c][e]
  BY <1>1
<1> QED BY <1>3, <1>4 DEF R

(* What MoveFile does to every directory. *)
LEMMA MoveFileEffect ==
  ASSUME file \in [Bundles -> [Dirs -> Record \cup {NoFile}]],
         NEW b \in Bundles, NEW from \in Dirs, NEW to \in Dirs,
         MoveFile(b, from, to)
  PROVE  /\ file' \in [Bundles -> [Dirs -> Record \cup {NoFile}]]
         /\ \A c \in Bundles : \A e \in Dirs :
              file'[c][e] = IF c = b /\ e = to THEN file[b][from]
                            ELSE IF c = b /\ e = from THEN NoFile
                            ELSE file[c][e]
<1> DEFINE R == Record \cup {NoFile}
<1>0. file[b][from] \in R /\ NoFile \in R
  OBVIOUS
<1>1. file' = [file EXCEPT ![b] =
                 [file[b] EXCEPT ![from] = NoFile, ![to] = file[b][from]]]
  BY DEF MoveFile
<1> HIDE DEF R
<1>2. [file[b] EXCEPT ![from] = NoFile, ![to] = file[b][from]] \in [Dirs -> R]
  BY <1>0 DEF R
<1>3. file' \in [Bundles -> [Dirs -> R]]
  BY <1>1, <1>2 DEF R
<1>4. \A c \in Bundles : \A e \in Dirs :
        file'[c][e] = IF c = b /\ e = to THEN file[b][from]
                      ELSE IF c = b /\ e = from THEN NoFile
                      ELSE file[c][e]
  BY <1>1
<1> QED BY <1>3, <1>4 DEF R

(* No process has started: the labels promise nothing yet. *)
LEMMA InitTypeInv == Init => TypeInv
BY DEF Init, TypeInv, TypeOK, LabelInv, LabelAt, Working, Labels, Procs, Record, Dirs, Terminal

(* Only p moves: the other processes stay as they are. *)
OnlyMoves(p) ==
  \A q \in Procs \ {p} :
    /\ pc'[q] = pc[q] /\ job'[q] = job[q] /\ held'[q] = held[q]
    /\ q \in Cancellers => source'[q] = source[q]

(* What LabelAt says of a process that a step leaves alone stays true. *)
LEMMA OthersUnmoved ==
  ASSUME LabelInv, NEW p \in Procs, OnlyMoves(p), LabelAt(p)'
  PROVE  LabelInv'
<1> SUFFICES ASSUME NEW q \in Procs \ {p} PROVE LabelAt(q)'
  BY DEF LabelInv
<1> QED BY DEF LabelInv, LabelAt, OnlyMoves

(* A step that only changes p's label. *)
LEMMA GotoOnly ==
  ASSUME TypeInv, NEW p \in Procs, NEW label \in Labels, Goto(p, label),
         UNCHANGED <<job, held, source>>
  PROVE  OnlyMoves(p) /\ pc' \in [Procs -> Labels] /\ pc'[p] = label
BY DEF TypeInv, TypeOK, Goto, OnlyMoves

(* An operation that ends leaves its process without work. *)
LEMMA ResumeLabel == \A p \in Procs : Resume(p) \in Labels \ Working
BY DEF Resume, Labels, Working

(* Locking, unlocking and faults: no file and no memory changes. *)
LEMMA LockTypeInv ==
  ASSUME TypeInv, NEW p \in Procs, AcquireLock(p) \/ ReleaseLock(p)
  PROVE  TypeInv'
<1>1. PICK label \in Labels : Goto(p, label) /\ (label = "checking" \/ label \notin Working)
  BY ResumeLabel DEF AcquireLock, ReleaseLock, Labels, Working
<1>2. UNCHANGED <<file, age, job, held, source, todo, executed, handoff>>
  BY DEF AcquireLock, ReleaseLock
<1>3. OnlyMoves(p) /\ pc' \in [Procs -> Labels] /\ pc'[p] = label
  BY <1>1, <1>2, GotoOnly
<1>4. lock' \in [Bundles -> BOOLEAN]
  BY DEF AcquireLock, ReleaseLock, TypeInv, TypeOK
<1>5. pc[p] \in Working
  BY DEF AcquireLock, ReleaseLock, Working, Labels
<1>6. LabelAt(p)'
  BY <1>1, <1>2, <1>3, <1>5 DEF LabelAt, TypeInv, LabelInv, Working
<1>7. TypeOK'
  BY <1>2, <1>3, <1>4 DEF TypeInv, TypeOK
<1> QED BY <1>3, <1>6, <1>7, OthersUnmoved DEF TypeInv

(* Faults change labels only, and never forward. *)
LEMMA FaultTypeInv ==
  ASSUME TypeInv, NEW p \in Procs, Crash(p) \/ FileError(p)
  PROVE  TypeInv'
<1>1. PICK label \in Labels :
        Goto(p, label) /\ ((pc[p] \in Working /\ label = "releasing") \/ label \notin Working)
  <2>1. CASE Crash(p)
    BY <2>1 DEF Crash, Labels, Working
  <2>2. CASE FileError(p)
    BY <2>2, ResumeLabel
    DEF FileError, ReleasingLabels, AbandoningLabels, Labels, Working
  <2> QED BY <2>1, <2>2
<1>2. UNCHANGED <<file, lock, age, job, held, source, todo, executed, handoff>>
  BY DEF Crash, FileError
<1>3. OnlyMoves(p) /\ pc' \in [Procs -> Labels] /\ pc'[p] = label
  BY <1>1, <1>2, GotoOnly
<1>4. LabelAt(p)'
  BY <1>1, <1>2, <1>3 DEF LabelAt, TypeInv, LabelInv, Working
<1>5. TypeOK'
  BY <1>2, <1>3 DEF TypeInv, TypeOK
<1> QED BY <1>3, <1>4, <1>5, OthersUnmoved DEF TypeInv

(* Staging and ageing: no process moves. *)
LEMMA StageTypeInv ==
  ASSUME TypeInv, NEW b \in Bundles, Stage(b) \/ Age(b)
  PROVE  TypeInv'
<1>1. UNCHANGED <<lock, pc, job, held, source, todo, executed, handoff>>
  BY DEF Stage, Age
<1>2. age' \in [Bundles -> {"unstaged", "fresh", "old"}]
  BY DEF Stage, Age, TypeInv, TypeOK
<1>3. file' \in [Bundles -> [Dirs -> Record \cup {NoFile}]]
  <2>1. [status |-> "pending", exec |-> None] \in Record /\ "pending" \in Dirs
    BY DEF Record, Dirs
  <2> QED BY <2>1, WriteFileEffect DEF Stage, Age, TypeInv, TypeOK
<1>4. TypeOK'
  BY <1>1, <1>2, <1>3 DEF TypeInv, TypeOK
<1>5. LabelInv'
  BY <1>1 DEF TypeInv, LabelInv, LabelAt
<1> QED BY <1>4, <1>5 DEF TypeInv

(* Starting a process gives it a bundle to work on. *)
LEMMA StartTypeInv ==
  ASSUME TypeInv, NEW p \in Procs, NEW b \in Bundles,
         StartApply(p, b) \/ StartReject(p, b) \/ StartCancel(p, b)
  PROVE  TypeInv'
<1>1. PICK label \in {"locking", "finding"} : Start(p, b, label)
  BY DEF StartApply, StartReject, StartCancel
<1>2. UNCHANGED <<file, lock, age, held, source, todo, executed, handoff>>
  BY <1>1 DEF Start
<1>3. /\ OnlyMoves(p)
      /\ pc' \in [Procs -> Labels] /\ pc'[p] = label
      /\ job' \in [Procs -> Bundles \cup {None}] /\ job'[p] = b
  BY <1>1 DEF Start, Goto, OnlyMoves, TypeInv, TypeOK, Labels
<1>4. LabelAt(p)'
  BY <1>3 DEF LabelAt
<1>5. TypeOK'
  BY <1>2, <1>3 DEF TypeInv, TypeOK
<1> QED BY <1>3, <1>4, <1>5, OthersUnmoved DEF TypeInv

(* The steps that write or move the bundle's file. *)
FileStep(p) ==
  \/ p \in Runners /\ (MovePendingToRunning(p) \/ RecordClaim(p))
  \/ p \in Runners \cup Watchers /\ (WriteFinal(p) \/ MoveRunningToFinal(p))
  \/ p \in Rejecters \cup Cancellers /\ (MovePendingToRejected(p) \/ RecordReject(p))
  \/ p \in Cancellers /\ (WriteMoved(p) \/ MoveAny(p))

(* The steps that write or move one file of the process's bundle. *)
LEMMA FileStepTypeInv ==
  ASSUME TypeInv, NEW p \in Procs, FileStep(p)
  PROVE  TypeInv'
<1>1. UNCHANGED <<lock, age, job, held, source, todo, executed, handoff>>
  BY DEF FileStep, MovePendingToRunning, RecordClaim, WriteFinal, MoveRunningToFinal,
         MovePendingToRejected, RecordReject, WriteMoved, MoveAny
<1>2. LabelAt(p) /\ job[p] \in Bundles
  BY DEF FileStep, MovePendingToRunning, RecordClaim, WriteFinal, MoveRunningToFinal,
         MovePendingToRejected, RecordReject, WriteMoved, MoveAny,
         TypeInv, LabelInv, LabelAt, Working, Labels
<1>3. PICK label \in Labels :
        /\ Goto(p, label)
        /\ \/ label \notin Working \cup {"releasing"} \/ label = "releasing"
           \/ label = "mvHandingOff"
           \/ label \in {"recording", "claimed"} /\ pc[p] \in {"claiming", "recording"}
           \/ label = "finMoving" /\ pc[p] = "finWriting"
           \/ label = "handingOff" /\ pc[p] \in {"finMoving", "rejWriting"}
           \/ label = "rejWriting" /\ pc[p] = "rejecting"
           \/ label = "mvMoving" /\ pc[p] = "mvWriting"
  BY ResumeLabel
  DEF FileStep, MovePendingToRunning, RecordClaim, WriteFinal, MoveRunningToFinal,
      MovePendingToRejected, RecordReject, WriteMoved, MoveAny, Labels, Working
<1>4. OnlyMoves(p) /\ pc' \in [Procs -> Labels] /\ pc'[p] = label
  BY <1>1, <1>3, GotoOnly
<1>5. LabelAt(p)'
  BY <1>1, <1>2, <1>3, <1>4 DEF LabelAt, Working, Labels
<1>6. file' \in [Bundles -> [Dirs -> Record \cup {NoFile}]]
  <2> USE <1>2 DEF TypeInv, TypeOK
  <2> "pending" \in Dirs /\ "running" \in Dirs /\ "rejected" \in Dirs /\ Terminal \subseteq Dirs
    BY DEF Dirs
  <2>1. CASE MovePendingToRunning(p)
    BY <2>1, MoveFileEffect DEF MovePendingToRunning
  <2>2. CASE RecordClaim(p)
    BY <2>2, WriteFileEffect DEF RecordClaim, LabelAt
  <2>3. CASE WriteFinal(p)
    BY <2>3, WriteFileEffect DEF WriteFinal, LabelAt
  <2>4. CASE MoveRunningToFinal(p)
    BY <2>4, MoveFileEffect DEF MoveRunningToFinal, LabelAt
  <2>5. CASE MovePendingToRejected(p)
    BY <2>5, MoveFileEffect DEF MovePendingToRejected
  <2>6. CASE RecordReject(p)
    BY <2>6, WriteFileEffect DEF RecordReject, LabelAt
  <2>7. CASE WriteMoved(p)
    BY <2>7, WriteFileEffect DEF WriteMoved, LabelAt
  <2>8. CASE MoveAny(p)
    BY <2>8, MoveFileEffect DEF MoveAny, LabelAt
  <2> QED BY <2>1, <2>2, <2>3, <2>4, <2>5, <2>6, <2>7, <2>8 DEF FileStep
<1>7. TypeOK'
  BY <1>1, <1>4, <1>6 DEF TypeInv, TypeOK
<1> QED BY <1>4, <1>5, <1>7, OthersUnmoved DEF TypeInv

(* The steps that change what p holds in memory. *)
MemoryStep(p) ==
  \/ CheckClaim(p) \/ CheckReject(p)
  \/ p \in Runners /\ EndExecution(p)
  \/ p \in Runners \cup Watchers /\ CheckFinal(p)
  \/ p \in Cancellers /\ FindAgain(p)

(* The steps that read files and change only memory and labels. *)
LEMMA MemoryStepTypeInv ==
  ASSUME TypeInv, NEW p \in Procs, MemoryStep(p)
  PROVE  TypeInv'
<1>1. UNCHANGED <<file, lock, age, job, todo, executed, handoff>>
  BY DEF MemoryStep, CheckClaim, CheckReject, EndExecution, CheckFinal, FindAgain
<1>2. LabelAt(p) /\ job[p] \in Bundles
  BY DEF MemoryStep, CheckClaim, CheckReject, EndExecution, CheckFinal, FindAgain,
         TypeInv, LabelInv, LabelAt, Working, Labels
<1> DEFINE Keeps(label) == Goto(p, label) /\ UNCHANGED <<held, source>>
           Holds(label, record) == Goto(p, label) /\ Hold(p, record)
(* The labels a memory step can lead to, with what is then held. *)
<1>3. \/ \E label \in {"releasing", "locking", "sweeping", "done"} : Keeps(label)
      \/ \E record \in Record :
           \/ Holds("claiming", record) /\ UNCHANGED source
           \/ record.status = "rejected" /\ Holds("rejecting", record) /\ UNCHANGED source
           \/ record.status \in Terminal /\ UNCHANGED source
              /\ (Holds("finChecking", record) \/ Holds("finWriting", record))
           \/ /\ p \in Cancellers
              /\ Holds("mvWriting", record)
              /\ \E d \in Dirs \ {"pending"} : source' = [source EXCEPT ![p] = d]
  <2>1. CASE CheckClaim(p)
    <3>1. [status |-> "running", exec |-> p] \in Record
      BY <2>1 DEF CheckClaim, Record, Dirs
    <3> QED BY <2>1, <3>1 DEF CheckClaim
  <2>2. CASE CheckReject(p)
    <3>1. [status |-> "rejected", exec |-> None] \in Record
      BY DEF Record, Dirs
    <3> QED BY <2>2, <3>1 DEF CheckReject
  <2>3. CASE EndExecution(p)
    <3>1. PICK verdict \in Terminal : Hold(p, [held[p] EXCEPT !.status = verdict])
      BY <2>3 DEF EndExecution
    <3>2. /\ [held[p] EXCEPT !.status = verdict] \in Record
          /\ [held[p] EXCEPT !.status = verdict].status = verdict
      BY <1>2, <2>3 DEF EndExecution, LabelAt, Record, Dirs
    <3> QED BY <2>3, <3>1, <3>2 DEF EndExecution
  <2>4. CASE CheckFinal(p)
    <3>1. CASE Goto(p, Resume(p)) /\ UNCHANGED held
      BY <2>4, <3>1 DEF CheckFinal, Resume
    <3>2. CASE /\ In(job[p], "running")
               /\ Goto(p, "finWriting")
               /\ Hold(p, [held[p] EXCEPT !.exec = file[job[p]]["running"].exec])
      <4>1. file[job[p]]["running"] \in Record
        BY <1>2, <3>2 DEF In, TypeInv, TypeOK, Dirs
      <4>2. /\ [held[p] EXCEPT !.exec = file[job[p]]["running"].exec] \in Record
            /\ [held[p] EXCEPT !.exec = file[job[p]]["running"].exec].status \in Terminal
        BY <1>2, <2>4, <4>1 DEF CheckFinal, LabelAt, Record
      <4> QED BY <2>4, <3>2, <4>2 DEF CheckFinal
    <3> QED BY <2>4, <3>1, <3>2 DEF CheckFinal
  <2>5. CASE p \in Cancellers /\ FindAgain(p)
    <3>1. CASE /\ UNCHANGED <<held, source>>
               /\ Goto(p, "locking") \/ Goto(p, "done")
      BY <3>1
    <3>2. CASE \E d \in Dirs \ {"pending"} :
                 /\ FoundIn(job[p], d)
                 /\ Goto(p, "mvWriting")
                 /\ Hold(p, [status |-> "rejected", exec |-> file[job[p]][d].exec])
                 /\ source' = [source EXCEPT ![p] = d]
      <4>1. PICK d \in Dirs \ {"pending"} :
                 /\ FoundIn(job[p], d)
                 /\ Goto(p, "mvWriting")
                 /\ Hold(p, [status |-> "rejected", exec |-> file[job[p]][d].exec])
                 /\ source' = [source EXCEPT ![p] = d]
        BY <3>2
      <4>2. file[job[p]][d] \in Record
        BY <1>2, <4>1 DEF FoundIn, In, TypeInv, TypeOK
      <4>3. [status |-> "rejected", exec |-> file[job[p]][d].exec] \in Record
        BY <4>2 DEF Record, Dirs
      <4> QED BY <2>5, <4>1, <4>3
    <3> QED BY <2>5, <3>1, <3>2 DEF FindAgain
  <2> QED BY <2>1, <2>2, <2>3, <2>4, <2>5 DEF MemoryStep, CheckClaim, CheckReject
<1>4. /\ pc' \in [Procs -> Labels]
      /\ held' \in [Procs -> Record \cup {NoFile}]
      /\ source' \in [Cancellers -> Dirs \cup {None}]
  <2>1. \E label \in Labels : Goto(p, label)
    BY <1>3 DEF Labels
  <2>2. UNCHANGED held \/ \E record \in Record : Hold(p, record)
    BY <1>3
  <2>3. UNCHANGED source \/ \E d \in Dirs : source' = [source EXCEPT ![p] = d]
    BY <1>3
  <2>4. pc' \in [Procs -> Labels]
    BY <2>1 DEF Goto, TypeInv, TypeOK
  <2>5. held' \in [Procs -> Record \cup {NoFile}]
    BY <2>2 DEF Hold, TypeInv, TypeOK
  <2>6. source' \in [Cancellers -> Dirs \cup {None}]
    BY <2>3 DEF TypeInv, TypeOK
  <2> QED BY <2>4, <2>5, <2>6
<1>5. OnlyMoves(p)
  BY <1>1, <1>3 DEF OnlyMoves, Goto, Hold, TypeInv, TypeOK
<1>6. LabelAt(p)'
  <2>1. CASE \E label \in {"releasing", "locking", "sweeping", "done"} : Keeps(label)
    <3>1. pc'[p] \in {"releasing", "locking", "sweeping", "done"}
      BY <2>1 DEF Goto, TypeInv, TypeOK
    <3> QED BY <1>1, <1>2, <3>1 DEF LabelAt
  <2>2. CASE \E record \in Record :
           \/ Holds("claiming", record) /\ UNCHANGED source
           \/ record.status = "rejected" /\ Holds("rejecting", record) /\ UNCHANGED source
           \/ record.status \in Terminal /\ UNCHANGED source
              /\ (Holds("finChecking", record) \/ Holds("finWriting", record))
    <3>1. /\ job'[p] \in Bundles /\ held'[p] \in Record
          /\ \/ pc'[p] = "claiming"
             \/ pc'[p] = "rejecting" /\ held'[p].status = "rejected"
             \/ pc'[p] \in {"finChecking", "finWriting"} /\ held'[p].status \in Terminal
      BY <1>1, <1>2, <2>2 DEF Goto, Hold, TypeInv, TypeOK
    <3> QED BY <3>1 DEF LabelAt
  <2>3. CASE \E record \in Record :
           /\ p \in Cancellers
           /\ Holds("mvWriting", record)
           /\ \E d \in Dirs \ {"pending"} : source' = [source EXCEPT ![p] = d]
    <3>1. /\ job'[p] \in Bundles /\ held'[p] \in Record /\ pc'[p] = "mvWriting"
          /\ source'[p] \in Dirs \ {"pending"}
      BY <1>1, <1>2, <2>3 DEF Goto, Hold, TypeInv, TypeOK
    <3> QED BY <2>3, <3>1 DEF LabelAt
  <2> QED BY <1>3, <2>1, <2>2, <2>3
<1>7. TypeOK'
  BY <1>1, <1>4 DEF TypeInv, TypeOK
<1> QED BY <1>5, <1>6, <1>7, OthersUnmoved DEF TypeInv

(* Execution and handoff: neither files nor memory change. *)
LEMMA EffectTypeInv ==
  ASSUME TypeInv, NEW p \in Procs,
         \/ p \in Runners /\ BeginExecution(p)
         \/ WriteHandoff(p)
         \/ p \in Cancellers /\ HandOffMoved(p)
  PROVE  TypeInv'
<1>1. UNCHANGED <<file, lock, age, job, held, source, todo>>
  BY DEF BeginExecution, WriteHandoff, HandOffMoved
<1>2. LabelAt(p)
  BY DEF TypeInv, LabelInv
<1>3. PICK label \in {"executing", "releasing", "done"} :
        Goto(p, label) /\ (label = "executing" => pc[p] = "claimed")
        /\ (label # "done" => pc[p] \in Working)
  BY DEF BeginExecution, WriteHandoff, HandOffMoved, Working, Labels
<1>4. OnlyMoves(p) /\ pc' \in [Procs -> Labels] /\ pc'[p] = label
  BY <1>1, <1>3, GotoOnly DEF Labels
<1>5. LabelAt(p)'
  BY <1>1, <1>2, <1>3, <1>4 DEF LabelAt, Working
<1>6. executed' \in [Bundles -> SUBSET Runners]
  BY DEF BeginExecution, WriteHandoff, HandOffMoved, TypeInv, TypeOK
<1>7. handoff' \in [Bundles -> Terminal \cup {"rejected", None}]
  BY <1>2 DEF BeginExecution, WriteHandoff, HandOffMoved, LabelAt, TypeInv, TypeOK
<1>8. TypeOK'
  BY <1>1, <1>4, <1>6, <1>7 DEF TypeInv, TypeOK
<1> QED BY <1>4, <1>5, <1>8, OthersUnmoved DEF TypeInv

(* Sweeping. *)
LEMMA SweepTypeInv ==
  ASSUME TypeInv, NEW w \in Watchers, StartSweep(w) \/ SweepOne(w) \/ EndSweep(w)
  PROVE  TypeInv'
<1>1. UNCHANGED <<file, lock, age, source, executed, handoff>>
  BY DEF StartSweep, SweepOne, EndSweep
<1>2. w \in Procs
  BY DEF Procs
<1>3. todo' \in [Watchers -> SUBSET Bundles]
  <2>1. CASE StartSweep(w)
    BY <2>1 DEF StartSweep, TypeInv, TypeOK
  <2>2. CASE SweepOne(w)
    <3>1. PICK b : todo' = [todo EXCEPT ![w] = @ \ {b}]
      BY <2>2 DEF SweepOne
    <3>2. todo[w] \ {b} \in SUBSET Bundles
      BY DEF TypeInv, TypeOK
    <3> QED BY <3>1, <3>2 DEF TypeInv, TypeOK
  <2>3. CASE EndSweep(w)
    BY <2>3 DEF EndSweep, TypeInv, TypeOK
  <2> QED BY <2>1, <2>2, <2>3
<1>4. \/ Goto(w, "sweeping") /\ UNCHANGED <<job, held>>
      \/ Goto(w, "idle") /\ UNCHANGED <<job, held>>
      \/ UNCHANGED <<pc, job, held>>
      \/ \E b \in Bundles : \E record \in Record :
           /\ record.status \in Terminal
           /\ Goto(w, "finChecking")
           /\ job' = [job EXCEPT ![w] = b]
           /\ Hold(w, record)
  <2>1. CASE SweepOne(w)
    <3>1. PICK b \in todo[w] :
            \/ UNCHANGED <<pc, job, held>>
            \/ /\ In(b, "running")
               /\ Goto(w, "finChecking")
               /\ job' = [job EXCEPT ![w] = b]
               /\ Hold(w, [status |-> SweepVerdict, exec |-> file[b]["running"].exec])
      BY <2>1 DEF SweepOne
    <3>2. b \in Bundles
      BY <3>1 DEF TypeInv, TypeOK
    <3>3. In(b, "running") => file[b]["running"] \in Record
      BY <3>2 DEF In, TypeInv, TypeOK, Dirs
    <3>4. In(b, "running") =>
            /\ [status |-> SweepVerdict, exec |-> file[b]["running"].exec] \in Record
            /\ [status |-> SweepVerdict, exec |-> file[b]["running"].exec].status \in Terminal
      BY <3>3 DEF Record, Dirs, Terminal, SweepVerdict
    <3> QED BY <3>1, <3>2, <3>4
  <2> QED BY <2>1 DEF StartSweep, EndSweep
<1>5. /\ pc' \in [Procs -> Labels]
      /\ job' \in [Procs -> Bundles \cup {None}]
      /\ held' \in [Procs -> Record \cup {NoFile}]
  <2>1. UNCHANGED pc \/ \E label \in Labels : Goto(w, label)
    BY <1>4 DEF Labels
  <2>2. UNCHANGED job \/ \E b \in Bundles : job' = [job EXCEPT ![w] = b]
    BY <1>4
  <2>3. UNCHANGED held \/ \E record \in Record : Hold(w, record)
    BY <1>4
  <2>4. pc' \in [Procs -> Labels]
    BY <2>1 DEF Goto, TypeInv, TypeOK
  <2>5. job' \in [Procs -> Bundles \cup {None}]
    BY <2>2 DEF TypeInv, TypeOK
  <2>6. held' \in [Procs -> Record \cup {NoFile}]
    BY <2>3 DEF Hold, TypeInv, TypeOK
  <2> QED BY <2>4, <2>5, <2>6
<1>6. OnlyMoves(w)
  BY <1>1, <1>2, <1>4 DEF OnlyMoves, Goto, Hold, TypeInv, TypeOK
<1>7. LabelAt(w)'
  <2>1. CASE UNCHANGED <<pc, job, held>>
    BY <1>1, <1>2, <2>1 DEF TypeInv, LabelInv, LabelAt
  <2>2. CASE Goto(w, "sweeping") \/ Goto(w, "idle")
    <3>1. pc'[w] \in {"sweeping", "idle"}
      BY <1>2, <2>2 DEF Goto, TypeInv, TypeOK
    <3> QED BY <3>1 DEF LabelAt, Working
  <2>3. CASE \E b \in Bundles : \E record \in Record :
           /\ record.status \in Terminal
           /\ Goto(w, "finChecking")
           /\ job' = [job EXCEPT ![w] = b]
           /\ Hold(w, record)
    <3>1. /\ pc'[w] = "finChecking" /\ job'[w] \in Bundles
          /\ held'[w] \in Record /\ held'[w].status \in Terminal
      BY <1>2, <2>3 DEF Goto, Hold, TypeInv, TypeOK
    <3> QED BY <3>1 DEF LabelAt
  <2> QED BY <1>4, <2>1, <2>2, <2>3
<1>8. TypeOK'
  BY <1>1, <1>3, <1>5 DEF TypeInv, TypeOK
<1> QED BY <1>2, <1>6, <1>7, <1>8, OthersUnmoved DEF TypeInv

(* Every step is of one of these kinds. *)
LEMMA StepKinds ==
  ASSUME Next
  PROVE  \/ \E b \in Bundles : Stage(b) \/ Age(b)
         \/ \E p \in Procs :
              \/ \E b \in Bundles : StartApply(p, b) \/ StartReject(p, b) \/ StartCancel(p, b)
              \/ AcquireLock(p) \/ ReleaseLock(p) \/ Crash(p) \/ FileError(p)
              \/ FileStep(p) \/ MemoryStep(p)
              \/ p \in Runners /\ BeginExecution(p)
              \/ WriteHandoff(p)
              \/ p \in Cancellers /\ HandOffMoved(p)
         \/ \E w \in Watchers : StartSweep(w) \/ SweepOne(w) \/ EndSweep(w)
<1> USE DEF Procs
<1>1. ASSUME NEW r \in Runners, RunnerStep(r)
      PROVE  \/ AcquireLock(r) \/ ReleaseLock(r) \/ FileStep(r) \/ MemoryStep(r)
             \/ BeginExecution(r) \/ WriteHandoff(r)
  BY <1>1 DEF RunnerStep, FileStep, MemoryStep
<1>2. ASSUME NEW p \in Rejecters \cup Cancellers, RejectStep(p)
      PROVE  AcquireLock(p) \/ ReleaseLock(p) \/ FileStep(p) \/ MemoryStep(p) \/ WriteHandoff(p)
  BY <1>2 DEF RejectStep, FileStep, MemoryStep
<1>3. ASSUME NEW c \in Cancellers, CancelStep(c)
      PROVE  \/ AcquireLock(c) \/ ReleaseLock(c) \/ FileStep(c) \/ MemoryStep(c)
             \/ WriteHandoff(c) \/ HandOffMoved(c)
  BY <1>2, <1>3 DEF CancelStep, FileStep, MemoryStep
<1>4. ASSUME NEW w \in Watchers, SweepStep(w)
      PROVE  \/ SweepOne(w) \/ EndSweep(w) \/ FileStep(w) \/ MemoryStep(w)
             \/ WriteHandoff(w) \/ ReleaseLock(w)
  BY <1>4 DEF SweepStep, FileStep, MemoryStep
<1> QED BY <1>1, <1>2, <1>3, <1>4 DEF Next

(* The type invariant and what each label implies about memory hold in     *)
(* every reachable state, for any number of processes and any faults.      *)
THEOREM TypeCorrect == Spec => []TypeInv
<1>1. TypeInv /\ [Next]_vars => TypeInv'
  <2> SUFFICES ASSUME TypeInv, [Next]_vars PROVE TypeInv'
    OBVIOUS
  <2>1. CASE Next
    BY <2>1, StepKinds, StageTypeInv, StartTypeInv, LockTypeInv, FaultTypeInv,
       FileStepTypeInv, MemoryStepTypeInv, EffectTypeInv, SweepTypeInv
  <2>2. CASE UNCHANGED vars
    BY <2>2 DEF vars, TypeInv, TypeOK, LabelInv, LabelAt
  <2> QED BY <2>1, <2>2
<1> QED BY <1>1, InitTypeInv, PTL DEF Spec

(* The type invariant that the runs check. *)
THEOREM TypesCorrect == Spec => []TypeOK
<1>1. TypeInv => TypeOK
  BY DEF TypeInv
<1> QED BY <1>1, TypeCorrect, PTL
------------------------------------------------------------------------------
(* At most one execution.  The rename of the pending file is what admits a *)
(* runner to the bundle: whoever performs it consumes the file, and no     *)
(* step ever puts a pending file back.  Neither the claim lock nor the     *)
(* execution id is used in the argument.                                   *)

(* The runners that have consumed b's pending file. *)
Consumers(b) ==
  {r \in Runners : \/ r \in executed[b]
                   \/ job[r] = b /\ pc[r] \in {"recording", "claimed"}}

ConsumeInv ==
  \A b \in Bundles :
    /\ \A r, s \in Consumers(b) : r = s
    /\ age[b] = "unstaged" => ~In(b, "pending")
    /\ age[b] = "unstaged" \/ In(b, "pending") => Consumers(b) = {}

(* A file appears only where an operation writes it or moves it to. *)
LEMMA FileAppears ==
  ASSUME file \in [Bundles -> [Dirs -> Record \cup {NoFile}]],
         NEW b \in Bundles, NEW d \in Dirs,
         \/ \E record \in Record : WriteFile(b, d, record)
         \/ \E from \in Dirs : MoveFile(b, from, d)
         \/ UNCHANGED file,
         NEW c \in Bundles, NEW e \in Dirs, In(c, e)'
  PROVE  In(c, e) \/ (c = b /\ e = d)
<1>1. CASE \E record \in Record : WriteFile(b, d, record)
  <2>1. PICK record \in Record : WriteFile(b, d, record)
    BY <1>1
  <2>2. file'[c][e] = IF c = b /\ e = d THEN record ELSE file[c][e]
    BY <2>1, WriteFileEffect
  <2> QED BY <2>2 DEF In
<1>2. CASE \E from \in Dirs : MoveFile(b, from, d)
  <2>1. PICK from \in Dirs : MoveFile(b, from, d)
    BY <1>2
  <2>2. file'[c][e] = IF c = b /\ e = d THEN file[b][from]
                      ELSE IF c = b /\ e = from THEN NoFile ELSE file[c][e]
    BY <2>1, MoveFileEffect
  <2> QED BY <2>2 DEF In
<1> QED BY <1>1, <1>2 DEF In

(* Where each file step makes its file appear. *)
LEMMA FileStepTarget ==
  ASSUME TypeInv, NEW p \in Procs, FileStep(p)
  PROVE  /\ job[p] \in Bundles
         /\ \E d \in Dirs \ {"pending"} :
              /\ \/ \E record \in Record : WriteFile(job[p], d, record)
                 \/ \E from \in Dirs : MoveFile(job[p], from, d)
                 \/ UNCHANGED file
              /\ \/ d # "rejected"
                 \/ p \in Cancellers /\ (WriteMoved(p) \/ MoveAny(p))
                 \/ RecordReject(p)
                 \/ MovePendingToRejected(p) /\ In(job[p], "pending")
                 \/ UNCHANGED file
<1>1. LabelAt(p) /\ job[p] \in Bundles
  BY DEF FileStep, MovePendingToRunning, RecordClaim, WriteFinal, MoveRunningToFinal,
         MovePendingToRejected, RecordReject, WriteMoved, MoveAny,
         TypeInv, LabelInv, LabelAt, Working, Labels
<1>0. /\ {"pending", "running", "rejected"} \subseteq Dirs
      /\ Terminal \subseteq Dirs \ {"pending", "rejected"}
      /\ {"running", "rejected"} \subseteq Dirs \ {"pending"} /\ "running" # "rejected"
  BY DEF Dirs, Terminal
<1>2. CASE MovePendingToRunning(p)
  BY <1>0, <1>1, <1>2 DEF MovePendingToRunning
<1>3. CASE RecordClaim(p)
  BY <1>0, <1>1, <1>3 DEF RecordClaim, LabelAt
<1>4. CASE WriteFinal(p)
  BY <1>0, <1>1, <1>4 DEF WriteFinal, LabelAt
<1>5. CASE MoveRunningToFinal(p)
  BY <1>0, <1>1, <1>5 DEF MoveRunningToFinal, LabelAt
<1>6. CASE MovePendingToRejected(p)
  BY <1>0, <1>1, <1>6 DEF MovePendingToRejected
<1>7. CASE RecordReject(p)
  BY <1>0, <1>1, <1>7 DEF RecordReject, LabelAt
<1>8. CASE p \in Cancellers /\ WriteMoved(p)
  BY <1>0, <1>1, <1>8 DEF WriteMoved, LabelAt
<1>9. CASE p \in Cancellers /\ MoveAny(p)
  BY <1>0, <1>1, <1>9 DEF MoveAny, LabelAt
<1> QED BY <1>2, <1>3, <1>4, <1>5, <1>6, <1>7, <1>8, <1>9 DEF FileStep

(* No file operation creates a pending file. *)
LEMMA PendingNotRevived ==
  ASSUME TypeInv, NEW p \in Procs, FileStep(p), NEW b \in Bundles, In(b, "pending")'
  PROVE  In(b, "pending")
<1>1. "pending" \in Dirs
  BY DEF Dirs
<1> QED BY <1>1, FileStepTarget, FileAppears DEF TypeInv, TypeOK

(* A step in which nobody consumes and nothing is staged. *)
Quiet ==
  \A b \in Bundles :
    /\ Consumers(b)' \subseteq Consumers(b)
    /\ In(b, "pending")' => In(b, "pending")
    /\ age'[b] = "unstaged" => age[b] = "unstaged"

(* A quiet step gives no bundle a second consumer. *)
LEMMA QuietKeepsInv == ConsumeInv /\ Quiet => ConsumeInv'
BY DEF ConsumeInv, Quiet

(* A file step is quiet unless it is the claiming rename itself. *)
LEMMA FileStepQuiet ==
  ASSUME TypeInv, NEW p \in Procs, FileStep(p),
         ~(MovePendingToRunning(p) /\ In(job[p], "pending"))
  PROVE  Quiet
<1> SUFFICES ASSUME NEW b \in Bundles
             PROVE  Consumers(b)' \subseteq Consumers(b)
  BY PendingNotRevived
  DEF Quiet, FileStep, MovePendingToRunning, RecordClaim, WriteFinal, MoveRunningToFinal,
      MovePendingToRejected, RecordReject, WriteMoved, MoveAny
<1>1. UNCHANGED <<job, executed>>
  BY DEF FileStep, MovePendingToRunning, RecordClaim, WriteFinal, MoveRunningToFinal,
         MovePendingToRejected, RecordReject, WriteMoved, MoveAny
<1>2. PICK label \in Labels : /\ Goto(p, label)
                              /\ label \in {"recording", "claimed"} => pc[p] = "recording"
  BY DEF FileStep, MovePendingToRunning, RecordClaim, WriteFinal, MoveRunningToFinal,
         MovePendingToRejected, RecordReject, WriteMoved, MoveAny, Labels, Resume
<1>3. \A q \in Procs : pc'[q] \in {"recording", "claimed"} =>
                         pc[q] \in {"recording", "claimed"}
  BY <1>2 DEF Goto, TypeInv, TypeOK
<1> QED BY <1>1, <1>3 DEF Consumers, Procs

(* The claiming rename: b had no consumer, and now has one. *)
LEMMA ClaimConsumes ==
  ASSUME TypeInv, ConsumeInv, NEW r \in Runners,
         MovePendingToRunning(r), In(job[r], "pending")
  PROVE  ConsumeInv'
<1> DEFINE b == job[r]
<1>1. r \in Procs /\ b \in Bundles
  BY DEF Procs, MovePendingToRunning, TypeInv, LabelInv, LabelAt, Working, Labels
<1>2. /\ Goto(r, "recording") /\ MoveFile(b, "pending", "running")
      /\ UNCHANGED <<age, job, executed>>
  BY DEF MovePendingToRunning
<1>3. ~In(b, "pending")'
      /\ \A c \in Bundles \ {b} : In(c, "pending")' => In(c, "pending")
  <2>1. "pending" \in Dirs /\ "running" \in Dirs
    BY DEF Dirs
  <2>2. \A c \in Bundles : \A e \in Dirs :
          file'[c][e] = IF c = b /\ e = "running" THEN file[b]["pending"]
                        ELSE IF c = b /\ e = "pending" THEN NoFile ELSE file[c][e]
    BY <1>1, <1>2, <2>1, MoveFileEffect DEF TypeInv, TypeOK
  <2> QED BY <1>1, <1>2, <2>1, <2>2 DEF In
<1>4. Consumers(b) = {} /\ age[b] # "unstaged"
  BY <1>1 DEF ConsumeInv
<1>5. \A c \in Bundles : \A s \in Consumers(c)' : s \in Consumers(c) \/ (c = b /\ s = r)
  BY <1>1, <1>2 DEF Consumers, Goto, TypeInv, TypeOK, Procs
<1> QED
  <2> SUFFICES ASSUME NEW c \in Bundles
               PROVE  /\ \A s, t \in Consumers(c)' : s = t
                      /\ age'[c] = "unstaged" => ~In(c, "pending")'
                      /\ age'[c] = "unstaged" \/ In(c, "pending")' => Consumers(c)' = {}
    BY DEF ConsumeInv
  <2>1. CASE c = b
    BY <1>1, <1>2, <1>3, <1>4, <1>5, <2>1
  <2>2. CASE c # b
    BY <1>2, <1>3, <1>5, <2>2 DEF ConsumeInv
  <2> QED BY <2>1, <2>2

(* All other steps of processes are quiet as well. *)
LEMMA OtherStepsQuiet ==
  ASSUME TypeInv, NEW p \in Procs,
         \/ \E b \in Bundles : StartApply(p, b) \/ StartReject(p, b) \/ StartCancel(p, b)
         \/ AcquireLock(p) \/ ReleaseLock(p) \/ Crash(p) \/ FileError(p)
         \/ MemoryStep(p)
         \/ WriteHandoff(p)
         \/ p \in Cancellers /\ HandOffMoved(p)
         \/ p \in Watchers /\ (StartSweep(p) \/ SweepOne(p) \/ EndSweep(p))
  PROVE  Quiet
<1>1. UNCHANGED <<file, age, executed>>
  BY DEF StartApply, StartReject, StartCancel, Start, AcquireLock, ReleaseLock, Crash,
         FileError, MemoryStep, CheckClaim, CheckReject, EndExecution, CheckFinal, FindAgain,
         WriteHandoff, HandOffMoved, StartSweep, SweepOne, EndSweep
<1>2. UNCHANGED pc \/ \E label \in Labels \ {"recording", "claimed"} : Goto(p, label)
  BY DEF StartApply, StartReject, StartCancel, Start, AcquireLock, ReleaseLock, Crash,
         FileError, MemoryStep, CheckClaim, CheckReject, EndExecution, CheckFinal, FindAgain,
         WriteHandoff, HandOffMoved, StartSweep, SweepOne, EndSweep, Labels, Resume
<1>3. UNCHANGED job \/ \E label \in Labels \ {"recording", "claimed"} :
                           Goto(p, label) /\ \E b \in Bundles : job' = [job EXCEPT ![p] = b]
  BY DEF StartApply, StartReject, StartCancel, Start, AcquireLock, ReleaseLock, Crash,
         FileError, MemoryStep, CheckClaim, CheckReject, EndExecution, CheckFinal, FindAgain,
         WriteHandoff, HandOffMoved, StartSweep, SweepOne, EndSweep, Labels, Resume, TypeInv, TypeOK
<1>4. \A q \in Procs : pc'[q] \in {"recording", "claimed"} =>
                         pc[q] \in {"recording", "claimed"} /\ job'[q] = job[q]
  BY <1>2, <1>3 DEF Goto, TypeInv, TypeOK
<1>5. \A b \in Bundles : Consumers(b)' \subseteq Consumers(b)
  BY <1>1, <1>4 DEF Consumers, Procs
<1> QED BY <1>1, <1>5 DEF Quiet, In

(* Whoever starts the side effects had consumed the pending file. *)
LEMMA ExecutionQuiet ==
  ASSUME TypeInv, NEW r \in Runners, BeginExecution(r)
  PROVE  Quiet
<1>1. r \in Procs /\ job[r] \in Bundles
  BY DEF Procs, BeginExecution, TypeInv, LabelInv, LabelAt, Working, Labels
<1>2. \A b \in Bundles : Consumers(b)' \subseteq Consumers(b)
  BY <1>1 DEF BeginExecution, Consumers, Goto, TypeInv, TypeOK, Procs
<1> QED BY <1>2 DEF BeginExecution, Quiet, In

(* Staging and ageing give no bundle a consumer. *)
LEMMA StagingKeepsInv ==
  ASSUME TypeInv, ConsumeInv, NEW b \in Bundles, Stage(b) \/ Age(b)
  PROVE  ConsumeInv'
<1>1. \A c \in Bundles : Consumers(c)' = Consumers(c)
  BY DEF Stage, Age, Consumers
<1>2. CASE Stage(b)
  <2>1. [status |-> "pending", exec |-> None] \in Record /\ "pending" \in Dirs
    BY DEF Record, Dirs
  <2>2. \A c \in Bundles \ {b} : In(c, "pending")' => In(c, "pending")
    BY <1>2, <2>1, WriteFileEffect DEF Stage, In, TypeInv, TypeOK
  <2>3. age' = [age EXCEPT ![b] = "fresh"] /\ Consumers(b) = {}
    BY <1>2 DEF Stage, ConsumeInv
  <2> QED BY <1>1, <2>2, <2>3 DEF ConsumeInv, TypeInv, TypeOK
<1>3. CASE Age(b)
  BY <1>1, <1>3 DEF Age, In, ConsumeInv, TypeInv, TypeOK
<1> QED BY <1>2, <1>3

(* Every step keeps ConsumeInv: the inductive step of ExecutedAtMostOnce. *)
LEMMA ConsumeStep == TypeInv /\ ConsumeInv /\ [Next]_vars => ConsumeInv'
<1> SUFFICES ASSUME TypeInv, ConsumeInv, [Next]_vars PROVE ConsumeInv'
  OBVIOUS
<1>1. ASSUME NEW p \in Procs, FileStep(p) PROVE ConsumeInv'
  <2>1. CASE MovePendingToRunning(p) /\ In(job[p], "pending")
    <3>1. p \in Runners
      BY <1>1, <2>1, ProcsAssumption
      DEF FileStep, MovePendingToRunning, RecordClaim, WriteFinal, MoveRunningToFinal,
          MovePendingToRejected, RecordReject, WriteMoved, MoveAny
    <3> QED BY <2>1, <3>1, ClaimConsumes
  <2> QED BY <1>1, <2>1, FileStepQuiet, QuietKeepsInv
<1>2. CASE Next
  BY <1>1, <1>2, StepKinds, OtherStepsQuiet, ExecutionQuiet, StagingKeepsInv,
     QuietKeepsInv DEF Procs
<1>3. CASE UNCHANGED vars
  BY <1>3 DEF vars, ConsumeInv, Consumers, In
<1> QED BY <1>2, <1>3

(* At most one runner ever starts the side effects of a bundle.            *)
THEOREM ExecutedAtMostOnce == Spec => []AtMostOnceExecution
<1>1. Init => ConsumeInv
  BY DEF Init, ConsumeInv, Consumers, In, Dirs, Procs
<1>2. TypeInv /\ ConsumeInv => AtMostOnceExecution
  BY DEF TypeInv, TypeOK, ConsumeInv, Consumers, AtMostOnceExecution
<1> QED BY <1>1, <1>2, ConsumeStep, TypeCorrect, PTL DEF Spec
------------------------------------------------------------------------------
(* Without cancellation, rejection and execution exclude each other: each  *)
(* needs the pending file, and a bundle that has lost it to a rejecter     *)
(* never gets a consumer again.                                            *)

(* b's pending file is gone for good and no runner got it. *)
Settled(b) == /\ Consumers(b) = {}
              /\ ~In(b, "pending")
              /\ age[b] # "unstaged"

RejectInv == /\ \A b \in Bundles : In(b, "rejected") => Settled(b)
             /\ \A p \in Procs : \A b \in Bundles :
                  pc[p] = "rejWriting" /\ job[p] = b => Settled(b)

(* Every step is quiet, stages, ages or is the claiming rename. *)
LEMMA QuietOrNot ==
  ASSUME TypeInv, Next
  PROVE  \/ Quiet
         \/ \E b \in Bundles : Stage(b) \/ Age(b)
         \/ \E r \in Runners : MovePendingToRunning(r) /\ In(job[r], "pending")
<1>1. ASSUME NEW p \in Procs, FileStep(p),
             ~(p \in Runners /\ MovePendingToRunning(p) /\ In(job[p], "pending"))
      PROVE  Quiet
  <2>1. ~(MovePendingToRunning(p) /\ In(job[p], "pending"))
    BY <1>1, ProcsAssumption
    DEF FileStep, MovePendingToRunning, RecordClaim, WriteFinal, MoveRunningToFinal,
        MovePendingToRejected, RecordReject, WriteMoved, MoveAny
  <2> QED BY <1>1, <2>1, FileStepQuiet
<1> QED BY <1>1, StepKinds, OtherStepsQuiet, ExecutionQuiet DEF Procs

(* A settled bundle stays settled. *)
LEMMA SettledStable ==
  ASSUME TypeInv, Next, NEW b \in Bundles, Settled(b)
  PROVE  Settled(b)'
<1>1. CASE Quiet
  BY <1>1 DEF Quiet, Settled
<1>2. CASE \E c \in Bundles : Stage(c) \/ Age(c)
  <2>1. PICK c \in Bundles : Stage(c) \/ Age(c)
    BY <1>2
  <2>2. Consumers(b)' = Consumers(b)
    BY <2>1 DEF Stage, Age, Consumers
  <2>3. CASE Stage(c)
    <3>1. c # b
      BY <2>3 DEF Stage, Settled
    <3>2. /\ [status |-> "pending", exec |-> None] \in Record
          /\ "pending" \in Dirs
      BY DEF Record, Dirs
    <3>3. ~In(b, "pending")'
      BY <2>3, <3>1, <3>2, FileAppears DEF Stage, Settled, TypeInv, TypeOK
    <3> QED BY <2>2, <2>3, <3>1, <3>3 DEF Stage, Settled, TypeInv, TypeOK
  <2>4. CASE Age(c)
    BY <2>2, <2>4 DEF Age, Settled, In, TypeInv, TypeOK
  <2> QED BY <2>1, <2>3, <2>4
<1>3. CASE \E r \in Runners : MovePendingToRunning(r) /\ In(job[r], "pending")
  <2>1. PICK r \in Runners : MovePendingToRunning(r) /\ In(job[r], "pending")
    BY <1>3
  <2>2. r \in Procs /\ job[r] \in Bundles /\ job[r] # b
    BY <2>1 DEF Procs, MovePendingToRunning, TypeInv, LabelInv, LabelAt, Working, Labels, Settled
  <2>3. /\ UNCHANGED <<age, job, executed>>
        /\ \A q \in Procs : job[q] = b => pc'[q] = pc[q]
    BY <2>1, <2>2 DEF MovePendingToRunning, Goto, TypeInv, TypeOK
  <2>4. ~In(b, "pending")'
    BY <2>1, <2>2, FileAppears DEF MovePendingToRunning, Dirs, Settled, TypeInv, TypeOK
  <2> QED BY <2>3, <2>4 DEF Settled, Consumers, Procs
<1> QED BY <1>1, <1>2, <1>3, QuietOrNot

(* Who enters "rejWriting" has just taken the pending file away. *)
LEMMA RejectionSettles ==
  ASSUME TypeInv, ConsumeInv, NEW p \in Procs, NEW b \in Bundles, b = job[p],
         MovePendingToRejected(p), In(b, "pending")
  PROVE  Settled(b)'
<1>1. "pending" \in Dirs /\ "rejected" \in Dirs
  BY DEF Dirs
<1>2. MoveFile(b, "pending", "rejected") /\ Goto(p, "rejWriting")
      /\ UNCHANGED <<age, job, executed>>
  BY DEF MovePendingToRejected
<1>3. ~In(b, "pending")'
  BY <1>1, <1>2, MoveFileEffect DEF In, TypeInv, TypeOK
<1>4. Consumers(b)' \subseteq Consumers(b)
  BY <1>2 DEF Consumers, Goto, TypeInv, TypeOK, Procs
<1> QED BY <1>2, <1>3, <1>4 DEF ConsumeInv, Settled

(* Only that rename leads to "rejWriting". *)
LEMMA EntersRejWriting ==
  ASSUME TypeInv, Next, NEW q \in Procs, pc'[q] = "rejWriting"
  PROVE  /\ job'[q] = job[q]
         /\ pc[q] = "rejWriting" \/ (MovePendingToRejected(q) /\ In(job[q], "pending"))
<1>1. CASE \E b \in Bundles : Stage(b) \/ Age(b)
  BY <1>1 DEF Stage, Age
<1>2. ASSUME NEW p \in Procs, FileStep(p)
      PROVE  /\ job'[q] = job[q]
             /\ pc[q] = "rejWriting" \/ (MovePendingToRejected(q) /\ In(job[q], "pending"))
  <2>1. UNCHANGED job
    BY <1>2 DEF FileStep, MovePendingToRunning, RecordClaim, WriteFinal, MoveRunningToFinal,
            MovePendingToRejected, RecordReject, WriteMoved, MoveAny
  <2>2. \E label \in Labels :
          /\ Goto(p, label)
          /\ label # "rejWriting" \/ (MovePendingToRejected(p) /\ In(job[p], "pending"))
    BY <1>2 DEF FileStep, MovePendingToRunning, RecordClaim, WriteFinal, MoveRunningToFinal,
            MovePendingToRejected, RecordReject, WriteMoved, MoveAny, Labels, Resume
  <2> QED BY <2>1, <2>2 DEF Goto, TypeInv, TypeOK
<1>3. ASSUME NEW p \in Procs,
             \/ \E b \in Bundles : StartApply(p, b) \/ StartReject(p, b) \/ StartCancel(p, b)
             \/ AcquireLock(p) \/ ReleaseLock(p) \/ Crash(p) \/ FileError(p)
             \/ MemoryStep(p)
             \/ BeginExecution(p) \/ WriteHandoff(p) \/ HandOffMoved(p)
             \/ StartSweep(p) \/ SweepOne(p) \/ EndSweep(p)
      PROVE  job'[q] = job[q] /\ pc[q] = "rejWriting"
  <2>1. UNCHANGED pc \/ \E label \in Labels \ {"rejWriting"} : Goto(p, label)
    BY <1>3
    DEF StartApply, StartReject, StartCancel, Start, AcquireLock, ReleaseLock, Crash,
        FileError, MemoryStep, CheckClaim, CheckReject, EndExecution, CheckFinal, FindAgain,
        BeginExecution, WriteHandoff, HandOffMoved, StartSweep, SweepOne, EndSweep,
        Labels, Resume
  <2>2. \/ UNCHANGED job
        \/ \E b \in Bundles : job' = [job EXCEPT ![p] = b]
           /\ \E label \in Labels \ {"rejWriting"} : Goto(p, label)
    BY <1>3
    DEF StartApply, StartReject, StartCancel, Start, AcquireLock, ReleaseLock, Crash,
        FileError, MemoryStep, CheckClaim, CheckReject, EndExecution, CheckFinal, FindAgain,
        BeginExecution, WriteHandoff, HandOffMoved, StartSweep, SweepOne, EndSweep,
        Labels, Resume, TypeInv, TypeOK
  <2>3. pc[q] = "rejWriting"
    BY <2>1 DEF Goto, TypeInv, TypeOK
  <2>4. job'[q] = job[q]
    BY <2>2 DEF Goto, TypeInv, TypeOK
  <2> QED BY <2>3, <2>4
<1> QED BY <1>1, <1>2, <1>3, StepKinds DEF Procs

(* Every step keeps RejectInv if nobody cancels. *)
LEMMA RejectStepInv ==
  ASSUME Cancellers = {}, TypeInv, ConsumeInv, RejectInv, Next
  PROVE  RejectInv'
<1>1. ASSUME NEW b \in Bundles, In(b, "rejected")'
      PROVE  Settled(b)'
  <2>1. CASE In(b, "rejected")
    BY <2>1, SettledStable DEF RejectInv
  <2>2. CASE ~In(b, "rejected")
    <3>1. PICK p \in Procs : FileStep(p) /\ ~(UNCHANGED file)
      <4>1. ~(UNCHANGED file)
        BY <1>1, <2>2 DEF In
      <4>2. ASSUME NEW c \in Bundles, Stage(c) PROVE FALSE
        <5>1. /\ [status |-> "pending", exec |-> None] \in Record
              /\ {"pending", "rejected"} \subseteq Dirs
          BY DEF Record, Dirs
        <5> QED BY <1>1, <2>2, <4>2, <5>1, FileAppears DEF Stage, TypeInv, TypeOK
      <4>3. (\E c \in Bundles : Stage(c)) \/ \E p \in Procs : FileStep(p)
        BY <4>1, StepKinds
        DEF Age, StartApply, StartReject, StartCancel, Start, AcquireLock, ReleaseLock, Crash,
            FileError, MemoryStep, CheckClaim, CheckReject, EndExecution, CheckFinal,
            FindAgain, BeginExecution, WriteHandoff, HandOffMoved,
            StartSweep, SweepOne, EndSweep
      <4> QED BY <4>1, <4>2, <4>3
    <3>2. /\ b = job[p]
          /\ RecordReject(p) \/ (MovePendingToRejected(p) /\ In(job[p], "pending"))
      <4>1. PICK d \in Dirs \ {"pending"} :
              /\ \/ \E record \in Record : WriteFile(job[p], d, record)
                 \/ \E from \in Dirs : MoveFile(job[p], from, d)
              /\ \/ d # "rejected"
                 \/ RecordReject(p)
                 \/ MovePendingToRejected(p) /\ In(job[p], "pending")
        BY <3>1, FileStepTarget
      <4>2. "rejected" \in Dirs /\ job[p] \in Bundles
        BY <3>1, FileStepTarget DEF Dirs
      <4>3. b = job[p] /\ d = "rejected"
        BY <1>1, <2>2, <4>1, <4>2, FileAppears DEF TypeInv, TypeOK
      <4>4. RecordReject(p) \/ (MovePendingToRejected(p) /\ In(job[p], "pending"))
        BY <4>1, <4>3, Zenon
      <4> QED BY <4>3, <4>4, Zenon
    <3>3. CASE RecordReject(p)
      BY <3>2, <3>3, SettledStable DEF RecordReject, RejectInv
    <3>4. CASE MovePendingToRejected(p) /\ In(job[p], "pending")
      BY <3>2, <3>4, RejectionSettles
    <3> QED BY <3>2, <3>3, <3>4
  <2> QED BY <2>1, <2>2
<1>2. ASSUME NEW q \in Procs, NEW b \in Bundles, pc'[q] = "rejWriting", job'[q] = b
      PROVE  Settled(b)'
  <2>1. /\ job[q] = b
        /\ pc[q] = "rejWriting" \/ (MovePendingToRejected(q) /\ In(b, "pending"))
    BY <1>2, EntersRejWriting
  <2>2. CASE pc[q] = "rejWriting"
    BY <2>1, <2>2, SettledStable DEF RejectInv
  <2>3. CASE MovePendingToRejected(q) /\ In(b, "pending")
    BY <2>1, <2>3, RejectionSettles
  <2> QED BY <2>1, <2>2, <2>3
<1> QED BY <1>1, <1>2 DEF RejectInv

(* If nobody cancels through MCP, a bundle that is rejected, or still      *)
(* pending, has not been executed.                                         *)
THEOREM RejectedIsUnexecuted ==
  ASSUME Cancellers = {}
  PROVE  Spec => []RejectedNeverExecuted
<1>1. Init => ConsumeInv /\ RejectInv
  BY DEF Init, ConsumeInv, RejectInv, Consumers, In, Dirs, Procs
<1>2. TypeInv /\ ConsumeInv /\ RejectInv /\ [Next]_vars => RejectInv'
  <2>1. CASE UNCHANGED vars
    BY <2>1 DEF vars, RejectInv, Settled, Consumers, In
  <2> QED BY <2>1, RejectStepInv
<1>3. TypeInv /\ ConsumeInv /\ RejectInv => RejectedNeverExecuted
  BY DEF TypeInv, TypeOK, ConsumeInv, RejectInv, Settled, Consumers, RejectedNeverExecuted
<1> QED BY <1>1, <1>2, <1>3, ConsumeStep, TypeCorrect, PTL DEF Spec
------------------------------------------------------------------------------
(* One record per bundle.  Without cancellation, without bundles that wait *)
(* for a day and with one watcher, a running record has one writer at any  *)
(* time: the runner that claimed it, until that runner is gone, and then   *)
(* the watcher that read its name.                                         *)

(* r has claimed its bundle and has not given it a final status yet. *)
OwnerLabels == {"recording", "claimed", "executing", "finChecking", "finWriting", "finMoving"}
FinalizingLabels == {"finChecking", "finWriting", "finMoving"}

OneDirectory ==
  \A b \in Bundles : IF age[b] = "unstaged" THEN Present(b) = {}
                     ELSE \E d \in Dirs : Present(b) = {d}

PendingUnowned == \A b \in Bundles : In(b, "pending") => file[b]["pending"].exec = None

(* The running record of a runner's bundle names the runner, once it has   *)
(* recorded its claim.                                                     *)
OwnerAt(r) ==
  /\ pc[r] \in OwnerLabels \cup {"claiming"} => held[r].exec = r
  /\ pc[r] \in OwnerLabels =>
       /\ In(job[r], "running")
       /\ file[job[r]]["running"].exec = IF pc[r] = "recording" THEN None ELSE r
  /\ pc[r] \in {"recording", "claimed"} => r \notin executed[job[r]]
  /\ pc[r] \in {"executing"} \cup FinalizingLabels => r \in executed[job[r]]

(* A name in a running record is that of the owner, alive or dead. *)
NamedAt(b) ==
  LET x == file[b]["running"].exec IN
  In(b, "running") /\ x # None => Gone(x) \/ LiveOwner(x, b)

NamedOwner == \A b \in Bundles : NamedAt(b)

(* A watcher finalizes only a record that names a dead runner. *)
SweepAt(w) ==
  pc[w] \in FinalizingLabels =>
    /\ held[w].status = "interrupted"
    /\ held[w].exec \in Runners
    /\ Gone(held[w].exec)
    /\ pc[w] # "finChecking" =>
         /\ In(job[w], "running")
         /\ file[job[w]]["running"].exec = held[w].exec

(* A final record is there before it is rewritten or handed off. *)
FinalAt(p) ==
  /\ pc[p] = "rejWriting" => In(job[p], "rejected")
  /\ pc[p] = "handingOff" => In(job[p], held[p].status)

HandedOff == \A b \in Bundles : handoff[b] # None => In(b, handoff[b])

(* No bundle has waited for a day. *)
Young == \A b \in Bundles : age[b] # "old"

RecordInv == /\ Young /\ OneDirectory /\ PendingUnowned /\ NamedOwner /\ HandedOff
             /\ \A r \in Runners : OwnerAt(r)
             /\ \A w \in Watchers : SweepAt(w)
             /\ \A p \in Procs : FinalAt(p)

(* What the claims below need of the environment. *)
OneSweeper == /\ Cancellers = {} /\ MayAge = {}
              /\ \A v, w \in Watchers : v = w

(* A bundle has one owner. *)
LEMMA OneOwner ==
  ASSUME TypeInv, ConsumeInv, RecordInv,
         NEW b \in Bundles, NEW r \in Runners, NEW s \in Runners,
         LiveOwner(r, b), LiveOwner(s, b)
  PROVE  r = s
<1>1. r \in Consumers(b) /\ s \in Consumers(b)
  BY DEF LiveOwner, Consumers, RecordInv, OwnerAt, FinalizingLabels
<1> QED BY <1>1 DEF ConsumeInv

(* A bundle is in one directory. *)
LEMMA OneDir ==
  ASSUME OneDirectory, NEW b \in Bundles, NEW d \in Dirs, NEW e \in Dirs, In(b, d), In(b, e)
  PROVE  d = e /\ age[b] # "unstaged" /\ Present(b) = {d}
BY DEF OneDirectory, Present

(* Renaming a bundle's only file: it is then where it was moved to. *)
LEMMA MoveOnly ==
  ASSUME TypeInv, OneDirectory, NEW b \in Bundles, NEW from \in Dirs, NEW to \in Dirs,
         from # to, In(b, from), MoveFile(b, from, to), UNCHANGED age
  PROVE  /\ OneDirectory'
         /\ In(b, to)' /\ file'[b][to] = file[b][from]
         /\ \A e \in Dirs \ {to} : ~In(b, e)'
         /\ \A c \in Bundles \ {b} : \A e \in Dirs : file'[c][e] = file[c][e]
<1>1. \A c \in Bundles : \A e \in Dirs :
        file'[c][e] = IF c = b /\ e = to THEN file[b][from]
                      ELSE IF c = b /\ e = from THEN NoFile ELSE file[c][e]
  BY MoveFileEffect DEF TypeInv, TypeOK
<1>2. \A e \in Dirs \ {from} : ~In(b, e)
  BY OneDir
<1>3. /\ In(b, to)' /\ file'[b][to] = file[b][from]
      /\ \A e \in Dirs \ {to} : ~In(b, e)'
  BY <1>1, <1>2 DEF In
<1>4. \A c \in Bundles \ {b} : \A e \in Dirs : file'[c][e] = file[c][e]
  BY <1>1
<1>5. \A c \in Bundles \ {b} : Present(c)' = Present(c)
  BY <1>4 DEF Present, In
<1>6. Present(b)' = {to} /\ age[b] # "unstaged"
  BY <1>3, OneDir DEF Present
<1>7. OneDirectory'
  BY <1>5, <1>6 DEF OneDirectory
<1> QED BY <1>3, <1>4, <1>7

(* Writing a bundle's only file again. *)
LEMMA WriteOnly ==
  ASSUME TypeInv, OneDirectory, NEW b \in Bundles, NEW d \in Dirs, NEW record \in Record,
         In(b, d), WriteFile(b, d, record), UNCHANGED age
  PROVE  /\ OneDirectory'
         /\ file'[b][d] = record
         /\ \A c \in Bundles : \A e \in Dirs : In(c, e)' <=> In(c, e)
         /\ \A c \in Bundles : \A e \in Dirs :
              c # b \/ e # d => file'[c][e] = file[c][e]
<1>1. \A c \in Bundles : \A e \in Dirs :
        file'[c][e] = IF c = b /\ e = d THEN record ELSE file[c][e]
  BY WriteFileEffect DEF TypeInv, TypeOK
<1>2. record # NoFile
  BY NoneAssumption DEF Record, NoFile, Dirs, Terminal
<1>3. \A c \in Bundles : \A e \in Dirs : In(c, e)' <=> In(c, e)
  BY <1>1, <1>2 DEF In
<1>4. \A c \in Bundles : Present(c)' = Present(c)
  BY <1>3 DEF Present
<1>5. OneDirectory'
  BY <1>4 DEF OneDirectory
<1> QED BY <1>1, <1>3, <1>5

(* A step of p that leaves the files alone keeps RecordInv if it keeps what *)
(* RecordInv says of p.                                                    *)
LEMMA QuietKeepsRecords ==
  ASSUME TypeInv, RecordInv, NEW p \in Procs, OnlyMoves(p), UNCHANGED <<file, age>>,
         \A b \in Bundles : \A r \in Runners \ {p} :
           r \in executed'[b] <=> r \in executed[b],
         ~Gone(p),
         \A b \in Bundles : LiveOwner(p, b) => LiveOwner(p, b)' \/ Gone(p)',
         p \in Runners => OwnerAt(p)',
         p \in Watchers => SweepAt(p)',
         FinalAt(p)', HandedOff'
  PROVE  RecordInv'
<1>1. \A b \in Bundles : \A d \in Dirs : In(b, d)' <=> In(b, d)
  BY DEF In
<1>2. Young' /\ OneDirectory' /\ PendingUnowned'
  <2>1. \A b \in Bundles : Present(b)' = Present(b)
    BY <1>1 DEF Present
  <2> QED BY <1>1, <2>1 DEF RecordInv, Young, OneDirectory, PendingUnowned, Dirs
<1>3. \A r \in Procs : Gone(r) => Gone(r)'
  BY DEF Gone, OnlyMoves
<1>4. \A r \in Runners \ {p} : OwnerAt(r)'
  <2> SUFFICES ASSUME NEW r \in Runners \ {p} PROVE OwnerAt(r)'
    OBVIOUS
  <2>1. OwnerAt(r) /\ pc'[r] = pc[r] /\ job'[r] = job[r] /\ held'[r] = held[r]
    BY DEF RecordInv, OnlyMoves, Procs
  <2>2. pc[r] \in OwnerLabels => job[r] \in Bundles
    BY DEF TypeInv, LabelInv, LabelAt, Procs, Working, Labels, OwnerLabels
  <2> QED BY <1>1, <2>1, <2>2 DEF OwnerAt, OwnerLabels, FinalizingLabels, Dirs
<1>5. \A w \in Watchers \ {p} : SweepAt(w)'
  <2> SUFFICES ASSUME NEW w \in Watchers \ {p} PROVE SweepAt(w)'
    OBVIOUS
  <2>1. SweepAt(w) /\ pc'[w] = pc[w] /\ job'[w] = job[w] /\ held'[w] = held[w]
    BY DEF RecordInv, OnlyMoves, Procs
  <2>2. pc[w] \in FinalizingLabels => job[w] \in Bundles
    BY DEF TypeInv, LabelInv, LabelAt, Procs, Working, Labels, FinalizingLabels
  <2>3. held[w].exec \in Runners => (Gone(held[w].exec) => Gone(held[w].exec)')
    BY <1>3, <2>1 DEF Procs, Gone
  <2> QED BY <1>1, <2>1, <2>2, <2>3 DEF SweepAt, FinalizingLabels, Dirs
<1>6. \A q \in Procs \ {p} : FinalAt(q)'
  BY DEF RecordInv, FinalAt, OnlyMoves, In
<1>7. NamedOwner'
  <2> SUFFICES ASSUME NEW b \in Bundles, In(b, "running"), file[b]["running"].exec # None
               PROVE  Gone(file[b]["running"].exec)' \/ LiveOwner(file[b]["running"].exec, b)'
    BY <1>1 DEF NamedOwner, NamedAt, In, Gone, LiveOwner
  <2> DEFINE x == file[b]["running"].exec
  <2>1. x \in Runners /\ x \in Procs /\ x' = x
    BY DEF TypeInv, TypeOK, In, Record, NoFile, Dirs, Procs
  <2>2. Gone(x) \/ LiveOwner(x, b)
    BY DEF RecordInv, NamedOwner, NamedAt
  <2> HIDE DEF x
  <2>3. Gone(x)' \/ LiveOwner(x, b)'
    BY <1>3, <2>1, <2>2 DEF LiveOwner, OnlyMoves
  <2> QED BY <2>1, <2>3 DEF x, Gone, LiveOwner
<1> QED BY <1>2, <1>4, <1>5, <1>6, <1>7 DEF RecordInv

(* A step that takes p out of its work, or changes nothing RecordInv is    *)
(* about.                                                                  *)
LEMMA RestingKeepsRecords ==
  ASSUME TypeInv, RecordInv, NEW p \in Procs, OnlyMoves(p),
         UNCHANGED <<file, age, executed>>, ~Gone(p), HandedOff',
         pc'[p] \notin OwnerLabels \cup {"claiming", "rejWriting", "handingOff"},
         p \in Runners /\ pc[p] \in OwnerLabels => Gone(p)'
  PROVE  RecordInv'
<1>1. \A b \in Bundles : LiveOwner(p, b) => Gone(p)'
  BY DEF LiveOwner, OwnerLabels
<1>2. OwnerAt(p)' /\ SweepAt(p)' /\ FinalAt(p)'
  BY DEF OwnerAt, SweepAt, FinalAt, OwnerLabels, FinalizingLabels
<1> QED BY <1>1, <1>2, QuietKeepsRecords

(* Locking, unlocking, starting, faults and the sweep's own bookkeeping. *)
LEMMA RestingSteps ==
  ASSUME TypeInv, RecordInv, NEW p \in Procs,
         \/ \E b \in Bundles : StartApply(p, b) \/ StartReject(p, b) \/ StartCancel(p, b)
         \/ AcquireLock(p) \/ ReleaseLock(p) \/ Crash(p) \/ FileError(p)
         \/ p \in Watchers /\ (StartSweep(p) \/ EndSweep(p))
  PROVE  RecordInv'
<1>1. UNCHANGED <<file, age, executed, held, source, handoff>>
  BY DEF StartApply, StartReject, StartCancel, Start, AcquireLock, ReleaseLock, Crash,
         FileError, StartSweep, EndSweep
<1>2. UNCHANGED job \/ \E b \in Bundles : job' = [job EXCEPT ![p] = b]
  BY DEF StartApply, StartReject, StartCancel, Start, AcquireLock, ReleaseLock, Crash,
         FileError, StartSweep, EndSweep
<1>3. PICK label \in Labels :
        /\ Goto(p, label)
        /\ label \notin OwnerLabels \cup {"claiming", "rejWriting", "handingOff"}
        /\ p \in Runners /\ pc[p] \in OwnerLabels => label \in {"done", "crashed"}
  <2>1. p \in Runners => p \notin Watchers
    BY ProcsAssumption
  <2> QED BY <2>1
      DEF StartApply, StartReject, StartCancel, Start, AcquireLock, ReleaseLock, Crash,
          FileError, StartSweep, EndSweep, Labels, OwnerLabels, Resume,
          ReleasingLabels, AbandoningLabels
<1>4. ~Gone(p)
  BY ResumeLabel
  DEF StartApply, StartReject, StartCancel, Start, AcquireLock, ReleaseLock, Crash,
      FileError, StartSweep, EndSweep, Gone, Busy, ReleasingLabels, AbandoningLabels
<1>5. OnlyMoves(p) /\ pc'[p] = label
  BY <1>1, <1>2, <1>3 DEF OnlyMoves, Goto, TypeInv, TypeOK
<1>6. HandedOff'
  BY <1>1 DEF RecordInv, HandedOff, In
<1> QED BY <1>1, <1>3, <1>4, <1>5, <1>6, RestingKeepsRecords DEF Gone

(* The side effects start: the owner's own claim is what starts them.      *)
LEMMA ExecutionKeepsRecords ==
  ASSUME TypeInv, RecordInv, NEW r \in Runners, BeginExecution(r)
  PROVE  RecordInv'
<1>1. r \in Procs /\ job[r] \in Bundles
  BY DEF Procs, BeginExecution, TypeInv, LabelInv, LabelAt, Working, Labels
<1>2. UNCHANGED <<file, age, job, held, source, handoff>>
  BY DEF BeginExecution
<1>3. OnlyMoves(r) /\ pc'[r] = "executing"
  BY <1>1, <1>2, GotoOnly DEF BeginExecution, Labels
<1>4. \A b \in Bundles : \A s \in Runners :
        s \in executed'[b] <=> s \in executed[b] \/ (b = job[r] /\ s = r)
  BY <1>1 DEF BeginExecution, TypeInv, TypeOK
<1>5. OwnerAt(r)'
  BY <1>1, <1>2, <1>3, <1>4 DEF BeginExecution, RecordInv, OwnerAt, OwnerLabels, FinalizingLabels, In
<1>6. \A b \in Bundles : LiveOwner(r, b) => LiveOwner(r, b)'
  BY <1>2, <1>3 DEF LiveOwner
<1>7. r \notin Watchers /\ FinalAt(r)' /\ HandedOff' /\ ~Gone(r)
  BY <1>2, <1>3, ProcsAssumption DEF FinalAt, RecordInv, HandedOff, In, BeginExecution, Gone
<1>8. \A b \in Bundles : \A s \in Runners \ {r} : s \in executed'[b] <=> s \in executed[b]
  BY <1>4
<1> QED BY <1>1, <1>2, <1>3, <1>5, <1>6, <1>7, <1>8, QuietKeepsRecords

(* The handoff is written of a final record, which stays where it is. *)
LEMMA HandoffKeepsRecords ==
  ASSUME TypeInv, RecordInv, NEW p \in Procs, WriteHandoff(p)
  PROVE  RecordInv'
<1>1. job[p] \in Bundles
  BY DEF WriteHandoff, TypeInv, LabelInv, LabelAt, Working, Labels
<1>2. UNCHANGED <<file, age, job, held, source, executed>>
  BY DEF WriteHandoff
<1>3. OnlyMoves(p) /\ pc'[p] = "releasing"
  BY <1>2, GotoOnly DEF WriteHandoff, Labels
<1>4. \A b \in Bundles : handoff'[b] = IF b = job[p] THEN held[p].status ELSE handoff[b]
  BY <1>1 DEF WriteHandoff, TypeInv, TypeOK
<1>5. In(job[p], held[p].status)
  BY DEF WriteHandoff, RecordInv, FinalAt
<1>6. HandedOff'
  <2> SUFFICES ASSUME NEW b \in Bundles, handoff'[b] # None
               PROVE  file[b][handoff'[b]] # NoFile
    BY <1>2 DEF HandedOff, In
  <2> QED BY <1>4, <1>5 DEF RecordInv, HandedOff, In
<1>7. ~Gone(p) /\ pc[p] \notin OwnerLabels
  BY DEF WriteHandoff, Gone, OwnerLabels
<1> QED BY <1>2, <1>3, <1>6, <1>7, RestingKeepsRecords DEF OwnerLabels

(* The checks of the claim and of the rejection. *)
LEMMA CheckKeepsRecords ==
  ASSUME TypeInv, RecordInv, NEW p \in Procs, CheckClaim(p) \/ CheckReject(p)
  PROVE  RecordInv'
<1>1. UNCHANGED <<file, age, job, source, executed, handoff>> /\ pc[p] = "checking"
  BY DEF CheckClaim, CheckReject
<1>2. PICK label \in Labels :
        /\ Goto(p, label)
        /\ \/ label = "releasing" /\ UNCHANGED held
           \/ label = "claiming" /\ p \in Runners
              /\ Hold(p, [status |-> "running", exec |-> p])
           \/ label = "rejecting" /\ p \notin Runners
              /\ Hold(p, [status |-> "rejected", exec |-> None])
  BY ProcsAssumption DEF CheckClaim, CheckReject, Labels
<1>3. OnlyMoves(p) /\ pc'[p] = label
  BY <1>1, <1>2 DEF OnlyMoves, Goto, Hold, TypeInv, TypeOK
<1>4. HandedOff' /\ ~Gone(p) /\ FinalAt(p)' /\ SweepAt(p)'
  BY <1>1, <1>2, <1>3 DEF RecordInv, HandedOff, In, Gone, FinalAt, SweepAt, FinalizingLabels
<1>5. p \in Runners => OwnerAt(p)'
  <2>1. label = "claiming" => held'[p].exec = p
    BY <1>2 DEF Hold, TypeInv, TypeOK
  <2> QED BY <1>2, <1>3, <2>1 DEF OwnerAt, OwnerLabels, FinalizingLabels
<1>6. \A b \in Bundles : ~LiveOwner(p, b)
  BY <1>1 DEF LiveOwner
<1> QED BY <1>1, <1>3, <1>4, <1>5, <1>6, QuietKeepsRecords

(* A verdict changes the status in memory, not the owner. *)
LEMMA VerdictKeepsRecords ==
  ASSUME TypeInv, RecordInv, NEW r \in Runners, EndExecution(r)
  PROVE  RecordInv'
<1>1. UNCHANGED <<file, age, job, source, executed, handoff>> /\ pc[r] = "executing"
  BY DEF EndExecution
<1>2. r \in Procs /\ r \notin Watchers
  BY ProcsAssumption DEF Procs
<1>3. held[r] \in Record /\ held[r].exec = r
  BY <1>1, <1>2 DEF TypeInv, LabelInv, LabelAt, RecordInv, OwnerAt, OwnerLabels
<1>4. PICK verdict \in Terminal : Hold(r, [held[r] EXCEPT !.status = verdict])
  BY DEF EndExecution
<1>5. held'[r].exec = r
  BY <1>2, <1>3, <1>4 DEF Hold, TypeInv, TypeOK, Record
<1>6. OnlyMoves(r) /\ pc'[r] = "finChecking"
  BY <1>1, <1>2, <1>4 DEF EndExecution, OnlyMoves, Goto, Hold, TypeInv, TypeOK
<1>7. HandedOff' /\ ~Gone(r) /\ FinalAt(r)'
  BY <1>1, <1>6 DEF RecordInv, HandedOff, In, Gone, FinalAt
<1>8. OwnerAt(r)'
  BY <1>1, <1>5, <1>6 DEF RecordInv, OwnerAt, OwnerLabels, FinalizingLabels, In
<1>9. \A b \in Bundles : LiveOwner(r, b) => LiveOwner(r, b)'
  BY <1>1, <1>6 DEF LiveOwner
<1> QED BY <1>1, <1>2, <1>6, <1>7, <1>8, <1>9, QuietKeepsRecords

(* The finalizer goes on only if the running record names its owner. *)
LEMMA CheckFinalKeepsRecords ==
  ASSUME TypeInv, RecordInv, NEW p \in Runners \cup Watchers, CheckFinal(p)
  PROVE  RecordInv'
<1>1. UNCHANGED <<file, age, job, source, executed, handoff>> /\ pc[p] = "finChecking"
  BY DEF CheckFinal
<1>2. p \in Procs /\ job[p] \in Bundles /\ held[p] \in Record
  BY <1>1 DEF Procs, TypeInv, LabelInv, LabelAt, Working, Labels
<1>3. HandedOff' /\ ~Gone(p)
  BY <1>1 DEF RecordInv, HandedOff, In, Gone
<1>4. CASE Goto(p, Resume(p)) /\ UNCHANGED held
  <2>1. OnlyMoves(p) /\ pc'[p] = Resume(p)
    BY <1>1, <1>2, <1>4, GotoOnly, ResumeLabel
  <2>2. p \in Runners => Resume(p) = "done"
    BY ProcsAssumption DEF Resume
  <2>3. Resume(p) \in {"sweeping", "done"}
    BY DEF Resume
  <2> QED BY <1>1, <1>2, <1>3, <2>1, <2>2, <2>3, RestingKeepsRecords DEF Gone, OwnerLabels
<1>5. CASE /\ In(job[p], "running") /\ Owns(p, file[job[p]]["running"])
           /\ Goto(p, "finWriting")
           /\ Hold(p, [held[p] EXCEPT !.exec = file[job[p]]["running"].exec])
  <2> DEFINE x == file[job[p]]["running"].exec
  <2>1. x = held[p].exec
    <3>1. held[p].exec # None
      <4>1. CASE p \in Runners
        BY <1>1, <4>1, NoneAssumption DEF RecordInv, OwnerAt, OwnerLabels, Procs
      <4>2. CASE p \in Watchers
        BY <1>1, <4>2, NoneAssumption DEF RecordInv, SweepAt, FinalizingLabels, Procs
      <4> QED BY <4>1, <4>2
    <3> QED BY <1>5, <3>1 DEF Owns
  <2>2. held' = held
    BY <1>2, <1>5, <2>1 DEF Hold, TypeInv, TypeOK, Record
  <2>3. OnlyMoves(p) /\ pc'[p] = "finWriting"
    BY <1>1, <1>2, <1>5, <2>2, GotoOnly DEF Labels
  <2>4. p \in Runners => OwnerAt(p)'
    BY <1>1, <2>2, <2>3 DEF RecordInv, OwnerAt, OwnerLabels, FinalizingLabels, In
  <2>5. p \in Watchers => SweepAt(p)'
    <3> SUFFICES ASSUME p \in Watchers PROVE SweepAt(p)'
      OBVIOUS
    <3>1. /\ held[p].status = "interrupted" /\ held[p].exec \in Runners
          /\ Gone(held[p].exec)
      BY <1>1 DEF RecordInv, SweepAt, FinalizingLabels
    <3>2. Gone(held[p].exec)'
      BY <1>3, <2>2, <2>3, <3>1 DEF Gone, OnlyMoves, Procs
    <3> QED BY <1>1, <1>5, <2>1, <2>2, <3>1, <3>2 DEF SweepAt, In
  <2>6. FinalAt(p)' /\ \A b \in Bundles : LiveOwner(p, b) => LiveOwner(p, b)'
    BY <1>1, <2>3 DEF FinalAt, LiveOwner
  <2> QED BY <1>1, <1>2, <1>3, <2>3, <2>4, <2>5, <2>6, QuietKeepsRecords
<1> QED BY <1>4, <1>5 DEF CheckFinal

(* A sweep takes up a bundle only if the named owner is dead. *)
LEMMA SweepOneKeepsRecords ==
  ASSUME TypeInv, RecordInv, NEW w \in Watchers, SweepOne(w)
  PROVE  RecordInv'
<1>1. UNCHANGED <<file, age, source, executed, handoff>> /\ pc[w] = "sweeping"
  BY DEF SweepOne
<1>2. w \in Procs /\ w \notin Runners
  BY ProcsAssumption DEF Procs
<1>3. HandedOff' /\ ~Gone(w) /\ \A b \in Bundles : ~LiveOwner(w, b)
  BY <1>1, <1>2 DEF RecordInv, HandedOff, In, Gone, LiveOwner
<1>4. CASE UNCHANGED <<pc, job, held>>
  BY <1>1, <1>2, <1>3, <1>4, RestingKeepsRecords DEF OnlyMoves, OwnerLabels
<1>5. CASE \E b \in todo[w] :
             /\ In(b, "running")
             /\ \E l \in Liveness(file[b]["running"]) : Stale(b, l)
             /\ Goto(w, "finChecking")
             /\ job' = [job EXCEPT ![w] = b]
             /\ Hold(w, [status |-> SweepVerdict, exec |-> file[b]["running"].exec])
  <2>1. PICK b \in Bundles :
             /\ In(b, "running")
             /\ \E l \in Liveness(file[b]["running"]) : Stale(b, l)
             /\ Goto(w, "finChecking")
             /\ job' = [job EXCEPT ![w] = b]
             /\ Hold(w, [status |-> SweepVerdict, exec |-> file[b]["running"].exec])
    BY <1>5 DEF TypeInv, TypeOK
  <2> DEFINE x == file[b]["running"].exec
  <2>2. x \in Runners \cup {None}
    BY <2>1 DEF TypeInv, TypeOK, In, Record, NoFile, Dirs
  <2>3. x # None /\ Gone(x)
    BY <2>1 DEF Liveness, Stale, RecordInv, Young
  <2> HIDE DEF x
  <2>4. OnlyMoves(w) /\ pc'[w] = "finChecking"
    BY <1>1, <1>2, <2>1 DEF OnlyMoves, Goto, Hold, TypeInv, TypeOK
  <2>5. held'[w] = [status |-> "interrupted", exec |-> x]
    BY <1>2, <2>1 DEF Hold, TypeInv, TypeOK, SweepVerdict, x
  <2>6. x \in Runners /\ pc'[x] = pc[x]
    BY <1>2, <2>2, <2>3, <2>4 DEF OnlyMoves, Procs
  <2>7. SweepAt(w)'
    BY <2>3, <2>4, <2>5, <2>6 DEF SweepAt, Gone
  <2>8. FinalAt(w)'
    BY <2>4 DEF FinalAt
  <2> QED BY <1>1, <1>2, <1>3, <2>4, <2>7, <2>8, QuietKeepsRecords
<1> QED BY <1>4, <1>5 DEF SweepOne

(* Staging creates the bundle's first file, which nobody owns. *)
LEMMA StageKeepsRecords ==
  ASSUME TypeInv, RecordInv, NEW b \in Bundles, Stage(b)
  PROVE  RecordInv'
<1> DEFINE record == [status |-> "pending", exec |-> None]
<1>1. record \in Record /\ "pending" \in Dirs /\ record # NoFile
  BY NoneAssumption DEF Record, Dirs, NoFile
<1>2. UNCHANGED <<pc, job, held, executed, handoff>>
  BY DEF Stage
<1>3. \A c \in Bundles : \A e \in Dirs :
        file'[c][e] = IF c = b /\ e = "pending" THEN record ELSE file[c][e]
  BY <1>1, WriteFileEffect DEF Stage, TypeInv, TypeOK
<1>4. \A e \in Dirs : ~In(b, e)
  BY DEF Stage, RecordInv, OneDirectory, Present
<1>5. \A c \in Bundles : age'[c] = IF c = b THEN "fresh" ELSE age[c]
  BY DEF Stage, TypeInv, TypeOK
<1>6. Present(b)' = {"pending"} /\ \A c \in Bundles \ {b} : Present(c)' = Present(c)
  BY <1>1, <1>3, <1>4 DEF Present, In
<1>7. Young' /\ OneDirectory' /\ PendingUnowned'
  <2>1. OneDirectory'
    BY <1>1, <1>5, <1>6 DEF RecordInv, OneDirectory
  <2>2. PendingUnowned'
    BY <1>1, <1>3 DEF RecordInv, PendingUnowned, In
  <2> QED BY <1>5, <2>1, <2>2 DEF RecordInv, Young
<1>8. \A c \in Bundles : \A e \in Dirs : In(c, e) => In(c, e)' /\ file'[c][e] = file[c][e]
  BY <1>3, <1>4 DEF In
<1>9. \A c \in Bundles : \A e \in Dirs \ {"pending"} : file'[c][e] = file[c][e]
  BY <1>3
<1>10. "running" \in Dirs \ {"pending"} /\ "rejected" \in Dirs /\ Terminal \subseteq Dirs
  BY DEF Dirs
<1>11. NamedOwner'
  <2> SUFFICES ASSUME NEW c \in Bundles
               PROVE  LET x == file[c]["running"].exec IN
                      In(c, "running") /\ x # None => Gone(x) \/ LiveOwner(x, c)
    BY <1>2, <1>9, <1>10 DEF NamedOwner, NamedAt, In, Gone, LiveOwner
  <2> QED BY DEF RecordInv, NamedOwner, NamedAt
<1>12. ASSUME NEW r \in Runners PROVE OwnerAt(r)'
  <2>1. pc[r] \in OwnerLabels => job[r] \in Bundles
    BY DEF TypeInv, LabelInv, LabelAt, Procs, Working, Labels, OwnerLabels
  <2> QED BY <1>2, <1>8, <1>10, <2>1 DEF RecordInv, OwnerAt
<1>13. ASSUME NEW w \in Watchers PROVE SweepAt(w)'
  <2>1. pc[w] \in FinalizingLabels => job[w] \in Bundles
    BY DEF TypeInv, LabelInv, LabelAt, Procs, Working, Labels, FinalizingLabels
  <2> QED BY <1>2, <1>8, <1>10, <2>1 DEF RecordInv, SweepAt, Gone
<1>14. ASSUME NEW p \in Procs PROVE FinalAt(p)'
  <2>1. pc[p] \in {"rejWriting", "handingOff"} =>
          job[p] \in Bundles /\ held[p].status \in Terminal \cup {"rejected"}
    BY DEF TypeInv, LabelInv, LabelAt, Working, Labels
  <2>2. FinalAt(p)
    BY DEF RecordInv
  <2>3. pc[p] = "handingOff" => In(job[p], held[p].status)'
    BY <1>2, <1>8, <1>10, <2>1, <2>2 DEF FinalAt, In
  <2>4. pc[p] = "rejWriting" => In(job[p], "rejected")'
    BY <1>2, <1>8, <1>10, <2>1, <2>2 DEF FinalAt, In
  <2> QED BY <1>2, <2>3, <2>4 DEF FinalAt
<1>15. HandedOff'
  <2> SUFFICES ASSUME NEW c \in Bundles, handoff[c] # None PROVE In(c, handoff[c])'
    BY <1>2 DEF HandedOff, In
  <2>1. handoff[c] \in Dirs
    BY <1>10 DEF TypeInv, TypeOK
  <2> QED BY <1>2, <1>8, <2>1 DEF RecordInv, HandedOff, In
<1> QED BY <1>7, <1>11, <1>12, <1>13, <1>14, <1>15 DEF RecordInv

(* Somebody other than p counts on b's running record. *)
CountedOnByOthers(p, b) ==
  \/ \E r \in Runners \ {p} : LiveOwner(r, b)
  \/ \E w \in Watchers \ {p} : job[w] = b /\ pc[w] \in {"finWriting", "finMoving"}

(* Everyone who counts on b's running record finds it there. *)
LEMMA CountedOnIsRunning ==
  ASSUME RecordInv, NEW p, NEW b, CountedOnByOthers(p, b)
  PROVE  In(b, "running")
BY DEF CountedOnByOthers, LiveOwner, RecordInv, OwnerAt, OwnerLabels, SweepAt, FinalizingLabels

(* A step of p on a file of its bundle b keeps RecordInv if it keeps what  *)
(* RecordInv says of p and of b's running record, and takes that record    *)
(* from nobody else.                                                       *)
LEMMA FileStepKeepsRecords ==
  ASSUME TypeInv, RecordInv, NEW p \in Procs, NEW b \in Bundles, job[p] = b,
         OnlyMoves(p), ~Gone(p),
         UNCHANGED <<age, job, held, executed, handoff>>,
         OneDirectory', PendingUnowned',
         \A c \in Bundles \ {b} : \A e \in Dirs : file'[c][e] = file[c][e],
         \A e \in Terminal \cup {"rejected"} : In(b, e) => In(b, e)',
         CountedOnByOthers(p, b) =>
           In(b, "running")' /\ file'[b]["running"].exec = file[b]["running"].exec,
         NamedAt(b)',
         p \in Runners => OwnerAt(p)',
         p \in Watchers => SweepAt(p)',
         FinalAt(p)'
  PROVE  RecordInv'
<1>1. \A c \in Bundles \ {b} : \A e \in Dirs : In(c, e)' <=> In(c, e)
  BY DEF In
<1>2. {"running", "rejected"} \subseteq Dirs /\ Terminal \subseteq Dirs
  BY DEF Dirs
<1>3. \A r \in Procs : Gone(r) => Gone(r)'
  BY DEF Gone, OnlyMoves
<1>4. NamedOwner'
  <2> SUFFICES ASSUME NEW c \in Bundles \ {b} PROVE NamedAt(c)'
    BY DEF NamedOwner
  <2> DEFINE x == file[c]["running"].exec
  <2>1. NamedAt(c) /\ file'[c]["running"] = file[c]["running"]
    BY <1>2 DEF RecordInv, NamedOwner
  <2>2. In(c, "running") => x \in Runners \cup {None}
    BY <1>2 DEF TypeInv, TypeOK, In, Record, NoFile
  <2>3. \A r \in Runners : Gone(r) \/ LiveOwner(r, c) => Gone(r)' \/ LiveOwner(r, c)'
    BY <1>3 DEF LiveOwner, OnlyMoves, Procs
  <2> QED BY <2>1, <2>2, <2>3 DEF NamedAt, In, Gone, LiveOwner
<1>5. ASSUME NEW r \in Runners \ {p} PROVE OwnerAt(r)'
  <2>1. OwnerAt(r) /\ pc'[r] = pc[r]
    BY DEF RecordInv, OnlyMoves, Procs
  <2>2. pc[r] \in OwnerLabels => job[r] \in Bundles
    BY DEF TypeInv, LabelInv, LabelAt, Procs, Working, Labels, OwnerLabels
  <2>3. pc[r] \in OwnerLabels /\ job[r] = b => CountedOnByOthers(p, b)
    BY DEF CountedOnByOthers, LiveOwner, OwnerLabels
  <2>4. pc[r] \in OwnerLabels => In(job[r], "running")'
    BY <1>1, <1>2, <2>1, <2>2, <2>3 DEF OwnerAt
  <2>5. pc[r] \in OwnerLabels =>
          file'[job[r]]["running"].exec = file[job[r]]["running"].exec
    BY <1>1, <1>2, <2>1, <2>2, <2>3 DEF OwnerAt
  <2> QED BY <2>1, <2>4, <2>5 DEF OwnerAt, In
<1>6. ASSUME NEW w \in Watchers \ {p} PROVE SweepAt(w)'
  <2>1. SweepAt(w) /\ pc'[w] = pc[w]
    BY DEF RecordInv, OnlyMoves, Procs
  <2>2. pc[w] \in FinalizingLabels => job[w] \in Bundles
    BY DEF TypeInv, LabelInv, LabelAt, Procs, Working, Labels, FinalizingLabels
  <2>3. pc[w] \in FinalizingLabels \ {"finChecking"} /\ job[w] = b => CountedOnByOthers(p, b)
    BY DEF CountedOnByOthers, FinalizingLabels
  <2>4. pc[w] \in FinalizingLabels \ {"finChecking"} =>
          /\ In(job[w], "running")'
          /\ file'[job[w]]["running"].exec = file[job[w]]["running"].exec
    BY <1>1, <1>2, <2>1, <2>2, <2>3 DEF SweepAt
  <2>5. held[w].exec \in Runners => (Gone(held[w].exec) => Gone(held[w].exec)')
    BY <1>3 DEF Procs, Gone
  <2> QED BY <2>1, <2>4, <2>5 DEF SweepAt, In
<1>7. ASSUME NEW c \in Bundles, NEW e \in Terminal \cup {"rejected"}, In(c, e)
      PROVE  In(c, e)'
  BY <1>1, <1>2, <1>7
<1>8. ASSUME NEW q \in Procs \ {p} PROVE FinalAt(q)'
  <2>1. FinalAt(q) /\ pc'[q] = pc[q]
    BY DEF RecordInv, OnlyMoves
  <2>2. pc[q] \in {"rejWriting", "handingOff"} =>
          job[q] \in Bundles /\ held[q].status \in Terminal \cup {"rejected"}
    BY DEF TypeInv, LabelInv, LabelAt, Working, Labels
  <2>3. pc[q] = "rejWriting" => In(job[q], "rejected")'
    BY <1>7, <2>1, <2>2 DEF FinalAt, In
  <2>4. pc[q] = "handingOff" => In(job[q], held[q].status)'
    BY <1>7, <2>1, <2>2 DEF FinalAt, In
  <2> QED BY <2>1, <2>3, <2>4 DEF FinalAt
<1>9. HandedOff'
  <2> SUFFICES ASSUME NEW c \in Bundles, handoff[c] # None PROVE In(c, handoff[c])'
    BY DEF HandedOff, In
  <2>1. handoff[c] \in Terminal \cup {"rejected"}
    BY DEF TypeInv, TypeOK
  <2> QED BY <1>7, <2>1 DEF RecordInv, HandedOff, In
<1>10. Young'
  BY DEF RecordInv, Young
<1> QED BY <1>4, <1>5, <1>6, <1>8, <1>9, <1>10 DEF RecordInv

(* The claiming rename: nobody counted on a running record of the bundle,  *)
(* because it was pending.                                                 *)
LEMMA ClaimKeepsRecords ==
  ASSUME TypeInv, ConsumeInv, RecordInv, NEW r \in Runners, MovePendingToRunning(r)
  PROVE  RecordInv'
<1>1. r \in Procs /\ r \notin Watchers /\ job[r] \in Bundles
  BY ProcsAssumption DEF Procs, MovePendingToRunning, TypeInv, LabelInv, LabelAt, Working, Labels
<1>2. UNCHANGED <<age, job, held, source, executed, handoff>> /\ pc[r] = "claiming"
  BY DEF MovePendingToRunning
<1>3. CASE ~In(job[r], "pending")
  <2>1. OnlyMoves(r) /\ pc'[r] = "releasing" /\ UNCHANGED file
    BY <1>1, <1>2, <1>3, GotoOnly DEF MovePendingToRunning, Labels
  <2>2. HandedOff'
    BY <1>2, <2>1 DEF RecordInv, HandedOff, In
  <2> QED BY <1>1, <1>2, <2>1, <2>2, RestingKeepsRecords DEF OwnerLabels, Gone
<1>4. CASE In(job[r], "pending")
  <2> PICK b \in Bundles : b = job[r]
    BY <1>1
  <2>0. "pending" \in Dirs /\ "running" \in Dirs /\ Terminal \subseteq Dirs /\ "rejected" \in Dirs
    BY DEF Dirs
  <2>1. OnlyMoves(r) /\ pc'[r] = "recording" /\ MoveFile(b, "pending", "running")
    BY <1>1, <1>2, <1>4, GotoOnly DEF MovePendingToRunning, Labels
  <2>2. /\ OneDirectory'
        /\ In(b, "running")' /\ file'[b]["running"] = file[b]["pending"]
        /\ \A e \in Dirs \ {"running"} : ~In(b, e)'
        /\ \A c \in Bundles \ {b} : \A e \in Dirs : file'[c][e] = file[c][e]
    BY <1>1, <1>2, <1>4, <2>0, <2>1, MoveOnly DEF RecordInv
  <2>3. file'[b]["running"].exec = None
    BY <1>1, <1>4, <2>2 DEF RecordInv, PendingUnowned
  <2>4. PendingUnowned'
    BY <2>0, <2>2 DEF RecordInv, PendingUnowned, In
  <2>5. \A e \in Dirs \ {"pending"} : ~In(b, e)
    BY <1>1, <1>4, <2>0, OneDir DEF RecordInv
  <2>6. ~CountedOnByOthers(r, b)
    BY <2>0, <2>5, CountedOnIsRunning
  <2>7. \A e \in Terminal \cup {"rejected"} : ~In(b, e)
    BY <2>0, <2>5 DEF Terminal
  <2>8. OwnerAt(r)'
    <3>1. r \notin executed[b]
      BY <1>1, <1>4 DEF ConsumeInv, Consumers
    <3>2. held[r].exec = r
      BY <1>2 DEF RecordInv, OwnerAt
    <3>3. In(job[r], "running")' /\ file'[job'[r]]["running"].exec = None
      BY <1>2, <2>2, <2>3 DEF In
    <3> QED BY <1>2, <2>1, <3>1, <3>2, <3>3 DEF OwnerAt, OwnerLabels, FinalizingLabels, In
  <2>9. FinalAt(r)' /\ ~Gone(r)
    BY <1>2, <2>1 DEF FinalAt, Gone
  <2>10. NamedAt(b)'
    BY <2>3 DEF NamedAt
  <2> QED BY <1>1, <1>2, <2>1, <2>2, <2>4, <2>6, <2>7, <2>8, <2>9, <2>10, FileStepKeepsRecords
<1> QED BY <1>3, <1>4

(* Recording the claim: the claimant is alone with the record it has       *)
(* renamed, and no watcher looks at a record without a name.               *)
LEMMA RecordKeepsRecords ==
  ASSUME TypeInv, ConsumeInv, RecordInv, NEW r \in Runners, RecordClaim(r)
  PROVE  RecordInv'
<1> PICK b \in Bundles : b = job[r]
  BY DEF Procs, RecordClaim, TypeInv, LabelInv, LabelAt, Working, Labels
<1>1. r \in Procs /\ r \notin Watchers /\ held[r] \in Record
  BY ProcsAssumption DEF Procs, RecordClaim, TypeInv, LabelInv, LabelAt, Working, Labels
<1>2. /\ UNCHANGED <<age, job, held, source, executed, handoff>> /\ pc[r] = "recording"
      /\ WriteFile(b, "running", held[r])
  BY DEF RecordClaim
<1>3. OnlyMoves(r) /\ pc'[r] = "claimed"
  BY <1>1, <1>2, GotoOnly DEF RecordClaim, Labels
<1>4. /\ In(b, "running") /\ file[b]["running"].exec = None /\ held[r].exec = r
      /\ r \notin executed[b]
  BY <1>2 DEF RecordInv, OwnerAt, OwnerLabels
<1>5. "running" \in Dirs /\ "pending" \in Dirs /\ Terminal \subseteq Dirs /\ "rejected" \in Dirs
  BY DEF Dirs
<1>6. /\ OneDirectory'
      /\ file'[b]["running"] = held[r]
      /\ \A c \in Bundles : \A e \in Dirs : In(c, e)' <=> In(c, e)
      /\ \A c \in Bundles : \A e \in Dirs :
           c # b \/ e # "running" => file'[c][e] = file[c][e]
  BY <1>1, <1>2, <1>4, <1>5, WriteOnly DEF RecordInv
<1>7. PendingUnowned'
  BY <1>5, <1>6 DEF RecordInv, PendingUnowned
<1>8. ~CountedOnByOthers(r, b)
  <2>1. ASSUME NEW s \in Runners \ {r}, LiveOwner(s, b) PROVE FALSE
    <3>1. LiveOwner(r, b)
      BY <1>2 DEF LiveOwner
    <3> QED BY <1>1, <2>1, <3>1, OneOwner
  <2>2. ASSUME NEW w \in Watchers, job[w] = b, pc[w] \in {"finWriting", "finMoving"} PROVE FALSE
    <3>1. file[b]["running"].exec \in Runners
      BY <2>2 DEF RecordInv, SweepAt, FinalizingLabels
    <3> QED BY <1>4, <3>1, NoneAssumption DEF Procs
  <2> QED BY <2>1, <2>2 DEF CountedOnByOthers
<1>9. OwnerAt(r)'
  <2>1. In(job[r], "running")' /\ file'[job'[r]]["running"].exec = r
    BY <1>1, <1>2, <1>4, <1>5, <1>6 DEF In
  <2> QED BY <1>2, <1>3, <1>4, <2>1 DEF OwnerAt, OwnerLabels, FinalizingLabels, In
<1>10. FinalAt(r)' /\ ~Gone(r)
  BY <1>2, <1>3 DEF FinalAt, Gone
<1>11. NamedAt(b)'
  BY <1>2, <1>3, <1>4, <1>6 DEF NamedAt, LiveOwner
<1>12. \A e \in Terminal \cup {"rejected"} : In(b, e) => In(b, e)'
  BY <1>1, <1>5, <1>6
<1> QED BY <1>1, <1>2, <1>3, <1>6, <1>7, <1>8, <1>9, <1>10, <1>11, <1>12, FileStepKeepsRecords

(* Writing the final status: the record keeps its name. *)
LEMMA FinalKeepsRecords ==
  ASSUME TypeInv, RecordInv, NEW p \in Runners \cup Watchers, WriteFinal(p)
  PROVE  RecordInv'
<1> PICK b \in Bundles : b = job[p]
  BY DEF Procs, WriteFinal, TypeInv, LabelInv, LabelAt, Working, Labels
<1>1. p \in Procs /\ held[p] \in Record
  BY DEF Procs, WriteFinal, TypeInv, LabelInv, LabelAt, Working, Labels
<1>2. /\ UNCHANGED <<age, job, held, source, executed, handoff>> /\ pc[p] = "finWriting"
      /\ WriteFile(b, "running", held[p])
  BY DEF WriteFinal
<1>3. OnlyMoves(p) /\ pc'[p] = "finMoving"
  BY <1>1, <1>2, GotoOnly DEF WriteFinal, Labels
<1>4. In(b, "running") /\ file[b]["running"].exec = held[p].exec
  <2>1. CASE p \in Runners
    BY <1>2, <2>1 DEF RecordInv, OwnerAt, OwnerLabels
  <2>2. CASE p \in Watchers
    BY <1>2, <2>2 DEF RecordInv, SweepAt, FinalizingLabels
  <2> QED BY <2>1, <2>2
<1>5. "running" \in Dirs /\ "pending" \in Dirs /\ Terminal \subseteq Dirs /\ "rejected" \in Dirs
  BY DEF Dirs
<1>6. /\ OneDirectory'
      /\ file'[b]["running"] = held[p]
      /\ \A c \in Bundles : \A e \in Dirs : In(c, e)' <=> In(c, e)
      /\ \A c \in Bundles : \A e \in Dirs :
           c # b \/ e # "running" => file'[c][e] = file[c][e]
  BY <1>1, <1>2, <1>4, <1>5, WriteOnly DEF RecordInv
<1>7. PendingUnowned'
  BY <1>5, <1>6 DEF RecordInv, PendingUnowned
<1>8. In(b, "running")' /\ file'[b]["running"].exec = file[b]["running"].exec
  BY <1>1, <1>4, <1>5, <1>6
<1>9. p \in Runners => OwnerAt(p)'
  BY <1>2, <1>3, <1>8 DEF RecordInv, OwnerAt, OwnerLabels, FinalizingLabels, In
<1>10. FinalAt(p)' /\ ~Gone(p)
  BY <1>2, <1>3 DEF FinalAt, Gone
<1>11. p \in Watchers => SweepAt(p)'
  <2> SUFFICES ASSUME p \in Watchers PROVE SweepAt(p)'
    OBVIOUS
  <2>1. /\ held[p].status = "interrupted" /\ held[p].exec \in Runners /\ Gone(held[p].exec)
    BY <1>2 DEF RecordInv, SweepAt, FinalizingLabels
  <2>2. Gone(held[p].exec)'
    BY <1>2, <1>3, <1>10, <2>1 DEF OnlyMoves, Gone, Procs
  <2> QED BY <1>2, <1>4, <1>8, <2>1, <2>2 DEF SweepAt, In
<1>12. NamedAt(b)'
  <2> DEFINE x == file[b]["running"].exec
  <2>1. x \in Runners \cup {None} /\ (x # None => Gone(x) \/ LiveOwner(x, b))
    BY <1>1, <1>4 DEF Record, RecordInv, NamedOwner, NamedAt
  <2>2. x # None => Gone(x)' \/ LiveOwner(x, b)'
    BY <1>2, <1>3, <1>8, <1>10, <2>1 DEF OnlyMoves, Gone, LiveOwner, Procs
  <2> QED BY <1>8, <2>2 DEF NamedAt, Gone, LiveOwner
<1>13. \A e \in Terminal \cup {"rejected"} : In(b, e) => In(b, e)'
  BY <1>1, <1>5, <1>6
<1> QED BY <1>1, <1>2, <1>3, <1>6, <1>7, <1>8, <1>9, <1>10, <1>11, <1>12, <1>13,
           FileStepKeepsRecords

(* Whoever moves the running record to its final directory is the only one *)
(* who counts on it: the live owner, or the one watcher after the owner's  *)
(* end.                                                                    *)
LEMMA FinalizerIsAlone ==
  ASSUME OneSweeper, TypeInv, ConsumeInv, RecordInv, NEW p \in Runners \cup Watchers,
         NEW b \in Bundles, b = job[p], pc[p] = "finMoving"
  PROVE  In(b, "running") /\ ~CountedOnByOthers(p, b)
<1>1. In(b, "running")
  BY DEF RecordInv, OwnerAt, OwnerLabels, SweepAt, FinalizingLabels
<1>2. CASE p \in Runners
  <2>1. LiveOwner(p, b) /\ file[b]["running"].exec = p
    BY <1>2 DEF LiveOwner, RecordInv, OwnerAt, OwnerLabels
  <2>2. ASSUME NEW r \in Runners \ {p}, LiveOwner(r, b) PROVE FALSE
    BY <1>2, <2>1, <2>2, OneOwner
  <2>3. ASSUME NEW w \in Watchers, job[w] = b, pc[w] \in {"finWriting", "finMoving"} PROVE FALSE
    <3>1. Gone(p)
      BY <2>1, <2>3 DEF RecordInv, SweepAt, FinalizingLabels
    <3> QED BY <3>1 DEF Gone
  <2> QED BY <1>1, <2>2, <2>3 DEF CountedOnByOthers
<1>3. CASE p \in Watchers
  <2>1. /\ file[b]["running"].exec = held[p].exec /\ held[p].exec \in Runners
        /\ Gone(held[p].exec)
    BY <1>3 DEF RecordInv, SweepAt, FinalizingLabels
  <2>2. ASSUME NEW r \in Runners, LiveOwner(r, b) PROVE FALSE
    <3>1. file[b]["running"].exec \in {None, r} /\ ~Gone(r)
      BY <2>2 DEF LiveOwner, RecordInv, OwnerAt, OwnerLabels, Gone
    <3> QED BY <2>1, <3>1, NoneAssumption DEF Procs
  <2>3. \A w \in Watchers : w = p
    BY <1>3 DEF OneSweeper
  <2> QED BY <1>1, <2>2, <2>3 DEF CountedOnByOthers
<1> QED BY <1>2, <1>3

(* The final rename. *)
LEMMA FinishKeepsRecords ==
  ASSUME OneSweeper, TypeInv, ConsumeInv, RecordInv, NEW p \in Runners \cup Watchers,
         MoveRunningToFinal(p)
  PROVE  RecordInv'
<1> PICK b \in Bundles : b = job[p]
  BY DEF Procs, MoveRunningToFinal, TypeInv, LabelInv, LabelAt, Working, Labels
<1>1. p \in Procs /\ held[p].status \in Terminal
  BY DEF Procs, MoveRunningToFinal, TypeInv, LabelInv, LabelAt
<1>2. UNCHANGED <<age, job, held, source, executed, handoff>> /\ pc[p] = "finMoving"
  BY DEF MoveRunningToFinal
<1>3. In(b, "running") /\ ~CountedOnByOthers(p, b)
  BY <1>2, FinalizerIsAlone
<1>4. MoveFile(b, "running", held[p].status) /\ Goto(p, "handingOff")
  BY <1>3 DEF MoveRunningToFinal
<1>5. OnlyMoves(p) /\ pc'[p] = "handingOff"
  BY <1>1, <1>2, <1>4, GotoOnly DEF Labels
<1>6. PICK t \in Terminal : t = held[p].status
  BY <1>1
<1>7. /\ "running" \in Dirs /\ "pending" \in Dirs /\ Terminal \subseteq Dirs /\ "rejected" \in Dirs
      /\ \A d \in Terminal : d \notin {"running", "pending", "rejected"}
      /\ "running" \notin {"pending", "rejected"}
  BY DEF Dirs, Terminal
<1>8. /\ OneDirectory'
      /\ In(b, t)' /\ file'[b][t] = file[b]["running"]
      /\ \A e \in Dirs \ {t} : ~In(b, e)'
      /\ \A c \in Bundles \ {b} : \A e \in Dirs : file'[c][e] = file[c][e]
  BY <1>2, <1>3, <1>4, <1>6, <1>7, MoveOnly DEF RecordInv
<1>9. PendingUnowned'
  BY <1>7, <1>8 DEF RecordInv, PendingUnowned, In
<1>10. \A e \in Terminal \cup {"rejected"} : ~In(b, e)
  BY <1>3, <1>7, OneDir DEF RecordInv
<1>11. FinalAt(p)' /\ ~Gone(p)
  BY <1>2, <1>5, <1>6, <1>8 DEF FinalAt, Gone, In
<1>12. OwnerAt(p)' /\ SweepAt(p)'
  BY <1>5 DEF OwnerAt, SweepAt, OwnerLabels, FinalizingLabels
<1>13. NamedAt(b)'
  BY <1>7, <1>8 DEF NamedAt
<1> QED BY <1>1, <1>2, <1>3, <1>5, <1>8, <1>9, <1>10, <1>11, <1>12, <1>13,
           FileStepKeepsRecords

(* The rejecting rename. *)
LEMMA RejectKeepsRecords ==
  ASSUME TypeInv, RecordInv, NEW p \in Rejecters, MovePendingToRejected(p)
  PROVE  RecordInv'
<1> PICK b \in Bundles : b = job[p]
  BY DEF Procs, MovePendingToRejected, TypeInv, LabelInv, LabelAt, Working, Labels
<1>1. p \in Procs /\ p \notin Runners /\ p \notin Watchers
  BY ProcsAssumption DEF Procs
<1>2. UNCHANGED <<age, job, held, source, executed, handoff>> /\ pc[p] = "rejecting"
  BY DEF MovePendingToRejected
<1>3. CASE ~In(b, "pending")
  <2>1. OnlyMoves(p) /\ pc'[p] = "releasing" /\ UNCHANGED file
    BY <1>1, <1>2, <1>3, GotoOnly DEF MovePendingToRejected, Labels
  <2>2. HandedOff'
    BY <1>2, <2>1 DEF RecordInv, HandedOff, In
  <2> QED BY <1>1, <1>2, <2>1, <2>2, RestingKeepsRecords DEF OwnerLabels, Gone
<1>4. CASE In(b, "pending")
  <2>1. OnlyMoves(p) /\ pc'[p] = "rejWriting" /\ MoveFile(b, "pending", "rejected")
    BY <1>1, <1>2, <1>4, GotoOnly DEF MovePendingToRejected, Labels
  <2>2. /\ {"running", "pending", "rejected"} \subseteq Dirs /\ Terminal \subseteq Dirs
        /\ \A d \in Terminal : d \notin {"running", "pending", "rejected"}
        /\ "rejected" \notin {"pending", "running"} /\ "running" # "pending"
    BY DEF Dirs, Terminal
  <2>3. /\ OneDirectory'
        /\ In(b, "rejected")'
        /\ \A e \in Dirs \ {"rejected"} : ~In(b, e)'
        /\ \A c \in Bundles \ {b} : \A e \in Dirs : file'[c][e] = file[c][e]
    BY <1>2, <1>4, <2>1, <2>2, MoveOnly DEF RecordInv
  <2>4. PendingUnowned'
    BY <2>2, <2>3 DEF RecordInv, PendingUnowned, In
  <2>5. \A e \in Dirs \ {"pending"} : ~In(b, e)
    BY <1>4, <2>2, OneDir DEF RecordInv
  <2>6. ~CountedOnByOthers(p, b) /\ \A e \in Terminal \cup {"rejected"} : ~In(b, e)
    BY <2>2, <2>5, CountedOnIsRunning
  <2>7. FinalAt(p)' /\ ~Gone(p)
    BY <1>2, <2>1, <2>3 DEF FinalAt, Gone, In
  <2>8. NamedAt(b)'
    BY <2>2, <2>3 DEF NamedAt
  <2> QED BY <1>1, <1>2, <2>1, <2>3, <2>4, <2>6, <2>7, <2>8, FileStepKeepsRecords
<1> QED BY <1>3, <1>4

(* Recording the rejection. *)
LEMMA RecordRejectKeepsRecords ==
  ASSUME TypeInv, RecordInv, NEW p \in Rejecters, RecordReject(p)
  PROVE  RecordInv'
<1> PICK b \in Bundles : b = job[p]
  BY DEF Procs, RecordReject, TypeInv, LabelInv, LabelAt, Working, Labels
<1>1. p \in Procs /\ p \notin Runners /\ p \notin Watchers
  BY ProcsAssumption DEF Procs
<1>2. /\ UNCHANGED <<age, job, held, source, executed, handoff>> /\ pc[p] = "rejWriting"
      /\ WriteFile(b, "rejected", held[p])
  BY DEF RecordReject
<1>3. held[p] \in Record /\ held[p].status = "rejected" /\ In(b, "rejected")
  BY <1>1, <1>2 DEF TypeInv, LabelInv, LabelAt, RecordInv, FinalAt
<1>4. OnlyMoves(p) /\ pc'[p] = "handingOff"
  BY <1>1, <1>2, GotoOnly DEF RecordReject, Labels
<1>5. /\ {"running", "pending", "rejected"} \subseteq Dirs /\ Terminal \subseteq Dirs
      /\ "rejected" \notin {"pending", "running"}
  BY DEF Dirs
<1>6. /\ OneDirectory'
      /\ \A c \in Bundles : \A e \in Dirs : In(c, e)' <=> In(c, e)
      /\ \A c \in Bundles : \A e \in Dirs :
           c # b \/ e # "rejected" => file'[c][e] = file[c][e]
  BY <1>2, <1>3, <1>5, WriteOnly DEF RecordInv
<1>7. PendingUnowned'
  BY <1>5, <1>6 DEF RecordInv, PendingUnowned
<1>8. ~In(b, "running") /\ ~In(b, "running")'
  BY <1>3, <1>5, <1>6, OneDir DEF RecordInv
<1>9. ~CountedOnByOthers(p, b) /\ NamedAt(b)'
  BY <1>8, CountedOnIsRunning DEF NamedAt
<1>10. FinalAt(p)' /\ ~Gone(p)
  BY <1>2, <1>3, <1>4, <1>5, <1>6 DEF FinalAt, Gone, In
<1>11. \A e \in Terminal \cup {"rejected"} : In(b, e) => In(b, e)'
  BY <1>5, <1>6
<1> QED BY <1>1, <1>2, <1>4, <1>6, <1>7, <1>9, <1>10, <1>11, FileStepKeepsRecords

(* Every step keeps RecordInv. *)
LEMMA RecordStep ==
  ASSUME OneSweeper, TypeInv, ConsumeInv, RecordInv, [Next]_vars
  PROVE  RecordInv'
<1>1. CASE UNCHANGED vars
  <2> USE <1>1 DEF vars, In
  <2>1. OneDirectory' /\ Young' /\ PendingUnowned' /\ HandedOff'
    BY DEF RecordInv, OneDirectory, Young, PendingUnowned, HandedOff, Present
  <2>2. NamedOwner'
    BY DEF RecordInv, NamedOwner, NamedAt, Gone, LiveOwner
  <2>3. \A r \in Runners : OwnerAt(r)'
    BY DEF RecordInv, OwnerAt
  <2>4. \A w \in Watchers : SweepAt(w)'
    BY DEF RecordInv, SweepAt, Gone
  <2>5. \A p \in Procs : FinalAt(p)'
    BY DEF RecordInv, FinalAt
  <2> QED BY <2>1, <2>2, <2>3, <2>4, <2>5 DEF RecordInv
<1>2. ASSUME NEW b \in Bundles, Stage(b) \/ Age(b) PROVE RecordInv'
  BY <1>2, StageKeepsRecords DEF Age, OneSweeper
<1>3. ASSUME NEW p \in Procs, FileStep(p) PROVE RecordInv'
  BY <1>3, ClaimKeepsRecords, RecordKeepsRecords, FinalKeepsRecords, FinishKeepsRecords,
     RejectKeepsRecords, RecordRejectKeepsRecords DEF FileStep, OneSweeper
<1>4. ASSUME NEW p \in Procs, MemoryStep(p) PROVE RecordInv'
  BY <1>4, CheckKeepsRecords, VerdictKeepsRecords, CheckFinalKeepsRecords
  DEF MemoryStep, OneSweeper
<1>5. CASE Next
  BY <1>2, <1>3, <1>4, <1>5, StepKinds, RestingSteps, ExecutionKeepsRecords,
     HandoffKeepsRecords, SweepOneKeepsRecords DEF OneSweeper, Procs
<1> QED BY <1>1, <1>5

(* Initially nothing is staged. *)
LEMMA InitRecords == Init => RecordInv
<1> SUFFICES ASSUME Init PROVE RecordInv
  OBVIOUS
<1>1. \A b \in Bundles : \A d \in Dirs : ~In(b, d)
  BY DEF Init, In
<1>2. "running" \in Dirs /\ "pending" \in Dirs
  BY DEF Dirs
<1> QED BY <1>1, <1>2
        DEF Init, RecordInv, Young, OneDirectory, Present, PendingUnowned, NamedOwner, NamedAt,
            HandedOff, OwnerAt, SweepAt, FinalAt, OwnerLabels, FinalizingLabels, Procs

(* With one watcher, no cancellation and no bundle that waits for a day,   *)
(* RecordInv holds in every reachable state.                               *)
THEOREM RecordsKept ==
  ASSUME OneSweeper
  PROVE  Spec => [](TypeInv /\ ConsumeInv /\ RecordInv)
<1>1. Init => ConsumeInv
  BY DEF Init, ConsumeInv, Consumers, In, Dirs, Procs
<1>2. TypeInv /\ ConsumeInv /\ RecordInv /\ [Next]_vars => RecordInv'
  BY RecordStep
<1> QED BY <1>1, <1>2, InitRecords, ConsumeStep, TypeCorrect, PTL DEF Spec

(* A staged bundle is in exactly one directory at any time. *)
THEOREM OneRecordAtATime ==
  ASSUME OneSweeper
  PROVE  Spec => []OneCanonicalRecord
<1>1. RecordInv => OneCanonicalRecord
  <2> SUFFICES ASSUME RecordInv, NEW b \in Bundles
               PROVE  Cardinality(Present(b)) = IF age[b] = "unstaged" THEN 0 ELSE 1
    BY DEF OneCanonicalRecord
  <2>1. CASE age[b] = "unstaged"
    BY <2>1, FS_EmptySet DEF RecordInv, OneDirectory
  <2>2. CASE age[b] # "unstaged"
    BY <2>2, FS_Singleton DEF RecordInv, OneDirectory
  <2> QED BY <2>1, <2>2
<1> QED BY <1>1, RecordsKept, PTL

(* A handoff names the directory the bundle is in. *)
THEOREM HandoffTells ==
  ASSUME OneSweeper
  PROVE  Spec => []HandoffAgrees
<1>1. TypeInv /\ RecordInv => HandoffAgrees
  <2> SUFFICES ASSUME TypeInv, RecordInv, NEW b \in Bundles, handoff[b] # None
               PROVE  FoundIn(b, handoff[b])
    BY DEF HandoffAgrees
  <2>1. handoff[b] \in Dirs /\ In(b, handoff[b])
    BY DEF TypeInv, TypeOK, RecordInv, HandedOff, Dirs
  <2>2. Present(b) = {handoff[b]}
    BY <2>1, OneDir DEF RecordInv
  <2>3. Rank[handoff[b]] \in Nat
    BY <2>1 DEF Rank, Dirs, Terminal
  <2> QED BY <2>1, <2>2, <2>3 DEF FoundIn
<1> QED BY <1>1, RecordsKept, PTL

(* A watcher finalizes a bundle only when its runner has come to an end.   *)
THEOREM SweepSparesOwners ==
  ASSUME OneSweeper
  PROVE  Spec => SweepSparesLiveOwner
<1> DEFINE Spares == \A b \in Bundles : \A w \in Watchers :
                       (pc[w] = "finMoving" /\ job[w] = b /\ pc'[w] = "handingOff")
                         => \A r \in Runners : ~LiveOwner(r, b)
<1>1. TypeInv /\ RecordInv => Spares
  <2> SUFFICES ASSUME RecordInv, NEW b \in Bundles, NEW w \in Watchers, NEW r \in Runners,
                      pc[w] = "finMoving", job[w] = b, LiveOwner(r, b)
               PROVE  FALSE
    OBVIOUS
  <2>1. file[b]["running"].exec \in Runners /\ Gone(file[b]["running"].exec)
    BY DEF RecordInv, SweepAt, FinalizingLabels
  <2>2. file[b]["running"].exec \in {None, r} /\ ~Gone(r)
    BY DEF LiveOwner, RecordInv, OwnerAt, OwnerLabels, Gone
  <2> QED BY <2>1, <2>2, NoneAssumption DEF Procs
<1>2. TypeInv /\ ConsumeInv /\ RecordInv => [Spares]_vars
  BY <1>1
<1>3. [][Spares]_vars <=> SweepSparesLiveOwner
  BY DEF SweepSparesLiveOwner
<1> QED BY <1>2, <1>3, RecordsKept, PTL
------------------------------------------------------------------------------
(* Refinement: the store implements the abstract lifecycle.                *)

(* The one directory of a bundle is its status. *)
StatusMatches ==
  \A b \in Bundles : /\ Present(b) = {} => StatusOf(b) = "absent"
                     /\ \A d \in Dirs : In(b, d) => StatusOf(b) = d

LEMMA StatusIsDirectory == OneDirectory => StatusMatches
<1> SUFFICES ASSUME OneDirectory, NEW b \in Bundles, NEW d \in Dirs, In(b, d)
             PROVE  StatusOf(b) = d
  BY DEF StatusMatches, StatusOf
<1>1. Present(b) = {d}
  BY OneDir
<1>2. \A e \in Dirs : FoundIn(b, e) <=> e = d
  <2>1. Rank[d] \in Nat
    BY DEF Rank, Dirs, Terminal
  <2> QED BY <1>1, <2>1 DEF FoundIn, Present
<1> QED BY <1>1, <1>2 DEF StatusOf

LEMMA StatusIsDirectoryNext == OneDirectory' => StatusMatches'
BY StatusIsDirectory, PTL

(* Where the files are decides every status. *)
LEMMA SameFilesSameStatus ==
  ASSUME OneDirectory, OneDirectory',
         NEW b \in Bundles, \A d \in Dirs : In(b, d)' <=> In(b, d)
  PROVE  StatusOf(b)' = StatusOf(b)
<1>1. CASE Present(b) = {}
  <2>1. Present(b)' = {}
    BY <1>1 DEF Present
  <2> QED BY <1>1, <2>1, StatusIsDirectory, StatusIsDirectoryNext DEF StatusMatches
<1>2. CASE \E d \in Dirs : In(b, d)
  BY <1>2, StatusIsDirectory, StatusIsDirectoryNext DEF StatusMatches
<1> QED BY <1>1, <1>2 DEF Present

(* One file that moves is one status that moves. *)
LEMMA MoveRefines ==
  ASSUME OneDirectory, OneDirectory', NEW b \in Bundles, NEW s \in Dirs, NEW t \in Dirs,
         In(b, s), In(b, t)',
         \A c \in Bundles \ {b} : \A d \in Dirs : In(c, d)' <=> In(c, d)
  PROVE  Lifecycle!Move(b, s, t)
<1>1. StatusOf(b) = s /\ StatusOf(b)' = t
  BY StatusIsDirectory, StatusIsDirectoryNext DEF StatusMatches
<1>2. \A c \in Bundles \ {b} : StatusOf(c)' = StatusOf(c)
  BY SameFilesSameStatus
<1> QED BY <1>1, <1>2 DEF Lifecycle!Move

(* A step that moves no file and starts no side effects stutters. *)
LEMMA StutterRefines ==
  ASSUME OneDirectory, OneDirectory', UNCHANGED executed,
         \A b \in Bundles : \A d \in Dirs : In(b, d)' <=> In(b, d)
  PROVE  UNCHANGED Lifecycle!lcVars
<1>1. \A b \in Bundles : StatusOf(b)' = StatusOf(b)
  BY SameFilesSameStatus
<1> QED BY <1>1 DEF Lifecycle!lcVars

(* Staging submits the bundle. *)
LEMMA StageRefines ==
  ASSUME TypeInv, RecordInv, RecordInv', NEW b \in Bundles, Stage(b)
  PROVE  Lifecycle!Submit(b)
<1> DEFINE record == [status |-> "pending", exec |-> None]
<1>1. record \in Record /\ "pending" \in Dirs /\ record # NoFile
  BY NoneAssumption DEF Record, Dirs, NoFile
<1>2. \A c \in Bundles : \A e \in Dirs :
        file'[c][e] = IF c = b /\ e = "pending" THEN record ELSE file[c][e]
  BY <1>1, WriteFileEffect DEF Stage, TypeInv, TypeOK
<1>3. OneDirectory /\ OneDirectory'
  BY DEF RecordInv
<1>4. \A c \in Bundles \ {b} : StatusOf(c)' = StatusOf(c)
  BY <1>2, <1>3, SameFilesSameStatus DEF In
<1>5. StatusOf(b) = "absent"
  BY <1>3, StatusIsDirectory DEF StatusMatches, Stage, OneDirectory
<1>6. StatusOf(b)' = "pending"
  <2>1. In(b, "pending")'
    BY <1>1, <1>2 DEF In
  <2> QED BY <1>1, <1>3, <2>1, StatusIsDirectoryNext DEF StatusMatches
<1> QED BY <1>4, <1>5, <1>6 DEF Stage, Lifecycle!Submit, Lifecycle!Move

(* The first of b's side effects is the only one to start. *)
LEMMA ExecutionRefines ==
  ASSUME TypeInv, ConsumeInv, RecordInv, RecordInv', NEW r \in Runners, NEW b \in Bundles,
         b = job[r], BeginExecution(r)
  PROVE  Lifecycle!Execute(b)
<1>1. OneDirectory /\ OneDirectory' /\ In(b, "running") /\ r \notin executed[b]
  BY DEF BeginExecution, RecordInv, OwnerAt, OwnerLabels
<1>2. executed[b] = {}
  <2>1. r \in Consumers(b) /\ executed[b] \subseteq Consumers(b)
    BY DEF BeginExecution, Consumers, TypeInv, TypeOK
  <2> QED BY <1>1, <2>1 DEF ConsumeInv
<1>3. \A c \in Bundles : executed'[c] = IF c = b THEN executed[c] \cup {r} ELSE executed[c]
  BY DEF BeginExecution, TypeInv, TypeOK
<1>4. StatusOf(b) = "running"
  BY <1>1, StatusIsDirectory DEF StatusMatches, Dirs
<1>5. \A c \in Bundles : StatusOf(c)' = StatusOf(c)
  BY <1>1, SameFilesSameStatus DEF BeginExecution, In
<1>6. {c \in Bundles : executed'[c] # {}} = {c \in Bundles : executed[c] # {}} \cup {b}
  BY <1>3
<1> QED BY <1>2, <1>4, <1>5, <1>6 DEF Lifecycle!Execute

(* The three renames are the lifecycle's three moves of a staged bundle,   *)
(* and the three rewrites are no moves.                                    *)
LEMMA FileStepRefines ==
  ASSUME OneSweeper, TypeInv, ConsumeInv, RecordInv, RecordInv', NEW p \in Procs, FileStep(p)
  PROVE  [Lifecycle!Next]_(Lifecycle!lcVars)
<1> PICK b \in Bundles : b = job[p]
  BY FileStepTarget
<1>1. OneDirectory /\ OneDirectory' /\ UNCHANGED executed
  BY DEF RecordInv, FileStep, MovePendingToRunning, RecordClaim, WriteFinal, MoveRunningToFinal,
         MovePendingToRejected, RecordReject, WriteMoved, MoveAny
<1>2. {"running", "pending", "rejected"} \subseteq Dirs /\ Terminal \subseteq Dirs
  BY DEF Dirs
<1>3. UNCHANGED age
  BY DEF FileStep, MovePendingToRunning, RecordClaim, WriteFinal, MoveRunningToFinal,
         MovePendingToRejected, RecordReject, WriteMoved, MoveAny
(* One rename of b. *)
<1>4. ASSUME NEW s \in Dirs, NEW t \in Dirs, s # t, In(b, s), MoveFile(b, s, t)
      PROVE  Lifecycle!Move(b, s, t)
  <2>1. In(b, t)' /\ \A c \in Bundles \ {b} : \A d \in Dirs : file'[c][d] = file[c][d]
    BY <1>1, <1>3, <1>4, MoveOnly
  <2> QED BY <1>1, <1>4, <2>1, MoveRefines DEF In
(* One rewrite of b. *)
<1>5. ASSUME NEW d \in Dirs, In(b, d), held[p] \in Record, WriteFile(b, d, held[p])
      PROVE  UNCHANGED Lifecycle!lcVars
  BY <1>1, <1>3, <1>5, WriteOnly, StutterRefines
<1>6. ASSUME UNCHANGED file PROVE UNCHANGED Lifecycle!lcVars
  BY <1>1, <1>6, StutterRefines DEF In
<1>7. CASE p \in Runners /\ MovePendingToRunning(p)
  <2>1. CASE In(b, "pending")
    <3>1. Lifecycle!Move(b, "pending", "running")
      BY <1>2, <1>4, <1>7, <2>1 DEF MovePendingToRunning
    <3> QED BY <1>1, <3>1 DEF Lifecycle!Next, Lifecycle!Claim
  <2> QED BY <1>6, <1>7, <2>1 DEF MovePendingToRunning
<1>8. CASE p \in Runners /\ RecordClaim(p)
  <2>1. In(b, "running") /\ held[p] \in Record
    BY <1>8 DEF RecordClaim, TypeInv, LabelInv, LabelAt, RecordInv, OwnerAt, OwnerLabels
  <2> QED BY <1>2, <1>5, <1>8, <2>1 DEF RecordClaim
<1>9. CASE p \in Runners \cup Watchers /\ WriteFinal(p)
  <2>1. In(b, "running") /\ held[p] \in Record
    BY <1>9 DEF WriteFinal, TypeInv, LabelInv, LabelAt, RecordInv, OwnerAt, OwnerLabels,
            SweepAt, FinalizingLabels
  <2> QED BY <1>2, <1>5, <1>9, <2>1 DEF WriteFinal
<1>10. CASE p \in Runners \cup Watchers /\ MoveRunningToFinal(p)
  <2>1. PICK t \in Terminal : t = held[p].status
    BY <1>10 DEF MoveRunningToFinal, TypeInv, LabelInv, LabelAt
  <2>2. In(b, "running") /\ MoveFile(b, "running", t)
    BY <1>10, <2>1, FinalizerIsAlone DEF MoveRunningToFinal
  <2>3. Lifecycle!Move(b, "running", t)
    BY <1>2, <1>4, <2>2 DEF Terminal
  <2>4. t = "interrupted" \/ b \in {c \in Bundles : executed[c] # {}}
    <3>1. CASE p \in Runners
      BY <1>10, <3>1 DEF MoveRunningToFinal, RecordInv, OwnerAt, FinalizingLabels
    <3>2. CASE p \in Watchers
      BY <1>10, <2>1, <3>2 DEF MoveRunningToFinal, RecordInv, SweepAt, FinalizingLabels
    <3> QED BY <1>10, <3>1, <3>2
  <2> QED BY <1>1, <2>3, <2>4 DEF Lifecycle!Next, Lifecycle!Finish, Terminal
<1>11. CASE p \in Rejecters /\ MovePendingToRejected(p)
  <2>1. CASE In(b, "pending")
    <3>1. Lifecycle!Move(b, "pending", "rejected")
      BY <1>2, <1>4, <1>11, <2>1 DEF MovePendingToRejected
    <3> QED BY <1>1, <3>1 DEF Lifecycle!Next, Lifecycle!Reject
  <2> QED BY <1>6, <1>11, <2>1 DEF MovePendingToRejected
<1>12. CASE p \in Rejecters /\ RecordReject(p)
  <2>1. In(b, "rejected") /\ held[p] \in Record
    BY <1>12 DEF RecordReject, TypeInv, LabelInv, LabelAt, RecordInv, FinalAt
  <2> QED BY <1>2, <1>5, <1>12, <2>1 DEF RecordReject
<1> QED BY <1>7, <1>8, <1>9, <1>10, <1>11, <1>12 DEF FileStep, OneSweeper

(* Every step of the store is a step of the lifecycle or a stutter. *)
LEMMA StepRefines ==
  ASSUME OneSweeper, TypeInv, ConsumeInv, RecordInv, RecordInv', [Next]_vars
  PROVE  [Lifecycle!Next]_(Lifecycle!lcVars)
<1>1. OneDirectory /\ OneDirectory'
  BY DEF RecordInv
<1>2. ASSUME UNCHANGED <<file, executed>> PROVE [Lifecycle!Next]_(Lifecycle!lcVars)
  BY <1>1, <1>2, StutterRefines DEF In
<1>3. CASE UNCHANGED vars
  BY <1>2, <1>3 DEF vars
<1>4. ASSUME NEW b \in Bundles, Stage(b) \/ Age(b) PROVE [Lifecycle!Next]_(Lifecycle!lcVars)
  <2>1. CASE Stage(b)
    BY <2>1, StageRefines DEF Lifecycle!Next
  <2>2. CASE Age(b)
    BY <1>2, <2>2 DEF Age
  <2> QED BY <1>4, <2>1, <2>2
<1>5. ASSUME NEW r \in Runners, BeginExecution(r) PROVE [Lifecycle!Next]_(Lifecycle!lcVars)
  <2>1. PICK b \in Bundles : b = job[r]
    BY <1>5 DEF Procs, BeginExecution, TypeInv, LabelInv, LabelAt, Working, Labels
  <2> QED BY <1>5, <2>1, ExecutionRefines DEF Lifecycle!Next
<1>6. ASSUME NEW p \in Procs,
             \/ \E b \in Bundles : StartApply(p, b) \/ StartReject(p, b) \/ StartCancel(p, b)
             \/ AcquireLock(p) \/ ReleaseLock(p) \/ Crash(p) \/ FileError(p)
             \/ MemoryStep(p) \/ WriteHandoff(p)
             \/ StartSweep(p) \/ SweepOne(p) \/ EndSweep(p)
      PROVE  UNCHANGED <<file, executed>>
  BY <1>6
  DEF StartApply, StartReject, StartCancel, Start, AcquireLock, ReleaseLock, Crash,
      FileError, MemoryStep, CheckClaim, CheckReject, EndExecution, CheckFinal, FindAgain,
      WriteHandoff, StartSweep, SweepOne, EndSweep
<1>7. CASE Next
  BY <1>2, <1>4, <1>5, <1>6, <1>7, StepKinds, FileStepRefines DEF OneSweeper, Procs
<1> QED BY <1>3, <1>7

(* The store implements BundleLifecycle: a bundle is claimed or rejected   *)
(* once, executed once and only while running, and a final status stays.   *)
THEOREM StoreImplementsLifecycle ==
  ASSUME OneSweeper
  PROVE  Spec => ImplementsLifecycle
<1>1. Init => Lifecycle!Init
  <2> SUFFICES ASSUME Init PROVE Lifecycle!Init
    OBVIOUS
  <2>1. \A b \in Bundles : Present(b) = {}
    BY DEF Init, Present, In
  <2> QED BY <2>1 DEF Init, Lifecycle!Init, StatusOf
<1>2. /\ TypeInv /\ ConsumeInv /\ RecordInv
      /\ (TypeInv /\ ConsumeInv /\ RecordInv)'
      /\ [Next]_vars
      => [Lifecycle!Next]_(Lifecycle!lcVars)
  BY StepRefines
<1> QED BY <1>1, <1>2, RecordsKept, PTL DEF Spec, ImplementsLifecycle, Lifecycle!Spec
==============================================================================
