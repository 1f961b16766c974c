------------------------ MODULE RequestKeyIndexProofs ------------------------
(***************************************************************************)
(* Theorems about RequestKeyIndex, for any number of submissions and every *)
(* choice of faults.                                                       *)
(***************************************************************************)
EXTENDS RequestKeyIndex, FiniteSetTheorems, TLAPS

(* Where a submission carries a slot that names a bundle. *)
Carrying == {"finding", "reading", "syncing", "returning"}
(* Where a submission may be once its bundle is written. *)
AfterWrite == {"publishing", "unlocking", "done", "raised", "crashed"}
(* Where a submission does not hold the key lock. *)
Outside == {"idle", "scanTerminal", "locking", "breaking", "done", "raised"}
(* Where it does. *)
Inside == {"writing", "publishing", "unlocking"}

(* What a label promises about what the submission has in memory and about *)
(* the bundle it would create.                                             *)
LabelInv ==
  /\ \A p \in Stagers : pc[p] \in Carrying => seen[p] \in Slot
  /\ \A p \in Stagers : pc[p] \in Inside => locked[p]
  /\ \A p \in Stagers : pc[p] \in Outside => ~locked[p]
  /\ \A b \in Stagers : owed[b] => dir[b] # "none"
  /\ \A b \in Stagers : dir[b] # "none" => pc[b] \in AfterWrite

TypeInv == TypeOK /\ LabelInv

(* As long as no lock of a live submission was broken, one submission at   *)
(* most is in its critical section, and the lock directory is there.       *)
LockInv ==
  "robbed" \notin trouble =>
    /\ \A p \in Stagers : InCriticalSection(p) => keyLock
    /\ \A p, q \in Stagers : InCriticalSection(p) /\ InCriticalSection(q) => p = q

(* A pending bundle without a slot is about to get one; so a submission    *)
(* that finds no slot under the lock knows that nothing is pending, and    *)
(* after its scan of running/ that nothing is active.                      *)
Untroubled == trouble \cap {"robbed", "unpublished", "unlinked"} = {}

ActiveInv ==
  Untroubled =>
    /\ \A b \in Stagers : slot = NoSlot /\ dir[b] = "pending" => pc[b] = "publishing"
    /\ \A p, b \in Stagers : pc[p] = "scanRunning" /\ locked[p] => dir[b] # "pending"
    /\ \A p, b \in Stagers : pc[p] = "scanPending" /\ locked[p] => dir[b] \notin Active
    /\ \A p, b \in Stagers : pc[p] = "writing" => dir[b] \notin Active
    /\ \A a, b \in Stagers : dir[a] \in Active /\ dir[b] \in Active => a = b

(* If nothing moves, the scan of pending/ sees every bundle there is. *)
Undisturbed == trouble \cap {"robbed", "moved"} = {}

OnlyInv ==
  Undisturbed =>
    /\ \A b \in Stagers : dir[b] \in {"none", "pending"}
    /\ \A p, b \in Stagers : pc[p] = "writing" => dir[b] = "none"
    /\ \A a, b \in Stagers : dir[a] # "none" /\ dir[b] # "none" => a = b

(* If bundles do move, the slot is what remembers them: whoever finds none *)
(* under the lock knows that no bundle was ever made, and a bundle without *)
(* a slot is about to get one.                                             *)
Remembered == trouble \cap {"robbed", "unpublished", "lost"} = {}

SlotInv ==
  Remembered =>
    /\ \A b \in Stagers : slot = NoSlot /\ dir[b] # "none" => pc[b] = "publishing"
    /\ \A p, b \in Stagers : pc[p] \in {"scanRunning", "scanPending"} /\ locked[p]
                           => dir[b] = "none"
    /\ \A p, b \in Stagers : pc[p] = "writing" => dir[b] = "none"
    /\ \A a, b \in Stagers : dir[a] # "none" /\ dir[b] # "none" => a = b
------------------------------------------------------------------------------
(* The type invariant. *)

LEMMA InitTypes == Init => TypeInv
<1> SUFFICES ASSUME Init PROVE TypeOK /\ LabelInv
  BY DEF TypeInv
<1>1. TypeOK
  <2>1. dir \in [Stagers -> Dirs \cup {"none"}] /\ pc \in [Stagers -> Labels]
    BY DEF Init, Labels
  <2>2. owed \in [Stagers -> BOOLEAN] /\ locked \in [Stagers -> BOOLEAN]
    BY DEF Init
  <2>3. slot \in Slot \cup {NoSlot} /\ keyLock \in BOOLEAN /\ lockOld \in BOOLEAN
    BY DEF Init
  <2>4. seen \in [Stagers -> Slot \cup {NoSlot}] /\ at \in [Stagers -> 1..6]
    BY DEF Init
  <2>5. answer \in [Stagers -> Stagers \cup {None}] /\ trouble \subseteq Troubles
    BY DEF Init
  <2> QED BY <2>1, <2>2, <2>3, <2>4, <2>5 DEF TypeOK
<1>2. \A p \in Stagers : pc[p] = "idle" /\ dir[p] = "none" /\ ~owed[p] /\ ~locked[p]
  BY DEF Init
<1>3. LabelInv BY <1>2 DEF LabelInv, Carrying, Inside, Outside
<1> QED BY <1>1, <1>3

LEMMA MoverKeepsTypes ==
  ASSUME TypeInv, NEW b \in Stagers, MoveBundle(b) \/ PublishMove(b)
  PROVE  TypeInv'
<1> USE DEF TypeInv, TypeOK, LabelInv
<1>1. CASE MoveBundle(b)
  <2>1. PICK d \in NextDirs(dir[b]) : dir' = [dir EXCEPT ![b] = d]
    BY <1>1 DEF MoveBundle
  <2>2. dir[b] # "none" /\ d \in Dirs
    <3>1. dir[b] \in Dirs \cup {"none"} OBVIOUS
    <3>2. CASE dir[b] = "pending" BY <3>2 DEF NextDirs, Dirs, Active, Terminal
    <3>3. CASE dir[b] = "running" BY <3>3 DEF NextDirs, Dirs, Active, Terminal
    <3>4. CASE dir[b] \notin {"pending", "running"} BY <3>4 DEF NextDirs
    <3> QED BY <3>2, <3>3, <3>4
  <2>3. TypeOK'
    BY <1>1, <2>1, <2>2 DEF MoveBundle, Suffers, Troubles
  <2>4. UNCHANGED <<seen, locked, pc>> BY <1>1 DEF MoveBundle
  <2>5. \A c \in Stagers : owed'[c] => dir'[c] # "none"
    <3>1. SUFFICES ASSUME NEW c \in Stagers, owed'[c] PROVE dir'[c] # "none"
      OBVIOUS
    <3>2. c = b \/ owed[c] BY <1>1, <3>1 DEF MoveBundle
    <3> QED BY <2>1, <2>2, <3>2 DEF Dirs, Active, Terminal
  <2>6. \A c \in Stagers : dir'[c] # "none" => pc'[c] \in AfterWrite
    BY <2>1, <2>2, <2>4
  <2>7. LabelInv'
    BY <2>4, <2>5, <2>6
  <2> QED BY <2>3, <2>7
<1>2. CASE PublishMove(b)
  <2>1. dir[b] \in Dirs BY <1>2 DEF PublishMove
  <2>2. TypeOK'
    <3>1. slot' \in Slot \cup {NoSlot} /\ trouble' \subseteq Troubles
      <4>1. CASE WriteSlot(b, dir[b]) /\ UNCHANGED trouble
        BY <2>1, <4>1 DEF WriteSlot, Slot
      <4>2. CASE UNCHANGED slot /\ LeavesUnpublished
        BY <4>2 DEF LeavesUnpublished, Suffers, Troubles
      <4> QED BY <1>2, <4>1, <4>2 DEF PublishMove, PublishSlot
    <3>2. owed' \in [Stagers -> BOOLEAN] BY <1>2 DEF PublishMove
    <3> QED BY <1>2, <3>1, <3>2 DEF PublishMove
  <2>3. UNCHANGED <<dir, seen, locked, pc>> BY <1>2 DEF PublishMove
  <2>4. \A c \in Stagers : owed'[c] => owed[c] BY <1>2 DEF PublishMove
  <2> QED BY <2>2, <2>3, <2>4
<1> QED BY <1>1, <1>2

LEMMA LookupKeepsTypes ==
  ASSUME TypeInv, NEW p \in Stagers,
         \/ Call(p) \/ LookSlot(p) \/ ReadSlot(p) \/ FindNext(p) \/ ReadFound(p)
         \/ UnlinkSlot(p) \/ SyncSlot(p) \/ Return(p)
  PROVE  TypeInv'
<1> USE DEF TypeInv, TypeOK, LabelInv, Goto, See, Labels, Carrying, Inside, Outside, AfterWrite
<1>1. CASE Call(p) BY <1>1 DEF Call
<1>2. CASE LookSlot(p) BY <1>2 DEF LookSlot
<1>3. CASE ReadSlot(p) BY <1>3 DEF ReadSlot
<1>4. CASE FindNext(p) BY <1>4 DEF FindNext
<1>5. CASE ReadFound(p)
  <2>1. seen[p] \in Slot /\ SearchOrder[at[p]] \in Dirs
    BY <1>5 DEF ReadFound, SearchOrder, Dirs, Active, Terminal
  <2>2. CASE dir[seen[p].bundle] # SearchOrder[at[p]]
    BY <1>5, <2>2 DEF ReadFound
  <2>3. CASE dir[seen[p].bundle] = SearchOrder[at[p]]
    <3>1. seen' = [seen EXCEPT ![p] = [seen[p] EXCEPT !.status = dir[seen[p].bundle]]]
      BY <1>5, <2>3 DEF ReadFound
    <3>2. [seen[p] EXCEPT !.status = dir[seen[p].bundle]] \in Slot
      BY <2>1, <2>3 DEF Slot
    <3>3. pc' = [pc EXCEPT ![p] = "returning"] \/ pc' = [pc EXCEPT ![p] = "syncing"]
      BY <1>5, <2>3 DEF ReadFound
    <3> QED BY <1>5, <3>1, <3>2, <3>3 DEF ReadFound
  <2> QED BY <2>2, <2>3
<1>6. CASE UnlinkSlot(p) BY <1>6 DEF UnlinkSlot, Suffers, Troubles
<1>7. CASE SyncSlot(p)
  <2>1. seen[p] \in Slot BY <1>7 DEF SyncSlot
  <2>2. slot' \in Slot \cup {NoSlot}
    BY <1>7, <2>1 DEF SyncSlot, WriteSlot, Slot
  <2> QED BY <1>7, <2>2 DEF SyncSlot
<1>8. CASE Return(p)
  <2>1. seen[p].bundle \in Stagers BY <1>8 DEF Return, Slot
  <2> QED BY <1>8, <2>1 DEF Return
<1> QED BY <1>1, <1>2, <1>3, <1>4, <1>5, <1>6, <1>7, <1>8

LEMMA ScanKeepsTypes ==
  ASSUME TypeInv, NEW p \in Stagers,
         ScanRunning(p) \/ ScanPending(p) \/ ScanTerminal(p)
  PROVE  TypeInv'
<1> USE DEF TypeInv, TypeOK, LabelInv, Goto, See, Labels, Carrying, Inside, Outside, AfterWrite
<1>1. PICK ds \in SUBSET Dirs, otherwise \in Labels :
        /\ Scan(p, ds, otherwise)
        /\ \/ otherwise = "writing" /\ locked[p]
           \/ otherwise \in {"scanTerminal", "locking"} /\ ~locked[p]
           \/ otherwise = "scanPending"
  <2>1. {"running"} \subseteq Dirs /\ {"pending"} \subseteq Dirs /\ Terminal \subseteq Dirs
    BY DEF Dirs, Active, Terminal
  <2>2. CASE ScanRunning(p) BY <2>1, <2>2 DEF ScanRunning
  <2>3. CASE ScanPending(p) BY <2>1, <2>3 DEF ScanPending
  <2>4. CASE ScanTerminal(p) BY <2>1, <2>4 DEF ScanTerminal
  <2> QED BY <2>2, <2>3, <2>4
<1>2. pc[p] \in {"scanRunning", "scanPending", "scanTerminal"}
  BY DEF ScanRunning, ScanPending, ScanTerminal
<1>3. CASE \E b \in Stagers : /\ dir[b] \in ds
                              /\ See(p, [bundle |-> b, status |-> dir[b]])
                              /\ Goto(p, "syncing")
  BY <1>1, <1>2, <1>3 DEF Scan, Slot
<1>4. CASE UNCHANGED seen /\ Goto(p, otherwise)
  <2>1. pc' \in [Stagers -> Labels] BY <1>4
  <2> QED BY <1>1, <1>2, <1>4, <2>1 DEF Scan
<1> QED BY <1>1, <1>3, <1>4 DEF Scan

LEMMA LockKeepsTypes ==
  ASSUME TypeInv,
         \/ \E p \in Stagers : \/ TakeKeyLock(p) \/ GiveUpWaiting(p) \/ BreakLock(p)
                               \/ WritePending(p) \/ PublishPending(p)
                               \/ ReleaseKeyLock(p) \/ Crash(p)
         \/ AgeLock
  PROVE  TypeInv'
<1> USE DEF TypeInv, TypeOK, LabelInv, Goto, Labels, Carrying, Inside, Outside, AfterWrite,
            LeavesUnpublished, Suffers, Troubles
<1>1. CASE AgeLock BY <1>1 DEF AgeLock
<1>2. ASSUME NEW p \in Stagers, TakeKeyLock(p) PROVE TypeInv'
  BY <1>2 DEF TakeKeyLock
<1>3. ASSUME NEW p \in Stagers, GiveUpWaiting(p) PROVE TypeInv'
  BY <1>3 DEF GiveUpWaiting
<1>4. ASSUME NEW p \in Stagers, BreakLock(p) PROVE TypeInv'
  BY <1>4 DEF BreakLock, Unlock
<1>5. ASSUME NEW p \in Stagers, WritePending(p) PROVE TypeInv'
  BY <1>5 DEF WritePending, Dirs, Active
<1>6. ASSUME NEW p \in Stagers, PublishPending(p) PROVE TypeInv'
  <2>1. slot' \in Slot \cup {NoSlot} /\ trouble' \subseteq Troubles
    <3>1. CASE WriteSlot(p, "pending") /\ UNCHANGED trouble
      BY <3>1 DEF WriteSlot, Slot, Dirs, Active
    <3>2. CASE UNCHANGED slot /\ LeavesUnpublished
      BY <3>2
    <3> QED BY <1>6, <3>1, <3>2 DEF PublishPending, PublishSlot
  <2> QED BY <1>6, <2>1 DEF PublishPending
<1>7. ASSUME NEW p \in Stagers, ReleaseKeyLock(p) PROVE TypeInv'
  BY <1>7 DEF ReleaseKeyLock, Unlock
<1>8. ASSUME NEW p \in Stagers, Crash(p) PROVE TypeInv'
  BY <1>8 DEF Crash
<1> QED BY <1>1, <1>2, <1>3, <1>4, <1>5, <1>6, <1>7, <1>8

LEMMA StutterKeepsTypes == ASSUME TypeInv, UNCHANGED vars PROVE TypeInv'
BY DEF TypeInv, TypeOK, LabelInv, vars

(* Where a submission is, it has in memory what it needs there; and the    *)
(* shared state has the shape the code gives it.                           *)
THEOREM TypeCorrect == Spec => []TypeInv
<1>1. ASSUME TypeInv, [Next]_vars PROVE TypeInv'
  BY <1>1, MoverKeepsTypes, LookupKeepsTypes, ScanKeepsTypes, LockKeepsTypes, StutterKeepsTypes
  DEF Next, StagerStep
<1> QED BY InitTypes, <1>1, PTL DEF Spec

(* The type invariant of the index (bundles.py:217-300, 762-925). *)
THEOREM TypesCorrect == Spec => []TypeOK
<1>1. TypeInv => TypeOK BY DEF TypeInv
<1> QED BY TypeCorrect, <1>1, PTL
------------------------------------------------------------------------------
(* The key lock. *)

(* A step of p that neither takes nor releases the key lock. *)
LEMMA OutsideTheLock ==
  ASSUME TypeOK, NEW p \in Stagers,
         \/ Call(p) \/ LookSlot(p) \/ ReadSlot(p) \/ FindNext(p) \/ ReadFound(p)
         \/ UnlinkSlot(p) \/ ScanRunning(p) \/ ScanPending(p) \/ ScanTerminal(p)
         \/ SyncSlot(p) \/ Return(p) \/ GiveUpWaiting(p) \/ WritePending(p)
         \/ PublishPending(p) \/ Crash(p)
  PROVE  /\ UNCHANGED <<keyLock, locked>>
         /\ trouble \subseteq trouble'
         /\ pc[p] # "crashed"
         /\ \A q \in Stagers : q # p => pc'[q] = pc[q]
<1> USE DEF Goto, Suffers, LeavesUnpublished, PublishSlot, TypeOK
<1>0. ASSUME NEW ds, NEW otherwise, pc[p] # "crashed", Scan(p, ds, otherwise)
      PROVE  /\ UNCHANGED <<keyLock, locked, trouble>>
             /\ \A q \in Stagers : q # p => pc'[q] = pc[q]
  BY <1>0 DEF Scan
<1>1. CASE Call(p) BY <1>1 DEF Call
<1>2. CASE LookSlot(p) BY <1>2 DEF LookSlot
<1>3. CASE ReadSlot(p) BY <1>3 DEF ReadSlot
<1>4. CASE FindNext(p) BY <1>4 DEF FindNext
<1>5. CASE ReadFound(p) BY <1>5 DEF ReadFound
<1>6. CASE UnlinkSlot(p) BY <1>6 DEF UnlinkSlot
<1>7. CASE ScanRunning(p) BY <1>0, <1>7 DEF ScanRunning
<1>8. CASE ScanPending(p)
  <2>1. CASE locked[p] BY <1>0, <1>8, <2>1 DEF ScanPending
  <2>2. CASE ~locked[p] BY <1>0, <1>8, <2>2 DEF ScanPending
  <2> QED BY <2>1, <2>2
<1>9. CASE ScanTerminal(p) BY <1>0, <1>9 DEF ScanTerminal
<1>10. CASE SyncSlot(p) BY <1>10 DEF SyncSlot
<1>11. CASE Return(p) BY <1>11 DEF Return
<1>12. CASE GiveUpWaiting(p) BY <1>12 DEF GiveUpWaiting
<1>13. CASE WritePending(p) BY <1>13 DEF WritePending
<1>14. CASE PublishPending(p) BY <1>14 DEF PublishPending
<1>15. CASE Crash(p) BY <1>15 DEF Crash
<1> QED BY <1>1, <1>2, <1>3, <1>4, <1>5, <1>6, <1>7, <1>8, <1>9, <1>10, <1>11, <1>12,
           <1>13, <1>14, <1>15

LEMMA LockKept ==
  ASSUME TypeInv, LockInv, [Next]_vars
  PROVE  LockInv'
<1> USE DEF TypeInv, TypeOK, LabelInv
<1>1. ASSUME UNCHANGED keyLock, trouble \subseteq trouble',
             \A q \in Stagers : locked'[q] /\ pc'[q] # "crashed" => locked[q] /\ pc[q] # "crashed"
      PROVE  LockInv'
  BY <1>1 DEF LockInv, InCriticalSection
<1>2. ASSUME NEW p \in Stagers, UNCHANGED <<keyLock, locked>>, trouble \subseteq trouble',
             pc[p] # "crashed", \A q \in Stagers : q # p => pc'[q] = pc[q]
      PROVE  LockInv'
  BY <1>1, <1>2
<1>3. ASSUME NEW p \in Stagers, TakeKeyLock(p) PROVE LockInv'
  <2>1. \A q \in Stagers : q # p => locked'[q] = locked[q] /\ pc'[q] = pc[q]
    BY <1>3 DEF TakeKeyLock, Goto
  <2> QED BY <1>3, <2>1 DEF TakeKeyLock, LockInv, InCriticalSection
<1>4. ASSUME NEW p \in Stagers, BreakLock(p) PROVE LockInv'
  <2>1. /\ UNCHANGED locked /\ ~locked[p]
        /\ \A q \in Stagers : q # p => pc'[q] = pc[q]
    BY <1>4 DEF BreakLock, Goto, Outside
  <2>2. "robbed" \notin trouble' => \A q \in Stagers \ {p} : ~InCriticalSection(q)
    BY <1>4 DEF BreakLock, Unlock, Suffers
  <2> QED BY <2>1, <2>2 DEF LockInv, InCriticalSection
<1>5. ASSUME NEW p \in Stagers, ReleaseKeyLock(p) PROVE LockInv'
  <2>1. /\ \A q \in Stagers : q # p => locked'[q] = locked[q] /\ pc'[q] = pc[q]
        /\ ~locked'[p]
    BY <1>5 DEF ReleaseKeyLock, Goto
  <2>2. "robbed" \notin trouble' => \A q \in Stagers \ {p} : ~InCriticalSection(q)
    BY <1>5 DEF ReleaseKeyLock, Unlock, Suffers
  <2> QED BY <2>1, <2>2 DEF LockInv, InCriticalSection
<1>6. ASSUME NEW b \in Stagers, MoveBundle(b) \/ PublishMove(b) PROVE LockInv'
  BY <1>1, <1>6 DEF MoveBundle, PublishMove, PublishSlot, LeavesUnpublished, Suffers
<1>7. CASE AgeLock BY <1>1, <1>7 DEF AgeLock
<1>8. CASE UNCHANGED vars BY <1>1, <1>8 DEF vars
<1> QED BY <1>2, <1>3, <1>4, <1>5, <1>6, <1>7, <1>8, OutsideTheLock DEF Next, StagerStep
------------------------------------------------------------------------------
(* Two bundles of one request. *)

(* A step of p that changes no directory, publishes what p owes, and moves *)
(* p to a label that promises nothing of the other bundles.                *)
LEMMA IdleStepKeeps ==
  ASSUME TypeOK, NEW p \in Stagers, UNCHANGED dir, trouble \subseteq trouble',
         slot' = NoSlot => slot = NoSlot,
         pc[p] = "publishing" => slot' # NoSlot \/ "unpublished" \in trouble',
         pc'[p] \notin {"scanRunning", "scanPending", "writing"},
         \A q \in Stagers : q # p => pc'[q] = pc[q] /\ locked'[q] = locked[q]
  PROVE  /\ ActiveInv => ActiveInv'
         /\ OnlyInv => OnlyInv'
         /\ SlotInv => SlotInv'
<1>2. Untroubled' => Untroubled BY DEF Untroubled
<1>3. Undisturbed' => Undisturbed BY DEF Undisturbed
<1>6. Remembered' => Remembered BY DEF Remembered
<1>7. "unpublished" \in trouble' => ~Untroubled' /\ ~Remembered'
  BY DEF Untroubled, Remembered
<1>4. ASSUME ActiveInv PROVE ActiveInv'
  BY <1>2, <1>4, <1>7 DEF ActiveInv
<1>5. ASSUME OnlyInv PROVE OnlyInv'
  BY <1>3, <1>5 DEF OnlyInv
<1>8. ASSUME SlotInv PROVE SlotInv'
  BY <1>6, <1>7, <1>8 DEF SlotInv
<1> QED BY <1>4, <1>5, <1>8

(* The steps that IdleStepKeeps is about. *)
LEMMA CallsKeep ==
  ASSUME TypeInv, NEW p \in Stagers,
         \/ Call(p) \/ ReadSlot(p) \/ FindNext(p) \/ ReadFound(p)
         \/ ScanTerminal(p) \/ SyncSlot(p) \/ Return(p)
         \/ TakeKeyLock(p) \/ GiveUpWaiting(p) \/ BreakLock(p)
         \/ PublishPending(p) \/ ReleaseKeyLock(p) \/ Crash(p)
  PROVE  /\ ActiveInv => ActiveInv'
         /\ OnlyInv => OnlyInv'
         /\ SlotInv => SlotInv'
<1> USE DEF TypeInv, TypeOK
<1>1. NoSlot \notin Slot
  BY StagersAssumption DEF NoSlot, Slot
<1>2. ASSUME pc[p] # "publishing", dir' = dir, slot' = slot, trouble \subseteq trouble',
             pc'[p] \notin {"scanRunning", "scanPending", "writing"},
             \A q \in Stagers : q # p => pc'[q] = pc[q] /\ locked'[q] = locked[q]
      PROVE  (ActiveInv => ActiveInv') /\ (OnlyInv => OnlyInv') /\ (SlotInv => SlotInv')
  BY <1>2, IdleStepKeeps
<1> USE DEF Goto
<1>3. CASE Call(p) BY <1>2, <1>3 DEF Call
<1>4. CASE ReadSlot(p) BY <1>2, <1>4 DEF ReadSlot
<1>5. CASE FindNext(p)
  <2>1. pc' = [pc EXCEPT ![p] = "reading"] \/ pc' = [pc EXCEPT ![p] = "unlinking"]
        \/ pc' = [pc EXCEPT ![p] = "finding"]
    BY <1>5 DEF FindNext
  <2> QED BY <1>2, <1>5, <2>1 DEF FindNext
<1>6. CASE ReadFound(p)
  <2>1. pc' = [pc EXCEPT ![p] = "unlinking"] \/ pc' = [pc EXCEPT ![p] = "returning"]
        \/ pc' = [pc EXCEPT ![p] = "syncing"]
    BY <1>6 DEF ReadFound
  <2> QED BY <1>2, <1>6, <2>1 DEF ReadFound
<1>7. CASE ScanTerminal(p)
  <2>1. pc' = [pc EXCEPT ![p] = "syncing"] \/ pc' = [pc EXCEPT ![p] = "locking"]
    BY <1>7 DEF ScanTerminal, Scan
  <2> QED BY <1>2, <1>7, <2>1 DEF ScanTerminal, Scan
<1>8. CASE SyncSlot(p)
  <2>1. slot' = NoSlot => slot = NoSlot
    BY <1>1, <1>8 DEF SyncSlot, WriteSlot, LabelInv, Carrying, Slot
  <2>2. PICK label \in {"returning", "unlocking", "raised"} : pc' = [pc EXCEPT ![p] = label]
    BY <1>8 DEF SyncSlot
  <2> QED BY <1>8, <2>1, <2>2, IdleStepKeeps DEF SyncSlot
<1>9. CASE Return(p) BY <1>2, <1>9 DEF Return
<1>10. CASE TakeKeyLock(p) BY <1>2, <1>10 DEF TakeKeyLock
<1>11. CASE GiveUpWaiting(p) BY <1>2, <1>11 DEF GiveUpWaiting
<1>12. CASE BreakLock(p) BY <1>2, <1>12 DEF BreakLock, Unlock, Suffers
<1>13. CASE PublishPending(p)
  <2>1. UNCHANGED <<dir, locked>> /\ pc' = [pc EXCEPT ![p] = "unlocking"]
    BY <1>13 DEF PublishPending
  <2>2. CASE slot' = [bundle |-> p, status |-> "pending"] /\ UNCHANGED trouble
    <3>1. slot' # NoSlot BY <1>1, <2>2 DEF Slot, Dirs, Active
    <3> QED BY <2>1, <2>2, <3>1, IdleStepKeeps
  <2>3. CASE UNCHANGED slot /\ LeavesUnpublished
    <3>1. trouble \subseteq trouble' /\ (slot = NoSlot => "unpublished" \in trouble')
      BY <2>3 DEF LeavesUnpublished, Suffers
    <3> QED BY <2>1, <2>3, <3>1, IdleStepKeeps
  <2> QED BY <1>13, <2>2, <2>3 DEF PublishPending, PublishSlot, WriteSlot
<1>14. CASE ReleaseKeyLock(p)
  <2>1. pc' = [pc EXCEPT ![p] = "raised"] \/ pc' = [pc EXCEPT ![p] = "done"]
    BY <1>14 DEF ReleaseKeyLock
  <2>2. \A q \in Stagers : q # p => locked'[q] = locked[q]
    BY <1>14 DEF ReleaseKeyLock
  <2> QED BY <1>2, <1>14, <2>1, <2>2 DEF ReleaseKeyLock, Unlock, Suffers
<1>15. CASE Crash(p)
  <2>1. UNCHANGED <<dir, slot, locked>> /\ trouble \subseteq trouble'
    BY <1>15 DEF Crash, LeavesUnpublished, Suffers
  <2>2. pc[p] = "publishing" => slot' # NoSlot \/ "unpublished" \in trouble'
    BY <1>15, <2>1 DEF Crash, LeavesUnpublished, Suffers
  <2> QED BY <1>15, <2>1, <2>2, IdleStepKeeps DEF Crash
<1> QED BY <1>3, <1>4, <1>5, <1>6, <1>7, <1>8, <1>9, <1>10, <1>11, <1>12, <1>13, <1>14, <1>15
       
------------------------------------------------------------------------------

(* A step that moves nobody and changes no bundle. *)
LEMMA OthersKeep ==
  ASSUME UNCHANGED <<dir, pc, locked>>, trouble \subseteq trouble',
         slot' = NoSlot => slot = NoSlot
  PROVE  /\ ActiveInv => ActiveInv'
         /\ OnlyInv => OnlyInv'
         /\ SlotInv => SlotInv'
<1>1. Untroubled' => Untroubled BY DEF Untroubled
<1>2. Undisturbed' => Undisturbed BY DEF Undisturbed
<1>5. Remembered' => Remembered BY DEF Remembered
<1>3. ASSUME ActiveInv PROVE ActiveInv' BY <1>1, <1>3 DEF ActiveInv
<1>4. ASSUME OnlyInv PROVE OnlyInv' BY <1>2, <1>4 DEF OnlyInv
<1>6. ASSUME SlotInv PROVE SlotInv' BY <1>5, <1>6 DEF SlotInv
<1> QED BY <1>3, <1>4, <1>6

(* A bundle that moves was pending or running, and is not pending then. *)
LEMMA MoveKeeps ==
  ASSUME TypeInv, NEW b \in Stagers, MoveBundle(b)
  PROVE  /\ ActiveInv => ActiveInv'
         /\ OnlyInv => OnlyInv'
         /\ SlotInv => SlotInv'
<1> USE DEF TypeInv, TypeOK
<1>1. PICK d \in NextDirs(dir[b]) : dir' = [dir EXCEPT ![b] = d]
  BY DEF MoveBundle
<1>2. dir[b] \in Active /\ d \notin {"pending", "none"}
  <2>1. CASE dir[b] = "pending" BY <2>1 DEF NextDirs, Active
  <2>2. CASE dir[b] = "running" BY <2>2 DEF NextDirs, Active
  <2>3. CASE dir[b] \notin {"pending", "running"} BY <2>3 DEF NextDirs
  <2> QED BY <2>1, <2>2, <2>3
<1>3. UNCHANGED <<slot, pc, locked>> /\ trouble' = trouble \cup {"moved"}
  BY DEF MoveBundle, Suffers
<1>4. \A c \in Stagers : /\ dir'[c] \in Active => dir[c] \in Active
                         /\ dir'[c] = "pending" => dir[c] = "pending"
  BY <1>1, <1>2
<1>5. Untroubled' => Untroubled /\ ~Undisturbed'
  BY <1>3 DEF Untroubled, Undisturbed
<1>6. ASSUME ActiveInv PROVE ActiveInv'
  BY <1>3, <1>4, <1>5, <1>6 DEF ActiveInv
<1>7. ~Undisturbed' BY <1>3 DEF Undisturbed
<1>8. \A c \in Stagers : dir'[c] # "none" => dir[c] # "none"
  BY <1>1, <1>2 DEF Active
<1>9. Remembered' => Remembered BY <1>3 DEF Remembered
<1>10. ASSUME SlotInv PROVE SlotInv'
  BY <1>3, <1>8, <1>9, <1>10 DEF SlotInv
<1> QED BY <1>6, <1>7, <1>10 DEF OnlyInv

(* If the lock is respected, who is in its critical section knows where    *)
(* the others are not.                                                     *)
LEMMA OneInside ==
  ASSUME TypeInv, LockInv, "robbed" \notin trouble,
         NEW p \in Stagers, locked[p], pc[p] # "crashed", NEW q \in Stagers, q # p
  PROVE  pc[q] \notin Inside
BY DEF TypeInv, LabelInv, LockInv, InCriticalSection, Inside

(* A lookup without a slot. *)
LEMMA NoSlotKeeps ==
  ASSUME TypeInv, LockInv, NEW p \in Stagers, LookSlot(p) \/ UnlinkSlot(p)
  PROVE  /\ ActiveInv => ActiveInv'
         /\ OnlyInv => OnlyInv'
         /\ SlotInv => SlotInv'
<1> USE DEF TypeInv, TypeOK
<1>1. /\ UNCHANGED <<dir, locked>>
      /\ pc[p] \notin {"publishing", "crashed"}
      /\ pc'[p] \in {"scanRunning", "readSlot"}
      /\ \A q \in Stagers : q # p => pc'[q] = pc[q]
      /\ trouble \subseteq trouble'
  BY DEF LookSlot, UnlinkSlot, Goto, Suffers
<1>2. Untroubled' => Untroubled BY <1>1 DEF Untroubled
<1>3. Undisturbed' => Undisturbed BY <1>1 DEF Undisturbed
<1>4. ASSUME OnlyInv PROVE OnlyInv' BY <1>1, <1>3, <1>4 DEF OnlyInv
<1>5. ASSUME ActiveInv PROVE ActiveInv'
  <2>1. Untroubled' /\ pc'[p] = "scanRunning" /\ locked[p] =>
          \A b \in Stagers : dir[b] # "pending"
    <3>1. CASE LookSlot(p)
      <4>1. SUFFICES ASSUME Untroubled, pc'[p] = "scanRunning", locked[p],
                            NEW b \in Stagers, dir[b] = "pending"
                     PROVE  FALSE
        BY <1>2
      <4>2. slot = NoSlot BY <3>1, <4>1 DEF LookSlot, Goto
      <4>3. pc[b] = "publishing" /\ b # p BY <1>1, <1>5, <4>1, <4>2 DEF ActiveInv
      <4>4. "robbed" \notin trouble BY <4>1 DEF Untroubled
      <4> QED BY <1>1, <4>1, <4>3, <4>4, OneInside DEF Inside
    <3>2. CASE UnlinkSlot(p)
      BY <3>2 DEF UnlinkSlot, Suffers, Untroubled
    <3> QED BY <3>1, <3>2
  <2>2. Untroubled' => \A b \in Stagers : slot' = NoSlot /\ dir[b] = "pending" => pc[b] = "publishing"
    <3>1. CASE LookSlot(p) BY <1>2, <1>5, <3>1 DEF LookSlot, ActiveInv
    <3>2. CASE UnlinkSlot(p) BY <3>2 DEF UnlinkSlot, Suffers, Untroubled
    <3> QED BY <3>1, <3>2
  <2> QED BY <1>1, <1>2, <1>5, <2>1, <2>2 DEF ActiveInv
<1>6. Remembered' => Remembered BY <1>1 DEF Remembered
<1>7. ASSUME SlotInv PROVE SlotInv'
  <2>1. Remembered' /\ pc'[p] = "scanRunning" /\ locked[p] =>
          \A b \in Stagers : dir[b] = "none"
    <3>1. CASE LookSlot(p)
      <4>1. SUFFICES ASSUME Remembered, pc'[p] = "scanRunning", locked[p],
                            NEW b \in Stagers, dir[b] # "none"
                     PROVE  FALSE
        BY <1>6
      <4>2. slot = NoSlot BY <3>1, <4>1 DEF LookSlot, Goto
      <4>3. pc[b] = "publishing" /\ b # p BY <1>1, <1>7, <4>1, <4>2 DEF SlotInv
      <4>4. "robbed" \notin trouble BY <4>1 DEF Remembered
      <4> QED BY <1>1, <4>1, <4>3, <4>4, OneInside DEF Inside
    <3>2. CASE UnlinkSlot(p)
      BY <3>2 DEF UnlinkSlot, Remembered
    <3> QED BY <3>1, <3>2
  <2>2. Remembered' => \A b \in Stagers : slot' = NoSlot /\ dir[b] # "none" => pc[b] = "publishing"
    <3>1. CASE LookSlot(p) BY <1>6, <1>7, <3>1 DEF LookSlot, SlotInv
    <3>2. CASE UnlinkSlot(p) BY <3>2 DEF UnlinkSlot, Remembered
    <3> QED BY <3>1, <3>2
  <2> QED BY <1>1, <1>6, <1>7, <2>1, <2>2 DEF SlotInv
<1> QED BY <1>4, <1>5, <1>7

(* A scan that finds nothing. *)
LEMMA ScanKeeps ==
  ASSUME TypeInv, LockInv, NEW p \in Stagers, ScanRunning(p) \/ ScanPending(p)
  PROVE  /\ ActiveInv => ActiveInv'
         /\ OnlyInv => OnlyInv'
         /\ SlotInv => SlotInv'
<1> USE DEF TypeInv, TypeOK
<1>1. /\ UNCHANGED <<dir, slot, locked, trouble>>
      /\ pc[p] \notin {"publishing", "crashed"}
      /\ \A q \in Stagers : q # p => pc'[q] = pc[q]
  BY DEF ScanRunning, ScanPending, Scan, Goto
<1>2. UNCHANGED <<Untroubled, Undisturbed, Remembered>>
  BY <1>1 DEF Untroubled, Undisturbed, Remembered
<1>3. CASE ScanRunning(p)
  <2>1. \/ pc'[p] = "syncing"
        \/ /\ pc'[p] = "scanPending" /\ pc[p] = "scanRunning"
           /\ \A b \in Stagers : dir[b] # "running"
    BY <1>3 DEF ScanRunning, Scan, Goto
  <2>2. ASSUME ActiveInv PROVE ActiveInv'
    BY <1>1, <1>2, <2>1, <2>2 DEF ActiveInv, Active
  <2>3. ASSUME OnlyInv PROVE OnlyInv'
    BY <1>1, <1>2, <2>1, <2>3 DEF OnlyInv
  <2>4. ASSUME SlotInv PROVE SlotInv'
    BY <1>1, <1>2, <2>1, <2>4 DEF SlotInv
  <2> QED BY <2>2, <2>3, <2>4
<1>4. CASE ScanPending(p)
  <2>1. \/ pc'[p] \in {"syncing", "scanTerminal"}
        \/ /\ pc'[p] = "writing" /\ pc[p] = "scanPending" /\ locked[p]
           /\ \A b \in Stagers : dir[b] # "pending"
    <3>1. CASE locked[p] BY <1>4, <3>1 DEF ScanPending, Scan, Goto
    <3>2. CASE ~locked[p] BY <1>4, <3>2 DEF ScanPending, Scan, Goto
    <3> QED BY <3>1, <3>2
  <2>2. ASSUME ActiveInv PROVE ActiveInv'
    BY <1>1, <1>2, <2>1, <2>2 DEF ActiveInv
  <2>3. ASSUME OnlyInv PROVE OnlyInv'
    BY <1>1, <1>2, <2>1, <2>3 DEF OnlyInv
  <2>4. ASSUME SlotInv PROVE SlotInv'
    BY <1>1, <1>2, <2>1, <2>4 DEF SlotInv
  <2> QED BY <2>2, <2>3, <2>4
<1> QED BY <1>3, <1>4

(* The write of a bundle, by the only submission inside. *)
LEMMA WriteKeeps ==
  ASSUME TypeInv, LockInv, NEW p \in Stagers, WritePending(p)
  PROVE  /\ ActiveInv => ActiveInv'
         /\ OnlyInv => OnlyInv'
         /\ SlotInv => SlotInv'
<1> USE DEF TypeInv, TypeOK
<1>1. /\ UNCHANGED <<slot, locked, trouble>>
      /\ pc[p] = "writing" /\ locked[p]
      /\ \A q \in Stagers : q # p => pc'[q] = pc[q] /\ dir'[q] = dir[q]
      /\ \/ pc'[p] = "publishing" /\ dir'[p] = "pending"
         \/ pc'[p] = "unlocking" /\ dir'[p] = dir[p]
  BY DEF WritePending, Goto, LabelInv, Inside
<1>2. UNCHANGED <<Untroubled, Undisturbed, Remembered>>
  BY <1>1 DEF Untroubled, Undisturbed, Remembered
<1>3. "robbed" \notin trouble =>
        (\A q \in Stagers \ {p} : /\ pc[q] \notin Inside
                                  /\ locked[q] => pc[q] = "crashed")
  BY <1>1 DEF LabelInv, LockInv, InCriticalSection, Inside
<1>4. ASSUME ActiveInv PROVE ActiveInv'
  <2>1. Untroubled => "robbed" \notin trouble BY DEF Untroubled
  <2> QED BY <1>1, <1>2, <1>3, <1>4, <2>1 DEF ActiveInv, Inside
<1>5. ASSUME OnlyInv PROVE OnlyInv'
  <2>1. Undisturbed => "robbed" \notin trouble BY DEF Undisturbed
  <2> QED BY <1>1, <1>2, <1>3, <1>5, <2>1 DEF OnlyInv, Inside
<1>6. ASSUME SlotInv PROVE SlotInv'
  <2>1. Remembered => "robbed" \notin trouble BY DEF Remembered
  <2> QED BY <1>1, <1>2, <1>3, <1>6, <2>1 DEF SlotInv, Inside
<1> QED BY <1>4, <1>5, <1>6

LEMMA BundlesKept ==
  ASSUME TypeInv, LockInv, ActiveInv, OnlyInv, SlotInv, [Next]_vars
  PROVE  ActiveInv' /\ OnlyInv' /\ SlotInv'
<1>1. ASSUME NEW b \in Stagers, PublishMove(b) PROVE ActiveInv' /\ OnlyInv' /\ SlotInv'
  <2>1. UNCHANGED <<dir, pc, locked>> /\ trouble \subseteq trouble'
    BY <1>1 DEF PublishMove, PublishSlot, LeavesUnpublished, Suffers
  <2>2. slot' = NoSlot => slot = NoSlot
    <3>1. slot' = slot \/ slot'.bundle = b
      BY <1>1 DEF PublishMove, PublishSlot, WriteSlot
    <3> QED BY <3>1, StagersAssumption DEF NoSlot
  <2> QED BY <2>1, <2>2, OthersKeep
<1>2. CASE AgeLock BY <1>2, OthersKeep DEF AgeLock
<1>3. CASE UNCHANGED vars BY <1>3, OthersKeep DEF vars
<1> QED BY <1>1, <1>2, <1>3, MoveKeeps, CallsKeep, NoSlotKeeps, ScanKeeps, WriteKeeps
        DEF Next, StagerStep
------------------------------------------------------------------------------
KeyInv == TypeInv /\ LockInv /\ ActiveInv /\ OnlyInv /\ SlotInv

LEMMA InitKey == Init => KeyInv
<1> SUFFICES ASSUME Init PROVE KeyInv
  OBVIOUS
<1>1. \A p \in Stagers : pc[p] = "idle" /\ dir[p] = "none" /\ ~locked[p]
  BY DEF Init
<1>2. LockInv BY <1>1 DEF LockInv, InCriticalSection
<1>3. ActiveInv BY <1>1 DEF ActiveInv, Active
<1>4. OnlyInv BY <1>1 DEF OnlyInv
<1>5. SlotInv BY <1>1 DEF SlotInv
<1> QED BY <1>2, <1>3, <1>4, <1>5, InitTypes DEF KeyInv

(* The lock, the slot and the scans together keep the promise of the       *)
(* index: the inductive invariant of the theorems that follow.             *)
THEOREM KeyGuarded == Spec => []KeyInv
<1>1. ASSUME KeyInv, [Next]_vars PROVE KeyInv'
  <2>1. TypeInv'
    BY <1>1, MoverKeepsTypes, LookupKeepsTypes, ScanKeepsTypes, LockKeepsTypes, StutterKeepsTypes
    DEF Next, StagerStep, KeyInv
  <2> QED BY <1>1, <2>1, LockKept, BundlesKept DEF KeyInv
<1> QED BY InitKey, <1>1, PTL DEF Spec

(* A set whose members are all the same has one at most. *)
LEMMA AtMostOne ==
  ASSUME NEW S, \A a, b \in S : a = b
  PROVE  Cardinality(S) <= 1
<1>1. CASE S = {} BY <1>1, FS_EmptySet
<1>2. CASE S # {}
  <2>1. PICK a \in S : S = {a} BY <1>2
  <2> QED BY <2>1, FS_Singleton
<1> QED BY <1>1, <1>2

(* Of the bundles of one request at most one is pending or running, for    *)
(* any number of submissions, moves, kills, stalls and failed writes       *)
(* (bundles.py:867-925), unless the lock of a live submission was broken,  *)
(* a slot was not written, or a lookup that failed removed the slot of a   *)
(* pending bundle.                                                         *)
THEOREM OneActive == Spec => []AtMostOneActive
<1>1. KeyInv => AtMostOneActive
  <2> SUFFICES ASSUME KeyInv, Untroubled PROVE Cardinality(ActiveBundles) <= 1
    BY DEF AtMostOneActive, Untroubled
  <2>1. \A a, b \in ActiveBundles : a = b
    BY DEF KeyInv, ActiveInv, ActiveBundles
  <2> QED BY <2>1, AtMostOne
<1> QED BY KeyGuarded, <1>1, PTL

(* A request gets one bundle, pending, running or finished, for any number *)
(* of submissions, moves, kills, stalls and failed writes                  *)
(* (bundles.py:861-925), unless the lock of a live submission was broken   *)
(* or a bundle that moved has lost its slot: the lock excludes the others, *)
(* and what was written is in pending/, where the scan sees it, or named   *)
(* by the slot.                                                            *)
THEOREM OneBundle == Spec => []OneBundlePerRequest
<1>1. KeyInv => OneBundlePerRequest
  <2> SUFFICES ASSUME KeyInv, Undisturbed \/ Remembered PROVE Cardinality(Created) <= 1
    BY DEF OneBundlePerRequest, Undisturbed, Remembered
  <2>1. \A a, b \in Created : a = b
    BY DEF KeyInv, OnlyInv, SlotInv, Created
  <2> QED BY <2>1, AtMostOne
<1> QED BY KeyGuarded, <1>1, PTL
==============================================================================
