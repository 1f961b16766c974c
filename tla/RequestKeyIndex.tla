--------------------------- MODULE RequestKeyIndex ---------------------------
(***************************************************************************)
(* How terminal_bridge/bundles.py keeps two submissions of one request     *)
(* from becoming two bundles.  Everything here is about ONE request key:   *)
(* its lock directory, its slot file, and the bundles that carry it.  A    *)
(* stager is one call of BundleService.stage; the bundle it would create   *)
(* bears its name.  The canonical file of a bundle is in exactly one       *)
(* directory (BundleStore!OneCanonicalRecord), but a search tries the      *)
(* directories one after the other while bundles move.                     *)
(***************************************************************************)
EXTENDS FiniteSets, Naturals

CONSTANTS
  Stagers,         \* concurrent submissions of the same request
  MayMove,         \* TRUE iff bundles are claimed, finished and rejected meanwhile
  MayStall,        \* TRUE iff a holder may keep the key lock for over 30 seconds
  MayCrash,        \* submissions whose process may be killed
  WritesMayFail,   \* TRUE iff a write of a slot or of a record may fail
  None

ASSUME StagersAssumption == None \notin Stagers /\ MayCrash \subseteq Stagers
ASSUME FaultsAssumption == {MayMove, MayStall, WritesMayFail} \subseteq BOOLEAN

Active == {"pending", "running"}
Terminal == {"applied", "rejected", "failed", "interrupted"}
Dirs == Active \cup Terminal
SearchOrder == <<"running", "pending", "applied", "rejected", "failed", "interrupted">>

NoSlot == [bundle |-> None, status |-> "none"]
Slot == [bundle : Stagers, status : Dirs]

VARIABLES
  dir,       \* the directory of each stager's bundle, "none" before it is written
  owed,      \* owed[b]: b was moved and its mover has not yet published the slot
  slot,      \* the request-key slot file
  keyLock,   \* the lock directory exists
  lockOld,   \* the lock directory is more than 30 seconds old
  pc,        \* where each stager is
  locked,    \* locked[p]: p is in its second lookup, which it makes under the lock
  seen,      \* the slot p read, or the bundle its scan found
  at,        \* how far p's search for the slot's bundle has come
  answer,    \* the bundle p returned to its caller
  trouble    \* what has gone wrong so far (history)

vars == <<dir, owed, slot, keyLock, lockOld, pc, locked, seen, at, answer, trouble>>

Labels == {"idle", "lookSlot", "readSlot", "finding", "reading", "unlinking",
           "scanRunning", "scanPending", "scanTerminal", "syncing", "returning",
           "locking", "breaking", "writing", "publishing", "unlocking",
           "done", "raised", "crashed"}

(* A bundle moved; the lock of a live holder was removed; there was no     *)
(* slot, and none was written after a record; a lookup that failed removed *)
(* the slot of a bundle ("lost"), and did so while a bundle was pending    *)
(* ("unlinked").                                                           *)
Troubles == {"moved", "robbed", "unpublished", "lost", "unlinked"}

TypeOK ==
  /\ dir \in [Stagers -> Dirs \cup {"none"}]
  /\ owed \in [Stagers -> BOOLEAN]
  /\ slot \in Slot \cup {NoSlot}
  /\ keyLock \in BOOLEAN /\ lockOld \in BOOLEAN
  /\ pc \in [Stagers -> Labels]
  /\ locked \in [Stagers -> BOOLEAN]
  /\ seen \in [Stagers -> Slot \cup {NoSlot}]
  /\ at \in [Stagers -> 1..6]
  /\ answer \in [Stagers -> Stagers \cup {None}]
  /\ trouble \subseteq Troubles

Init ==
  /\ dir = [p \in Stagers |-> "none"]
  /\ owed = [p \in Stagers |-> FALSE]
  /\ slot = NoSlot
  /\ keyLock = FALSE /\ lockOld = FALSE
  /\ pc = [p \in Stagers |-> "idle"]
  /\ locked = [p \in Stagers |-> FALSE]
  /\ seen = [p \in Stagers |-> NoSlot]
  /\ at = [p \in Stagers |-> 1]
  /\ answer = [p \in Stagers |-> None]
  /\ trouble = {}

Goto(p, label) == pc' = [pc EXCEPT ![p] = label]
See(p, s) == seen' = [seen EXCEPT ![p] = s]

Suffers(t) == trouble' = trouble \cup {t}
WriteSlot(b, status) == slot' = [bundle |-> b, status |-> status]
LeavesUnpublished == IF slot = NoSlot THEN Suffers("unpublished") ELSE UNCHANGED trouble
(* _publish_command_bundle_change: a failed write of the slot is swallowed. *)
PublishSlot(b, status) ==
  \/ WriteSlot(b, status) /\ UNCHANGED trouble
  \/ WritesMayFail /\ UNCHANGED slot /\ LeavesUnpublished

(* Between its locked lookup and the release of the key lock. *)
InCriticalSection(p) == locked[p] /\ pc[p] # "crashed"
(* rmdir of the lock directory, whoever made it. *)
Unlock(p) ==
  /\ keyLock' = FALSE /\ lockOld' = FALSE
  /\ IF \E q \in Stagers \ {p} : InCriticalSection(q) THEN Suffers("robbed") ELSE UNCHANGED trouble
------------------------------------------------------------------------------
(* The rest of the system: claims, finalizations and rejections rename the *)
(* canonical file and then publish the slot.                               *)

NextDirs(d) == CASE d = "pending" -> {"running", "rejected"}
                 [] d = "running" -> {"applied", "failed", "interrupted"}
                 [] OTHER -> {}

MoveBundle(b) ==
  /\ MayMove
  /\ ~owed[b]
  /\ \E d \in NextDirs(dir[b]) : dir' = [dir EXCEPT ![b] = d]
  /\ owed' = [owed EXCEPT ![b] = TRUE]
  /\ Suffers("moved")
  /\ UNCHANGED <<slot, keyLock, lockOld, pc, locked, seen, at, answer>>

PublishMove(b) ==
  /\ owed[b]
  /\ owed' = [owed EXCEPT ![b] = FALSE]
  /\ PublishSlot(b, dir[b])
  /\ UNCHANGED <<dir, keyLock, lockOld, pc, locked, seen, at, answer>>
------------------------------------------------------------------------------
(* _find_command_bundle_by_request_key *)

Call(p) ==
  /\ pc[p] = "idle"
  /\ Goto(p, "lookSlot")
  /\ UNCHANGED <<dir, owed, slot, keyLock, lockOld, locked, seen, at, answer, trouble>>

(* MUTANT: the locked lookup scans the active directories at once: the     *)
(* slot was looked at before the lock.                                     *)
LookSlotOnce(p) ==
  /\ pc[p] = "lookSlot"
  /\ Goto(p, IF slot = NoSlot \/ locked[p] THEN "scanRunning" ELSE "readSlot")
  /\ UNCHANGED <<dir, owed, slot, keyLock, lockOld, locked, seen, at, answer, trouble>>

LookSlot(p) ==
  /\ pc[p] = "lookSlot"
  /\ Goto(p, IF slot = NoSlot THEN "scanRunning" ELSE "readSlot")
  /\ UNCHANGED <<dir, owed, slot, keyLock, lockOld, locked, seen, at, answer, trouble>>

ReadSlot(p) ==
  /\ pc[p] = "readSlot"
  /\ See(p, slot)
  /\ at' = [at EXCEPT ![p] = 1]
  /\ Goto(p, IF slot = NoSlot THEN "unlinking" ELSE "finding")
  /\ UNCHANGED <<dir, owed, slot, keyLock, lockOld, locked, answer, trouble>>

(* _find_command_bundle, one directory per step; "reading" is between      *)
(* path.exists() and the read of the file.                                 *)
FindNext(p) ==
  /\ pc[p] = "finding"
  /\ IF dir[seen[p].bundle] = SearchOrder[at[p]]
     THEN Goto(p, "reading") /\ UNCHANGED at
     ELSE IF at[p] = 6
     THEN Goto(p, "unlinking") /\ UNCHANGED at
     ELSE at' = [at EXCEPT ![p] = @ + 1] /\ UNCHANGED pc
  /\ UNCHANGED <<dir, owed, slot, keyLock, lockOld, locked, seen, answer, trouble>>

ReadFound(p) ==
  /\ pc[p] = "reading"
  /\ LET d == dir[seen[p].bundle] IN
     IF d # SearchOrder[at[p]]
     THEN Goto(p, "unlinking") /\ UNCHANGED seen         \* moved away: FileNotFoundError
     ELSE /\ Goto(p, IF seen[p].status = d THEN "returning" ELSE "syncing")
          /\ See(p, [seen[p] EXCEPT !.status = d])
  /\ UNCHANGED <<dir, owed, slot, keyLock, lockOld, locked, at, answer, trouble>>

(* Any failure of the indexed lookup removes the slot, whatever it names   *)
(* by now.                                                                 *)
UnlinkSlot(p) ==
  /\ pc[p] = "unlinking"
  /\ slot' = NoSlot
  /\ See(p, NoSlot)
  /\ Goto(p, "scanRunning")
  /\ trouble' = trouble
       \cup (IF \E b \in Stagers : dir[b] # "none" THEN {"lost"} ELSE {})
       \cup (IF \E b \in Stagers : dir[b] = "pending" THEN {"unlinked"} ELSE {})
  /\ UNCHANGED <<dir, owed, keyLock, lockOld, locked, at, answer>>

(* Scan the directories ds; found, the bundle goes back into the slot. *)
Scan(p, ds, otherwise) ==
  /\ \/ \E b \in Stagers : /\ dir[b] \in ds
                           /\ See(p, [bundle |-> b, status |-> dir[b]])
                           /\ Goto(p, "syncing")
     \/ /\ \A b \in Stagers : dir[b] \notin ds
        /\ Goto(p, otherwise)
        /\ UNCHANGED seen
  /\ UNCHANGED <<dir, owed, slot, keyLock, lockOld, locked, at, answer, trouble>>

ScanRunning(p) == pc[p] = "scanRunning" /\ Scan(p, {"running"}, "scanPending")
(* The locked lookup does not look at finished bundles. *)
ScanPending(p) ==
  pc[p] = "scanPending" /\ Scan(p, {"pending"}, IF locked[p] THEN "writing" ELSE "scanTerminal")

ScanTerminal(p) == pc[p] = "scanTerminal" /\ Scan(p, Terminal, "locking")

(* Here a failed write of the slot is not swallowed: the call raises. *)
SyncSlot(p) ==
  /\ pc[p] = "syncing"
  /\ \/ WriteSlot(seen[p].bundle, seen[p].status) /\ Goto(p, "returning")
     \/ WritesMayFail /\ UNCHANGED slot /\ Goto(p, IF locked[p] THEN "unlocking" ELSE "raised")
  /\ UNCHANGED trouble
  /\ UNCHANGED <<dir, owed, keyLock, lockOld, locked, seen, at, answer>>

Return(p) ==
  /\ pc[p] = "returning"
  /\ answer' = [answer EXCEPT ![p] = seen[p].bundle]
  /\ Goto(p, IF locked[p] THEN "unlocking" ELSE "done")
  /\ UNCHANGED <<dir, owed, slot, keyLock, lockOld, locked, seen, at, trouble>>
------------------------------------------------------------------------------
(* _request_key_lock and _write_pending_command_bundle *)

(* MUTANT: the key lock is not exclusive. *)
TakeSharedLock(p) ==
  /\ pc[p] = "locking"
  /\ keyLock' = TRUE /\ lockOld' = FALSE
  /\ locked' = [locked EXCEPT ![p] = TRUE]
  /\ Goto(p, "lookSlot")
  /\ UNCHANGED <<dir, owed, slot, seen, at, answer, trouble>>

TakeKeyLock(p) ==
  /\ pc[p] = "locking"
  /\ ~keyLock
  /\ keyLock' = TRUE /\ lockOld' = FALSE
  /\ locked' = [locked EXCEPT ![p] = TRUE]
  /\ Goto(p, "lookSlot")
  /\ UNCHANGED <<dir, owed, slot, seen, at, answer, trouble>>

(* MUTANT: no deadline, only a stale lock ends the wait. *)
WaitForStale(p) ==
  /\ pc[p] = "locking"
  /\ keyLock /\ lockOld
  /\ Goto(p, "breaking")
  /\ UNCHANGED <<dir, owed, slot, keyLock, lockOld, locked, seen, at, answer, trouble>>

(* p cannot take the lock: it has seen it stale, or its 5 seconds are over. *)
GiveUpWaiting(p) ==
  /\ pc[p] = "locking"
  /\ keyLock
  /\ Goto(p, IF lockOld THEN "breaking" ELSE "raised")
  /\ UNCHANGED <<dir, owed, slot, keyLock, lockOld, locked, seen, at, answer, trouble>>

(* rmdir of a lock that was stale when p looked at it. *)
BreakLock(p) ==
  /\ pc[p] = "breaking"
  /\ Unlock(p)
  /\ Goto(p, "locking")
  /\ UNCHANGED <<dir, owed, slot, locked, seen, at, answer>>

AgeLock ==
  /\ keyLock /\ ~lockOld
  /\ MayStall \/ \A p \in Stagers : ~InCriticalSection(p)
  /\ lockOld' = TRUE
  /\ UNCHANGED <<dir, owed, slot, keyLock, pc, locked, seen, at, answer, trouble>>

WritePending(p) ==
  /\ pc[p] = "writing"
  /\ \/ /\ dir' = [dir EXCEPT ![p] = "pending"]
        /\ answer' = [answer EXCEPT ![p] = p]
        /\ Goto(p, "publishing")
     \/ /\ WritesMayFail
        /\ Goto(p, "unlocking")
        /\ UNCHANGED <<dir, answer>>
  /\ UNCHANGED <<owed, slot, keyLock, lockOld, locked, seen, at, trouble>>

(* MUTANT: the slot is written from the directory before the record is in it. *)
PublishUnplaced(p) ==
  /\ pc[p] = "publishing"
  /\ PublishSlot(p, "none")
  /\ Goto(p, "unlocking")
  /\ UNCHANGED <<dir, owed, keyLock, lockOld, locked, seen, at, answer>>

PublishPending(p) ==
  /\ pc[p] = "publishing"
  /\ PublishSlot(p, "pending")
  /\ Goto(p, "unlocking")
  /\ UNCHANGED <<dir, owed, keyLock, lockOld, locked, seen, at, answer>>

ReleaseKeyLock(p) ==
  /\ pc[p] = "unlocking"
  /\ Unlock(p)
  /\ locked' = [locked EXCEPT ![p] = FALSE]
  /\ Goto(p, IF answer[p] = None THEN "raised" ELSE "done")
  /\ UNCHANGED <<dir, owed, slot, seen, at, answer>>

Crash(p) ==
  /\ p \in MayCrash
  /\ pc[p] \notin {"idle", "done", "raised", "crashed"}
  /\ Goto(p, "crashed")
  /\ IF pc[p] = "publishing" THEN LeavesUnpublished ELSE UNCHANGED trouble
  /\ UNCHANGED <<dir, owed, slot, keyLock, lockOld, locked, seen, at, answer>>
------------------------------------------------------------------------------
StagerStep(p) ==
  \/ LookSlot(p) \/ ReadSlot(p) \/ FindNext(p) \/ ReadFound(p) \/ UnlinkSlot(p)
  \/ ScanRunning(p) \/ ScanPending(p) \/ ScanTerminal(p) \/ SyncSlot(p) \/ Return(p)
  \/ TakeKeyLock(p) \/ GiveUpWaiting(p) \/ BreakLock(p)
  \/ WritePending(p) \/ PublishPending(p) \/ ReleaseKeyLock(p)

Next == \/ \E p \in Stagers : Call(p) \/ StagerStep(p) \/ Crash(p)
        \/ \E b \in Stagers : MoveBundle(b) \/ PublishMove(b)
        \/ AgeLock

Spec == Init /\ [][Next]_vars
(* A call runs on by itself; a mover that renamed a file publishes it. *)
LiveSpec == Spec /\ \A p \in Stagers : WF_vars(StagerStep(p)) /\ WF_vars(PublishMove(p))
------------------------------------------------------------------------------
Created == {b \in Stagers : dir[b] # "none"}
ActiveBundles == {b \in Stagers : dir[b] \in Active}

(* One request never has two bundles that can still do something           *)
(* (plan:112 "dedupe strongly across active `pending`/`running` work"),    *)
(* also while they move, unless the lock of a live submission was broken,  *)
(* a slot was never written, or a failed lookup removed the slot while a   *)
(* bundle was pending.                                                     *)
AtMostOneActive ==
  trouble \cap {"robbed", "unpublished", "unlinked"} = {} => Cardinality(ActiveBundles) <= 1

(* What the plan says of it, with no word of failed lookups, as long as    *)
(* every lock is respected and every slot is written.                      *)
DedupesStrongly ==
  trouble \cap {"robbed", "unpublished"} = {} => Cardinality(ActiveBundles) <= 1

(* One request has one bundle, pending, running or finished: a repeated    *)
(* submission replays the final result instead of making a second attempt  *)
(* (docs/en/workflow.md:84), however its lookups and its wait for the lock *)
(* fall between the claim, the end and the slot writes of the first.  The  *)
(* locked lookup scans active directories only, so for a bundle that has   *)
(* moved all rests on the slot: the exceptions are the lock of a live      *)
(* submission broken, and a bundle that moved AND that was left without a  *)
(* slot, by a failed write, a kill, or a lookup that lost it in mid-move.  *)
OneBundlePerRequest ==
  \/ "robbed" \in trouble
  \/ "moved" \in trouble /\ {"unpublished", "lost"} \cap trouble # {}
  \/ Cardinality(Created) <= 1

(* Every submission comes to an end: an answer, an exception or a crash. *)
SubmissionsEnd ==
  \A p \in Stagers : pc[p] = "lookSlot" ~> pc[p] \in {"done", "raised", "crashed"}
==============================================================================
