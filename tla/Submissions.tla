----------------------------- MODULE Submissions -----------------------------
(***************************************************************************)
(* What a client of the MCP server sees of its proposals: the propose      *)
(* tools stage a bundle and wait for its end, a signed intent is imported  *)
(* through the review server, the runner executes what was approved, and a *)
(* cleanup removes history under all of them.                              *)
(*                                                                         *)
(* The MCP server is one event loop: a call runs undisturbed by the other  *)
(* calls until it sleeps between two polls.  The review server, the        *)
(* runners and the cleanup are processes of their own.  That a search of   *)
(* the bundle directories may miss a bundle that moves meanwhile, and      *)
(* that otherwise one request key has one bundle, is RequestKeyIndex; that *)
(* a bundle moves along its lifecycle is BundleStore.                      *)
(***************************************************************************)
EXTENDS PayloadStore

CONSTANTS
  Calls,       \* calls of the client; a bundle has the name of the call that made it
  NoCall,
  Scripts,     \* what the calls may ask: functions from Calls to Asks
  Message,     \* Message[t]: the commit message of intent t; others may have the same
  Trees,       \* what git status may show of the workspace
  CleanTree,   \* nothing to commit
  MaxEdits,    \* how often that changes
  MaxCleanups  \* how often somebody cleans up

Proposals == {"command", "file_write", "file_replace", "patch", "commit", "push"}
Intents == {"check_intent", "commit_intent"}
Tools == Proposals \cup Intents \cup {"wait", "nothing"}

(* Two asks are the same iff tool, arguments and metadata are: `request`   *)
(* stands for the latter two, with the nonce when it is an intent.         *)
Requests == 1..2
Asks == [tool : Tools, request : Requests]

ASSUME NoCallAssumption == NoCall \notin Calls
ASSUME ScriptsAssumption == Scripts \subseteq [Calls -> Asks]
(* A nonce belongs to one intent. *)
ASSUME NonceAssumption ==
  \A f \in Scripts : \A c, d \in Calls :
    {f[c].tool, f[d].tool} \subseteq Intents /\ f[c].request = f[d].request => f[c] = f[d]
ASSUME TreesAssumption == CleanTree \in Trees /\ MaxEdits \in Nat /\ MaxCleanups \in Nat

VARIABLES
  ask,       \* ask[c] (never changes)
  pc,        \* where each call is
  busy,      \* the call the server's event loop is in, or NoCall
  late,      \* late[c]: the deadline of c has passed
  moved,     \* moved[c]: a bundle c may be looking for moved during its search
  target,    \* the bundle c has staged, found or asks about
  journal,   \* journal[c]: its record under TOOL_CALL_DIR
  key,       \* key[c]: the request key c has computed
  pin,       \* pin[c]: the patch text whose sha256 c has put into its step
  where,     \* where[b]: the directory of b's record
  got,       \* got[b]: the chunks the runner of b has read
  ran,       \* ran[b]: what the runner of b has executed
  imports,   \* imports[t]: the bundle in the import record of intent t, or NoCall
  expired,   \* the intents are over 15 minutes old
  tree,      \* what git status shows
  edits,     \* how often that has changed
  cleaning,  \* what the cleanup at work has listed and not removed yet
  cleanups,  \* how often there has been one
  excused    \* asks that something may have made run twice (history)

callVars == <<pc, busy, late, moved, target, journal, key, pin>>
bundleVars == <<where, got, ran>>
intentVars == <<imports, expired, tree, edits>>
cleanVars == <<cleaning, cleanups>>
vars == <<payloadVars, ask, callVars, bundleVars, intentVars, cleanVars, excused>>

Active == {"pending", "running"}
Final == {"applied", "rejected", "failed", "interrupted"}
Ended == {"done", "raised", "failed", "dead"}   \* "failed": see CallFails
Labels == Ended \cup {"new", "looking", "finding", "sleeping", "importFinding",
                      "approving", "recording"}
Patches == [Chunks -> Texts \cup {Gone, Empty}]
NoPatch == [i \in Chunks |-> Gone]
Inline == [i \in Chunks |-> Empty]   \* what a bundle without a payload executes
PayloadItem == [kind |-> "payload", of |-> NoCall]
Items == {PayloadItem} \cup {[kind |-> k, of |-> c] : k \in {"bundle", "call"}, c \in Calls}
                     \cup {[kind |-> "import", of |-> t] : t \in Requests}

IsIntent(c) == ask[c].tool \in Intents
Token(c) == ask[c].request
InFlight(c) == pc[c] \notin Ended \cup {"new"}
Free == busy = NoCall /\ StagingAt("idle")
Goto(c, label) == pc' = [pc EXCEPT ![c] = label]

Init ==
  /\ PayloadInit
  /\ ask \in Scripts
  /\ pc = [c \in Calls |-> "new"]
  /\ busy = NoCall
  /\ late = [c \in Calls |-> FALSE]
  /\ moved = [c \in Calls |-> FALSE]
  /\ target = [c \in Calls |-> NoCall]
  /\ journal = [c \in Calls |-> "none"]
  /\ key = [c \in Calls |-> <<>>]
  /\ pin = [c \in Calls |-> NoPatch]
  /\ where = [c \in Calls |-> "none"]
  /\ got = [c \in Calls |-> NoPatch]
  /\ ran = [c \in Calls |-> NoPatch]
  /\ imports = [t \in Requests |-> NoCall]
  /\ expired = FALSE
  /\ tree = CleanTree
  /\ edits = 0
  /\ cleaning = {}
  /\ cleanups = 0
  /\ excused = {}
------------------------------------------------------------------------------
(* The propose tools, up to the search for the request *)

(* _record_tool_call_async writes the journal record first ...             *)
Arrive(c) ==
  /\ pc[c] = "new"
  /\ Free
  /\ busy' = c
  /\ journal' = [journal EXCEPT ![c] = "started"]

(* ... and reads it again when the call ends: when it has been removed     *)
(* meanwhile, write_completed raises and the client gets no answer.        *)
Answers(c) ==
  /\ IF journal[c] = "started"
     THEN journal' = [journal EXCEPT ![c] = "completed"] /\ Goto(c, "done")
     ELSE UNCHANGED journal /\ Goto(c, "raised")
  /\ busy' = NoCall

Raises(c) ==
  /\ journal' = [journal EXCEPT ![c] = IF @ = "deleted" THEN @ ELSE "failed"]
  /\ Goto(c, "raised")
  /\ busy' = NoCall

(* The search for the request begins, with this key and this patch text. *)
LookUp(c, k, p) ==
  /\ key' = [key EXCEPT ![c] = k]
  /\ pin' = [pin EXCEPT ![c] = p]
  /\ moved' = [moved EXCEPT ![c] = FALSE]
  /\ Goto(c, "looking")

(* What two requests must agree in to be the same.  A push is a command; a *)
(* patch is known by its sha256, however it was handed over; a commit that *)
(* was an intent by its message and its paths.                             *)
CommandKey(request) == <<"command_bundle", request>>
ActionKey(request) == <<"action_bundle", request>>
CommitKey(request) == <<"commit_bundle", request>>
ChangesKey(message, paths) == <<"commit_bundle", message, paths>>
PatchKey(request, patch) == <<"patch_bundle", request, patch>>

Propose(c, tool, k) ==
  /\ ask[c].tool = tool
  /\ Arrive(c)
  /\ LookUp(c, k, Inline)
  /\ UNCHANGED <<payloadVars, ask, late, target, bundleVars, intentVars, cleanVars, excused>>

ProposeCommand(c) == Propose(c, "command", CommandKey(ask[c]))
ProposeFileWrite(c) == Propose(c, "file_write", ActionKey(ask[c]))
ProposeFileReplace(c) == Propose(c, "file_replace", ActionKey(ask[c]))
ProposeCommit(c) == Propose(c, "commit", CommitKey(ask[c]))
ProposePush(c) == Propose(c, "push", CommandKey(ask[c]))

(* The payload behind patch_ref is read at once. *)
ProposePatch(c) ==
  /\ ask[c].tool = "patch"
  /\ Arrive(c)
  /\ Readable
  /\ LookUp(c, PatchKey(ask[c], chunk), chunk)
  /\ UNCHANGED <<payloadVars, ask, late, target, bundleVars, intentVars, cleanVars, excused>>

(* The arguments are not acceptable: an unsafe command, path or branch, a  *)
(* cwd that is no directory, or a payload that is not there.  (A payload   *)
(* may also go between the check and the read.)                            *)
RefuseProposal(c) ==
  /\ pc[c] = "new" /\ ask[c].tool \in Proposals
  /\ Free
  /\ Raises(c)
  /\ UNCHANGED <<payloadVars, ask, late, moved, target, key, pin, bundleVars, intentVars,
                 cleanVars, excused>>

(* A remote or a branch is refused before there is a record. *)
RefusePush(c) ==
  /\ pc[c] = "new" /\ ask[c].tool = "push"
  /\ Free
  /\ Goto(c, "raised")
  /\ UNCHANGED <<payloadVars, ask, busy, late, moved, target, journal, key, pin, bundleVars,
                 intentVars, cleanVars, excused>>
------------------------------------------------------------------------------
(* BundleService.stage *)

(* MUTANT: finished bundles are not looked at. *)
ActiveRequest(k) == {b \in Calls : where[b] \in Active /\ key[b] = k}

(* The bundles _find_command_bundle_by_request_key may answer. *)
SameRequest(k) == {b \in Calls : where[b] \in Active \cup Final /\ key[b] = k}

(* What comes next: the import record, or a first look at the status. *)
StageReturns(c) ==
  /\ Goto(c, IF IsIntent(c) THEN "recording" ELSE "finding")
  /\ moved' = [moved EXCEPT ![c] = FALSE]

(* A repeated request is answered with the bundle it has, finished or not. *)
StageExisting(c) ==
  /\ pc[c] = "looking"
  /\ \E b \in SameRequest(key[c]) : target' = [target EXCEPT ![c] = b]
  /\ StageReturns(c)
  /\ UNCHANGED <<payloadVars, ask, busy, late, journal, key, pin, bundleVars,
                 intentVars, cleanVars, excused>>

(* MUTANT: the new record is in a directory no search looks at. *)
StageElsewhere(c) ==
  /\ pc[c] = "looking"
  /\ SameRequest(key[c]) = {}
  /\ where' = [where EXCEPT ![c] = "staged"]
  /\ target' = [target EXCEPT ![c] = c]
  /\ StageReturns(c)
  /\ UNCHANGED <<payloadVars, ask, busy, late, journal, key, pin, got, ran,
                 intentVars, cleanVars, excused>>

(* No bundle has the key, or the search has missed it because it moved;    *)
(* under the key lock only active bundles are looked for once more.        *)
StageNew(c) ==
  /\ pc[c] = "looking"
  /\ \/ SameRequest(key[c]) = {}
     \/ moved[c] /\ \A b \in SameRequest(key[c]) : where[b] \in Final
  /\ where' = [where EXCEPT ![c] = "pending"]
  /\ target' = [target EXCEPT ![c] = c]
  /\ excused' = IF SameRequest(key[c]) = {} THEN excused ELSE excused \cup {ask[c]}
  /\ StageReturns(c)
  /\ UNCHANGED <<payloadVars, ask, busy, late, journal, key, pin, got, ran,
                 intentVars, cleanVars>>
------------------------------------------------------------------------------
(* BundleService.wait *)

Known == {target[c] : c \in Calls} \ {NoCall}

(* workspace_wait_command_bundle_status of a bundle the client knows *)
Wait(c) ==
  /\ ask[c].tool = "wait"
  /\ Arrive(c)
  /\ \E b \in Known : target' = [target EXCEPT ![c] = b]
  /\ Goto(c, "finding")
  /\ UNCHANGED <<payloadVars, ask, late, moved, key, pin, bundleVars, intentVars,
                 cleanVars, excused>>

(* MUTANT: the search leaves out the interrupted bundles. *)
FewerDirs == Active \cup (Final \ {"interrupted"})
(* _command_bundle_dirs *)
SearchDirs == Active \cup Final

(* The bundle is found in one of the directories: an active one is looked  *)
(* at again later, unless the time is over.                                *)
Find(c) ==
  /\ pc[c] = "finding"
  /\ where[target[c]] \in SearchDirs
  /\ IF where[target[c]] \in Active /\ ~late[c]
     THEN Goto(c, "sleeping") /\ busy' = NoCall /\ UNCHANGED journal
     ELSE Answers(c)
  /\ moved' = [moved EXCEPT ![c] = FALSE]
  /\ UNCHANGED <<payloadVars, ask, late, target, key, pin, bundleVars, intentVars,
                 cleanVars, excused>>

(* FileNotFoundError: the bundle is gone, or moved past the search. *)
Miss(c) ==
  /\ pc[c] = "finding"
  /\ where[target[c]] \notin SearchDirs \/ moved[c]
  /\ Raises(c)
  /\ UNCHANGED <<payloadVars, ask, late, moved, target, key, pin, bundleVars, intentVars,
                 cleanVars, excused>>

Wake(c) ==
  /\ pc[c] = "sleeping"
  /\ Free
  /\ busy' = c
  /\ Goto(c, "finding")
  /\ moved' = [moved EXCEPT ![c] = FALSE]
  /\ UNCHANGED <<payloadVars, ask, late, target, journal, key, pin, bundleVars,
                 intentVars, cleanVars, excused>>

(* A file operation of the call fails, or another process has the lock of  *)
(* the request key for 10 seconds: before the bundle is stored, after it   *)
(* (the index slot, the audit log), or in the journal, which then may not  *)
(* have the verdict.                                                       *)
CallFails(c) ==
  /\ Stops
  /\ pc[c] \in {"looking", "finding"} /\ ~IsIntent(c)
  /\ journal' \in {journal, [journal EXCEPT ![c] = IF @ = "deleted" THEN @ ELSE "failed"]}
  /\ Goto(c, "failed")
  /\ busy' = NoCall
  /\ UNCHANGED <<chunk, manifest, staging, stages, acked, doomed, spoiled, ask, late, moved,
                 target, key, pin, bundleVars, intentVars, cleanVars, excused>>

DeadlinePasses(c) ==
  /\ pc[c] \in {"finding", "sleeping"} /\ ~late[c]
  /\ late' = [late EXCEPT ![c] = TRUE]
  /\ UNCHANGED <<payloadVars, ask, pc, busy, moved, target, journal, key, pin,
                 bundleVars, intentVars, cleanVars, excused>>

(* The MCP server dies with every call it has. *)
ServerDies ==
  /\ Stops
  /\ \E c \in Calls : InFlight(c) /\ ~IsIntent(c)
  /\ CutShort
  /\ pc' = [c \in Calls |-> IF InFlight(c) /\ ~IsIntent(c) THEN "dead" ELSE pc[c]]
  /\ busy' = NoCall
  /\ UNCHANGED <<ask, late, moved, target, journal, key, pin, bundleVars, intentVars,
                 cleanVars, excused>>
------------------------------------------------------------------------------
(* _import_intent, in a thread of the review server *)

Importing(t) == {c \in Calls : IsIntent(c) /\ Token(c) = t
                               /\ pc[c] \in {"importFinding", "approving", "looking", "recording"}}

(* The token is valid for 15 minutes; the import record is read first.     *)
(* Two imports that overlap may both find none.                            *)
Import(c) ==
  /\ pc[c] = "new"
  /\ IsIntent(c)
  /\ IF expired THEN Goto(c, "raised") /\ UNCHANGED <<target, moved>>
     ELSE IF imports[Token(c)] = NoCall THEN Goto(c, "approving") /\ UNCHANGED <<target, moved>>
     ELSE /\ Goto(c, "importFinding")
          /\ target' = [target EXCEPT ![c] = imports[Token(c)]]
          /\ moved' = [moved EXCEPT ![c] = FALSE]
  /\ excused' = IF Importing(Token(c)) = {} THEN excused ELSE excused \cup {ask[c]}
  /\ UNCHANGED <<payloadVars, ask, busy, late, journal, key, pin, bundleVars,
                 intentVars, cleanVars>>

(* _intent_result_from_import *)
ImportFinds(c) ==
  /\ pc[c] = "importFinding"
  /\ where[target[c]] \in SearchDirs
  /\ Goto(c, "done")
  /\ UNCHANGED <<payloadVars, ask, busy, late, moved, target, journal, key, pin, bundleVars,
                 intentVars, cleanVars, excused>>

ImportMisses(c) ==
  /\ pc[c] = "importFinding"
  /\ where[target[c]] \notin SearchDirs \/ moved[c]
  /\ excused' = IF moved[c] THEN excused \cup {ask[c]} ELSE excused
  /\ Goto(c, "approving")
  /\ UNCHANGED <<payloadVars, ask, busy, late, moved, target, journal, key, pin,
                 bundleVars, intentVars, cleanVars>>

(* _approve_intent: the title of a check has the nonce in it; a commit has *)
(* only the paths git status shows at this moment, and needs some.         *)
Approve(c) ==
  /\ pc[c] = "approving"
  /\ IF ask[c].tool = "commit_intent"
     THEN /\ tree # CleanTree
          /\ LookUp(c, ChangesKey(Message[Token(c)], tree), Inline)
     ELSE LookUp(c, CommandKey(ask[c]), Inline)
  /\ UNCHANGED <<payloadVars, ask, busy, late, target, journal, bundleVars,
                 intentVars, cleanVars, excused>>

NothingToCommit(c) ==
  /\ pc[c] = "approving"
  /\ ask[c].tool = "commit_intent" /\ tree = CleanTree
  /\ Goto(c, "raised")
  /\ UNCHANGED <<payloadVars, ask, busy, late, moved, target, journal, key, pin,
                 bundleVars, intentVars, cleanVars, excused>>

RecordImport(c) ==
  /\ pc[c] = "recording"
  /\ imports' = [imports EXCEPT ![Token(c)] = target[c]]
  /\ Goto(c, "done")
  /\ UNCHANGED <<payloadVars, ask, busy, late, moved, target, journal, key, pin, bundleVars,
                 expired, tree, edits, cleanVars, excused>>

(* The review server dies, or a file operation of the import fails, such   *)
(* as the audit log or the import record when the bundle is stored.        *)
ImportDies(c) ==
  /\ Stops
  /\ IsIntent(c) /\ InFlight(c)
  /\ Goto(c, "dead")
  /\ excused' = IF pc[c] = "recording" THEN excused \cup {ask[c]} ELSE excused
  /\ UNCHANGED <<chunk, manifest, staging, stages, acked, doomed, spoiled, ask, busy, late,
                 moved, target, journal, key, pin, bundleVars, intentVars, cleanVars>>

TokensExpire ==
  /\ ~expired /\ \E c \in Calls : IsIntent(c) /\ pc[c] = "new"
  /\ expired' = TRUE
  /\ UNCHANGED <<payloadVars, ask, callVars, bundleVars, imports, tree, edits, cleanVars, excused>>

(* Somebody changes or commits files. *)
EditTree ==
  /\ edits < MaxEdits
  /\ \E c \in Calls : ask[c].tool = "commit_intent"
  /\ edits' = edits + 1
  /\ tree' \in Trees \ {tree}
  /\ UNCHANGED <<payloadVars, ask, callVars, bundleVars, imports, expired, cleanVars, excused>>
------------------------------------------------------------------------------
(* The runner and the reviewer *)

(* A move of b is noticed by every search that is under way for it. *)
Moves(b, d) ==
  /\ where' = [where EXCEPT ![b] = d]
  /\ moved' = [c \in Calls |->
       \/ moved[c]
       \/ pc[c] = "looking" /\ key[c] = key[b]
       \/ pc[c] \in {"finding", "importFinding"} /\ target[c] = b]

Others == <<payloadVars, ask, pc, busy, late, target, journal, key, pin, intentVars,
            cleanVars, excused>>

Claim(b) ==
  /\ where[b] = "pending"
  /\ Moves(b, "running")
  /\ UNCHANGED <<Others, got, ran>>

Reject(b) ==
  /\ where[b] = "pending"
  /\ Moves(b, "rejected")
  /\ UNCHANGED <<Others, got, ran>>

HasPayload(b) == ask[b].tool = "patch"
Unread(b) == {i \in Chunks : got[b][i] = Gone}
NextUnread(b) == CHOOSE i \in Unread(b) : \A j \in Unread(b) : i <= j

(* read_text_payload_ref of the runner, one chunk after the other *)
ReadChunk(b) ==
  /\ where[b] = "running" /\ HasPayload(b)
  /\ ran[b] = NoPatch
  /\ Unread(b) # {}
  /\ Unread(b) = Chunks => manifest = "complete"
  /\ chunk[NextUnread(b)] # Gone
  /\ got' = [got EXCEPT ![b][NextUnread(b)] = chunk[NextUnread(b)]]
  /\ UNCHANGED <<Others, moved, where, ran>>

(* MUTANT: the runner does not compare the patch with its sha256. *)
AnyPatch(b) == HasPayload(b) => Unread(b) = {}

(* apply_patch_step: "patch_sha256 does not match patch content" *)
Approved(b) == HasPayload(b) => got[b] = pin[b]

Execute(b) ==
  /\ where[b] = "running"
  /\ ran[b] = NoPatch
  /\ Approved(b)
  /\ ran' = [ran EXCEPT ![b] = IF HasPayload(b) THEN got[b] ELSE Inline]
  /\ UNCHANGED <<Others, moved, where, got>>

(* The verdict: applied when its steps ran; failed for whatever reason,    *)
(* before or after; interrupted when its runner died.                      *)
Finish(b, d) ==
  /\ where[b] = "running"
  /\ d = "applied" => ran[b] # NoPatch
  /\ Moves(b, d)
  /\ UNCHANGED <<Others, got, ran>>
------------------------------------------------------------------------------
(* cleanup_runtime and clear history *)

Payload == IF manifest = "none" /\ \A i \in Chunks : chunk[i] = Gone THEN {} ELSE {PayloadItem}
OldBundles == {[kind |-> "bundle", of |-> b] : b \in {c \in Calls : where[c] \in {"applied", "rejected", "failed"}}}
CallRecords == {[kind |-> "call", of |-> c] : c \in {d \in Calls : journal[d] \notin {"none", "deleted"}}}
ImportRecords == {[kind |-> "import", of |-> t] : t \in {u \in Requests : imports[u] # NoCall}}

(* By the policy, what is too old or one too many of a kind; clear history *)
(* takes all there is.  Neither lists a bundle that is pending, running or *)
(* interrupted.                                                            *)
ByPolicy == {Payload, OldBundles, CallRecords, ImportRecords}
AllHistory == UNION ByPolicy

ListCandidates ==
  /\ cleaning = {} /\ doomed = {}
  /\ cleanups < MaxCleanups
  /\ cleanups' = cleanups + 1
  /\ cleaning' \in (ByPolicy \cup {AllHistory}) \ {{}}
  /\ UNCHANGED <<payloadVars, ask, callVars, bundleVars, intentVars, excused>>

(* The candidates go in the order of their directories. *)
Rank(item) == CASE item.kind = "bundle" -> 1 [] item.kind = "call" -> 2
                [] item.kind = "payload" -> 3 [] OTHER -> 4
IsNext(item) ==
  /\ item \in cleaning /\ doomed = {}
  /\ \A other \in cleaning : Rank(item) <= Rank(other)

DeletePayload ==
  /\ IsNext(PayloadItem)
  /\ cleaning' = cleaning \ {PayloadItem}
  /\ ListFiles
  /\ spoiled' = TRUE
  /\ UNCHANGED <<chunk, manifest, staging, stages, stops, acked, ask, callVars, bundleVars,
                 intentVars, cleanups, excused>>

DeleteFile ==
  /\ \E f \in doomed : RemoveFile(f)
  /\ UNCHANGED <<ask, callVars, bundleVars, intentVars, cleanVars, excused>>

Delete(item) ==
  /\ IsNext(item)
  /\ cleaning' = cleaning \ {item}
  /\ where' = [b \in Calls |-> IF item = [kind |-> "bundle", of |-> b] THEN "deleted" ELSE where[b]]
  /\ journal' = [c \in Calls |-> IF item = [kind |-> "call", of |-> c] THEN "deleted" ELSE journal[c]]
  /\ imports' = [t \in Requests |-> IF item = [kind |-> "import", of |-> t] THEN NoCall ELSE imports[t]]
  /\ excused' = IF item.kind = "import" THEN excused \cup {a \in Asks : a.request = item.of}
                ELSE excused
  /\ UNCHANGED <<payloadVars, ask, pc, busy, late, moved, target, key, pin, got, ran,
                 expired, tree, edits, cleanups>>
------------------------------------------------------------------------------
(* The client stages texts for a patch it has not seen the end of. *)
ServerStages ==
  /\ \/ /\ busy = NoCall
        /\ \E c \in Calls : HasPayload(c) /\ (pc[c] \notin Ended \/ where[c] \in Active)
        /\ \E i \in Chunks : \E t \in Offers[i] : StageChunk(i, t)
     \/ StagingStep \/ StopStaging
  /\ UNCHANGED <<ask, callVars, bundleVars, intentVars, cleanVars, excused>>

ProposalStep(c) ==
  StageExisting(c) \/ StageNew(c) \/ Find(c) \/ Miss(c) \/ Wake(c) \/ CallFails(c)
ImportStep(c) ==
  ImportFinds(c) \/ ImportMisses(c) \/ Approve(c) \/ NothingToCommit(c) \/ RecordImport(c)

Begin(c) ==
  \/ ProposeCommand(c) \/ ProposeFileWrite(c) \/ ProposeFileReplace(c) \/ ProposePatch(c)
  \/ ProposeCommit(c) \/ ProposePush(c) \/ RefuseProposal(c) \/ RefusePush(c)
  \/ Wait(c) \/ Import(c)

RunnerStep(b) ==
  \/ Claim(b) \/ Reject(b) \/ ReadChunk(b) \/ Execute(b)
  \/ \E d \in {"applied", "failed", "interrupted"} : Finish(b, d)

Cleanup == \/ ListCandidates \/ DeletePayload \/ DeleteFile
           \/ \E item \in Items \ {PayloadItem} : Delete(item)

Next ==
  \/ \E c \in Calls : Begin(c) \/ ProposalStep(c) \/ ImportStep(c) \/ DeadlinePasses(c) \/ ImportDies(c)
  \/ \E b \in Calls : RunnerStep(b)
  \/ ServerStages \/ ServerDies \/ TokensExpire \/ EditTree \/ Cleanup

Spec == Init /\ [][Next]_vars
------------------------------------------------------------------------------
TypeOK ==
  /\ PayloadTypeOK
  /\ ask \in Scripts
  /\ pc \in [Calls -> Labels]
  /\ busy \in Calls \cup {NoCall}
  /\ late \in [Calls -> BOOLEAN]
  /\ moved \in [Calls -> BOOLEAN]
  /\ target \in [Calls -> Calls \cup {NoCall}]
  /\ journal \in [Calls -> {"none", "started", "completed", "failed", "deleted"}]
  /\ pin \in [Calls -> Patches]
  /\ where \in [Calls -> Active \cup Final \cup {"none", "deleted"}]
  /\ got \in [Calls -> Patches]
  /\ ran \in [Calls -> Patches]
  /\ imports \in [Requests -> Calls \cup {NoCall}]
  /\ expired \in BOOLEAN
  /\ tree \in Trees
  /\ edits \in 0..MaxEdits
  /\ cleaning \subseteq Items
  /\ cleanups \in 0..MaxCleanups
  /\ excused \subseteq Asks

(* A patch that is executed is the patch that was proposed, chunk by       *)
(* chunk, whatever was removed from the payload or staged again under its  *)
(* name before and while the runner reads it                               *)
(* (command_bundle_runner.py:707 "patch_sha256 does not match patch        *)
(* content").                                                              *)
PatchAsProposed == \A b \in Calls : HasPayload(b) => ran[b] \in {NoPatch, pin[b]}

(* What a client asks for runs once, however often it asks and whatever    *)
(* dies: a repeated proposal and a repeated import are answered with the   *)
(* bundle of the first (docs/en/workflow.md:84).  The exceptions: the      *)
(* record of a finished bundle, or the import record of an intent, was     *)
(* cleaned up; a search missed a bundle that moved; two imports of an      *)
(* intent overlapped, or one died before its record was written.           *)
RunsOnce ==
  \A b1, b2 \in Calls :
    /\ b1 # b2 /\ ask[b1] = ask[b2] /\ pin[b1] = pin[b2]
    /\ ran[b1] # NoPatch /\ ran[b2] # NoPatch
    => \/ ask[b1] \in excused
       \/ \E b \in Calls : ask[b] = ask[b1] /\ where[b] = "deleted"

(* A client whose bundle is stored gets an answer, from this call or from  *)
(* the next.  A call that knows its bundle raises only when the bundle     *)
(* moved during the last search or was cleaned up, when the journal record *)
(* of the call was, or when one of its own file operations failed.  And    *)
(* whoever repeats a proposal, whether it was answered, failed half-way or *)
(* died with the server, is told of the bundle that was stored for it      *)
(* (docs/en/workflow.md:84), but for the exceptions of RunsOnce.           *)
LostAnswersFoundAgain ==
  /\ \A c \in Calls : pc[c] = "raised" /\ target[c] # NoCall /\ ~IsIntent(c) =>
       moved[c] \/ where[target[c]] = "deleted" \/ journal[c] = "deleted"
  /\ \A c, d \in Calls :
       /\ ask[c] = ask[d] /\ pin[c] = pin[d] /\ ask[c].tool \in Proposals
       /\ target[c] # NoCall /\ target[d] # NoCall
       => \/ target[c] = target[d]
          \/ ask[c] \in excused
          \/ \E b \in Calls : ask[b] = ask[c] /\ where[b] = "deleted"
==============================================================================
