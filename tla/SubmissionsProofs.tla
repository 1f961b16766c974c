-------------------------- MODULE SubmissionsProofs --------------------------
(***************************************************************************)
(* For any number of calls, scripts and chunks, however often the server   *)
(* dies and somebody cleans up: every variable of Submissions stays in its *)
(* type; a payload that says it is complete is whole; a patch that runs is *)
(* the patch that was proposed; what a client asks for runs once, but for  *)
(* the exceptions RunsOnce names; and a client is answered, or told of the *)
(* stored bundle when it asks again, as LostAnswersFoundAgain says.        *)
(***************************************************************************)
EXTENDS Submissions, TLAPS

------------------------------------------------------------------------------
(* The types of the payload *)

LEMMA InitPayloadTypes == PayloadInit => PayloadTypeOK
<1>1. 0 \in Chunks /\ 0 \in 0..MaxStages /\ 0 \in 0..MaxStops
  BY ChunksAssumption DEF Chunks
<1>2. NotStaging \in Stagings
  BY <1>1 DEF NotStaging, Stagings
<1>3. [i \in Chunks |-> Gone] \in [Chunks -> Texts \cup {Gone}]
  OBVIOUS
<1> QED BY <1>1, <1>2, <1>3 DEF PayloadInit, PayloadTypeOK

LEMMA StagingTypes ==
  ASSUME PayloadTypeOK,
         \/ \E i \in Chunks : \E t \in Offers[i] : StageChunk(i, t)
         \/ StagingStep \/ StopStaging
  PROVE  PayloadTypeOK'
<1>1. 0 \in Chunks /\ MaxStages \in Nat /\ MaxStops \in Nat
  BY ChunksAssumption DEF Chunks
<1>2. NotStaging \in Stagings
  BY <1>1 DEF NotStaging, Stagings
<1>3. staging \in Stagings /\ staging.index \in Chunks /\ staging.text \in Texts \cup {Gone}
      /\ staging.complete \in BOOLEAN
  BY DEF PayloadTypeOK, Stagings
<1>4. ASSUME NEW label \in {"idle", "look", "write", "count", "save"}, GoOn(label)
      PROVE  staging' \in Stagings
  BY <1>3, <1>4 DEF GoOn, Stagings
<1>5. ASSUME NEW i \in Chunks, NEW t \in Offers[i], StageChunk(i, t)
      PROVE  PayloadTypeOK'
  <2>1. t \in Texts
    BY DEF Texts
  <2> QED BY <1>1, <1>5, <2>1 DEF StageChunk, PayloadTypeOK, Stagings
<1>6. CASE KeepChunk \/ RefuseChunk
  BY <1>2, <1>4, <1>6 DEF KeepChunk, RefuseChunk, PayloadTypeOK
<1>7. CASE CreateChunk
  BY <1>3, <1>4, <1>7 DEF CreateChunk, PutChunk, PayloadTypeOK
<1>8. CASE FillChunk
  BY <1>3, <1>4, <1>8 DEF FillChunk, PutChunk, PayloadTypeOK
<1>9. CASE CountChunks
  <2>1. staging' \in Stagings
    BY <1>3, <1>9 DEF CountChunks, Stagings
  <2> QED BY <1>9, <2>1 DEF CountChunks, PayloadTypeOK
<1>10. CASE SaveManifest
  BY <1>2, <1>3, <1>10 DEF SaveManifest, PayloadTypeOK
<1>11. CASE StopStaging
  BY <1>1, <1>2, <1>11 DEF StopStaging, Stops, CutShort, PayloadTypeOK
<1> QED BY <1>5, <1>6, <1>7, <1>8, <1>9, <1>10, <1>11 DEF StagingStep

LEMMA CutShortTypes ==
  ASSUME PayloadTypeOK, Stops, CutShort
  PROVE  PayloadTypeOK'
<1>1. NotStaging \in Stagings
  BY ChunksAssumption DEF NotStaging, Stagings, Chunks
<1> QED BY <1>1, ChunksAssumption DEF Stops, CutShort, PayloadTypeOK

LEMMA RemovalTypes ==
  ASSUME PayloadTypeOK,
         \/ \E f \in doomed : RemoveFile(f)
         \/ /\ ListFiles /\ spoiled' = TRUE
            /\ UNCHANGED <<chunk, manifest, staging, stages, stops, acked>>
  PROVE  PayloadTypeOK'
<1>1. CASE \E f \in doomed : RemoveFile(f)
  BY <1>1 DEF RemoveFile, PayloadTypeOK
<1>2. CASE ListFiles /\ spoiled' = TRUE
           /\ UNCHANGED <<chunk, manifest, staging, stages, stops, acked>>
  BY <1>2 DEF ListFiles, PayloadTypeOK, Files, ManifestFile
<1> QED BY <1>1, <1>2

LEMMA PayloadUnchanged == PayloadTypeOK /\ UNCHANGED payloadVars => PayloadTypeOK'
BY DEF payloadVars, PayloadTypeOK
------------------------------------------------------------------------------
(* The types of the calls and the bundles *)

CallTypes ==
  /\ ask \in Scripts
  /\ pc \in [Calls -> Labels]
  /\ busy \in Calls \cup {NoCall}
  /\ late \in [Calls -> BOOLEAN]
  /\ moved \in [Calls -> BOOLEAN]
  /\ target \in [Calls -> Calls \cup {NoCall}]
  /\ journal \in [Calls -> {"none", "started", "completed", "failed", "deleted"}]
  /\ pin \in [Calls -> Patches]
  /\ DOMAIN key = Calls
  /\ excused \subseteq Asks
BundleTypes ==
  /\ where \in [Calls -> Active \cup Final \cup {"none", "deleted"}]
  /\ got \in [Calls -> Patches]
  /\ ran \in [Calls -> Patches]
IntentTypes ==
  /\ imports \in [Requests -> Calls \cup {NoCall}]
  /\ expired \in BOOLEAN
  /\ tree \in Trees
  /\ edits \in 0..MaxEdits
  /\ cleaning \subseteq Items
  /\ cleanups \in 0..MaxCleanups
TypeInv == PayloadTypeOK /\ CallTypes /\ BundleTypes /\ IntentTypes

LEMMA TypeInvSuffices == TypeInv => TypeOK
BY DEF TypeInv, CallTypes, BundleTypes, IntentTypes, TypeOK

LEMMA AskTypes ==
  ASSUME TypeInv, NEW c \in Calls
  PROVE  ask[c] \in Asks /\ ask[c].tool \in Tools /\ Token(c) \in Requests
BY ScriptsAssumption DEF TypeInv, CallTypes, Asks, Token

LEMMA SomePatches == NoPatch \in Patches /\ Inline \in Patches
BY DEF NoPatch, Inline, Patches

LEMMA InitTypeInv == Init => TypeInv
<1> SUFFICES ASSUME Init PROVE TypeInv
  OBVIOUS
<1>1. PayloadTypeOK
  BY InitPayloadTypes DEF Init
<1>2. CallTypes
  BY SomePatches DEF Init, CallTypes, Labels
<1>3. BundleTypes
  BY SomePatches DEF Init, BundleTypes
<1>4. IntentTypes
  <2>1. 0 \in 0..MaxEdits /\ 0 \in 0..MaxCleanups /\ CleanTree \in Trees
    BY TreesAssumption
  <2>2. [t \in Requests |-> NoCall] \in [Requests -> Calls \cup {NoCall}]
    OBVIOUS
  <2> QED BY <2>1, <2>2 DEF Init, IntentTypes
<1> QED BY <1>1, <1>2, <1>3, <1>4 DEF TypeInv

LEMMA BeginTypes ==
  ASSUME TypeInv, NEW c \in Calls, Begin(c)
  PROVE  TypeInv'
<1> USE DEF TypeInv
<1>1. ASSUME NEW k, NEW p \in Patches, LookUp(c, k, p)
      PROVE  /\ pin' \in [Calls -> Patches] /\ DOMAIN key' = Calls
             /\ moved' \in [Calls -> BOOLEAN] /\ pc' \in [Calls -> Labels]
  BY <1>1 DEF LookUp, Goto, CallTypes, Labels
<1>2. Arrive(c) => busy' \in Calls \cup {NoCall}
                   /\ journal' \in [Calls -> {"none", "started", "completed", "failed", "deleted"}]
  BY DEF Arrive, CallTypes
<1>3. ASSUME NEW tool, NEW k, Propose(c, tool, k)
      PROVE  TypeInv'
  <2>1. PayloadTypeOK'
    BY <1>3, PayloadUnchanged DEF Propose
  <2>2. CallTypes'
    BY <1>1, <1>2, <1>3, SomePatches DEF Propose, CallTypes
  <2>3. BundleTypes' /\ IntentTypes'
    BY <1>3 DEF Propose, BundleTypes, IntentTypes, bundleVars, intentVars, cleanVars
  <2> QED BY <2>1, <2>2, <2>3
<1>4. CASE ProposePatch(c)
  <2>1. PayloadTypeOK' /\ chunk \in Patches
    BY <1>4, PayloadUnchanged DEF ProposePatch, PayloadTypeOK, Patches
  <2>2. CallTypes'
    BY <1>1, <1>2, <1>4, <2>1 DEF ProposePatch, CallTypes
  <2>3. BundleTypes' /\ IntentTypes'
    BY <1>4 DEF ProposePatch, BundleTypes, IntentTypes, bundleVars, intentVars, cleanVars
  <2> QED BY <2>1, <2>2, <2>3
<1>5. CASE RefuseProposal(c) \/ RefusePush(c)
  <2>1. PayloadTypeOK'
    BY <1>5, PayloadUnchanged DEF RefuseProposal, RefusePush
  <2>2. CallTypes'
    BY <1>5 DEF RefuseProposal, RefusePush, Raises, Goto, CallTypes, Labels, Ended
  <2>3. BundleTypes' /\ IntentTypes'
    BY <1>5 DEF RefuseProposal, RefusePush, BundleTypes, IntentTypes, bundleVars, intentVars,
                cleanVars
  <2> QED BY <2>1, <2>2, <2>3
<1>6. CASE Wait(c)
  <2>1. PayloadTypeOK'
    BY <1>6, PayloadUnchanged DEF Wait
  <2>2. CallTypes'
    BY <1>2, <1>6 DEF Wait, Known, Goto, CallTypes, Labels
  <2>3. BundleTypes' /\ IntentTypes'
    BY <1>6 DEF Wait, BundleTypes, IntentTypes, bundleVars, intentVars, cleanVars
  <2> QED BY <2>1, <2>2, <2>3
<1>7. CASE Import(c)
  <2>1. PayloadTypeOK'
    BY <1>7, PayloadUnchanged DEF Import
  <2>2. CallTypes'
    <3>1. UNCHANGED <<ask, busy, late, journal, key, pin>> BY <1>7 DEF Import
    <3>2. pc' \in [Calls -> Labels]
      <4>1. Goto(c, "raised") \/ Goto(c, "approving") \/ Goto(c, "importFinding")
        BY <1>7 DEF Import
      <4> QED BY <4>1 DEF Goto, CallTypes, Labels, Ended
    <3>3. imports[Token(c)] \in Calls \cup {NoCall} BY AskTypes DEF IntentTypes
    <3>4. target' \in [Calls -> Calls \cup {NoCall}] /\ moved' \in [Calls -> BOOLEAN]
      BY <1>7, <3>3 DEF Import, CallTypes
    <3>5. excused' \subseteq Asks BY <1>7, AskTypes DEF Import, CallTypes
    <3> QED BY <3>1, <3>2, <3>4, <3>5 DEF CallTypes
  <2>3. BundleTypes' /\ IntentTypes'
    BY <1>7 DEF Import, BundleTypes, IntentTypes, bundleVars, intentVars, cleanVars
  <2> QED BY <2>1, <2>2, <2>3
<1> QED
  BY <1>3, <1>4, <1>5, <1>6, <1>7
  DEF Begin, ProposeCommand, ProposeFileWrite, ProposeFileReplace, ProposeCommit, ProposePush

LEMMA CallStepTypes ==
  ASSUME TypeInv, NEW c \in Calls,
         ProposalStep(c) \/ ImportStep(c) \/ DeadlinePasses(c) \/ ImportDies(c)
  PROVE  TypeInv'
<1> USE DEF TypeInv
<1>1. CASE StageExisting(c)
  <2>1. PayloadTypeOK'
    BY <1>1, PayloadUnchanged DEF StageExisting
  <2>2. CallTypes'
    BY <1>1 DEF StageExisting, StageReturns, SameRequest, Goto, CallTypes, Labels
  <2>3. BundleTypes' /\ IntentTypes'
    BY <1>1 DEF StageExisting, BundleTypes, IntentTypes, bundleVars, intentVars, cleanVars
  <2> QED BY <2>1, <2>2, <2>3
<1>2. CASE StageNew(c)
  <2>1. PayloadTypeOK'
    BY <1>2, PayloadUnchanged DEF StageNew
  <2>2. CallTypes'
    BY <1>2, AskTypes DEF StageNew, StageReturns, Goto, CallTypes, Labels
  <2>3. BundleTypes' /\ IntentTypes'
    BY <1>2 DEF StageNew, BundleTypes, IntentTypes, bundleVars, intentVars, cleanVars, Active
  <2> QED BY <2>1, <2>2, <2>3
<1>3. CASE Find(c) \/ Miss(c)
  <2>1. PayloadTypeOK'
    BY <1>3, PayloadUnchanged DEF Find, Miss
  <2>2. ASSUME Find(c)
        PROVE  CallTypes'
    <3>1. Answers(c) \/ (Goto(c, "sleeping") /\ busy' = NoCall /\ UNCHANGED journal)
      BY <2>2 DEF Find
    <3>2. /\ pc' \in [Calls -> Labels] /\ busy' \in Calls \cup {NoCall}
          /\ journal' \in [Calls -> {"none", "started", "completed", "failed", "deleted"}]
      BY <3>1 DEF Answers, Goto, CallTypes, Labels, Ended
    <3> QED BY <2>2, <3>2 DEF Find, CallTypes
  <2>3. ASSUME Miss(c)
        PROVE  CallTypes'
    BY <2>3 DEF Miss, Raises, Goto, CallTypes, Labels, Ended
  <2>4. BundleTypes' /\ IntentTypes'
    BY <1>3 DEF Find, Miss, BundleTypes, IntentTypes, bundleVars, intentVars, cleanVars
  <2> QED BY <1>3, <2>1, <2>2, <2>3, <2>4
<1>4. CASE Wake(c) \/ DeadlinePasses(c)
  <2>1. PayloadTypeOK'
    BY <1>4, PayloadUnchanged DEF Wake, DeadlinePasses
  <2>2. CallTypes'
    BY <1>4 DEF Wake, DeadlinePasses, Goto, CallTypes, Labels
  <2>3. BundleTypes' /\ IntentTypes'
    BY <1>4 DEF Wake, DeadlinePasses, BundleTypes, IntentTypes, bundleVars, intentVars, cleanVars
  <2> QED BY <2>1, <2>2, <2>3
<1>5. CASE ImportFinds(c) \/ NothingToCommit(c) \/ ImportMisses(c)
  <2>1. PayloadTypeOK'
    BY <1>5, PayloadUnchanged DEF ImportFinds, NothingToCommit, ImportMisses
  <2>2. CallTypes'
    BY <1>5, AskTypes DEF ImportFinds, NothingToCommit, ImportMisses, Goto, CallTypes, Labels, Ended
  <2>3. BundleTypes' /\ IntentTypes'
    BY <1>5 DEF ImportFinds, NothingToCommit, ImportMisses, BundleTypes, IntentTypes, bundleVars,
                intentVars, cleanVars
  <2> QED BY <2>1, <2>2, <2>3
<1>6. CASE Approve(c)
  <2>1. PayloadTypeOK'
    BY <1>6, PayloadUnchanged DEF Approve
  <2>2. CallTypes'
    <3>1. PICK k : LookUp(c, k, Inline) BY <1>6 DEF Approve
    <3>2. UNCHANGED <<ask, busy, late, target, journal, excused>> BY <1>6 DEF Approve
    <3>3. pc' \in [Calls -> Labels] BY <3>1 DEF LookUp, Goto, CallTypes, Labels
    <3>4. /\ moved' \in [Calls -> BOOLEAN] /\ pin' \in [Calls -> Patches]
          /\ DOMAIN key' = Calls
      BY <3>1, SomePatches DEF LookUp, CallTypes
    <3> QED BY <3>2, <3>3, <3>4 DEF CallTypes
  <2>3. BundleTypes' /\ IntentTypes'
    BY <1>6 DEF Approve, BundleTypes, IntentTypes, bundleVars, intentVars, cleanVars
  <2> QED BY <2>1, <2>2, <2>3
<1>7. CASE RecordImport(c)
  <2>1. PayloadTypeOK'
    BY <1>7, PayloadUnchanged DEF RecordImport
  <2>2. CallTypes'
    BY <1>7 DEF RecordImport, Goto, CallTypes, Labels, Ended
  <2>3. BundleTypes'
    BY <1>7 DEF RecordImport, BundleTypes, bundleVars
  <2>4. IntentTypes'
    BY <1>7, AskTypes DEF RecordImport, CallTypes, IntentTypes, cleanVars
  <2> QED BY <2>1, <2>2, <2>3, <2>4
<1>8. CASE ImportDies(c)
  <2>1. PayloadTypeOK'
    BY <1>8, ChunksAssumption DEF ImportDies, Stops, PayloadTypeOK
  <2>2. CallTypes'
    BY <1>8, AskTypes DEF ImportDies, Goto, CallTypes, Labels, Ended
  <2>3. BundleTypes' /\ IntentTypes'
    BY <1>8 DEF ImportDies, BundleTypes, IntentTypes, bundleVars, intentVars, cleanVars
  <2> QED BY <2>1, <2>2, <2>3
<1>9. CASE CallFails(c)
  <2>1. PayloadTypeOK'
    BY <1>9, ChunksAssumption DEF CallFails, Stops, PayloadTypeOK
  <2>2. CallTypes'
    BY <1>9 DEF CallFails, Goto, CallTypes, Labels, Ended
  <2>3. BundleTypes' /\ IntentTypes'
    BY <1>9 DEF CallFails, BundleTypes, IntentTypes, bundleVars, intentVars, cleanVars
  <2> QED BY <2>1, <2>2, <2>3
<1> QED
  BY <1>1, <1>2, <1>3, <1>4, <1>5, <1>6, <1>7, <1>8, <1>9 DEF ProposalStep, ImportStep

LEMMA RunnerTypes ==
  ASSUME TypeInv, NEW b \in Calls, RunnerStep(b)
  PROVE  TypeInv'
<1> USE DEF TypeInv
<1>1. PayloadTypeOK'
  BY PayloadUnchanged
  DEF RunnerStep, Claim, Reject, ReadChunk, Execute, Finish, Others
<1>2. moved' \in [Calls -> BOOLEAN]
  BY DEF RunnerStep, Claim, Reject, ReadChunk, Execute, Finish, Moves, CallTypes
<1>3. CallTypes' /\ IntentTypes'
  BY <1>2 DEF RunnerStep, Claim, Reject, ReadChunk, Execute, Finish, Others, CallTypes, IntentTypes,
              intentVars, cleanVars
<1>4. CASE Claim(b) \/ Reject(b) \/ \E d \in {"applied", "failed", "interrupted"} : Finish(b, d)
  <2>1. BundleTypes'
    BY <1>4 DEF Claim, Reject, Finish, Moves, BundleTypes, Active, Final
  <2> QED BY <1>1, <1>3, <2>1
<1>5. CASE ReadChunk(b)
  <2>1. Unread(b) \subseteq Chunks /\ Unread(b) # {}
    BY <1>5 DEF ReadChunk, Unread
  <2>2. got' \in [Calls -> Patches]
    BY <1>5 DEF ReadChunk, BundleTypes, PayloadTypeOK, Patches
  <2> QED BY <1>1, <1>3, <1>5, <2>2 DEF ReadChunk, BundleTypes
<1>6. CASE Execute(b)
  <2>1. BundleTypes'
    BY <1>6, SomePatches DEF Execute, BundleTypes
  <2> QED BY <1>1, <1>3, <2>1
<1> QED BY <1>4, <1>5, <1>6 DEF RunnerStep

LEMMA OtherTypes ==
  ASSUME TypeInv,
         ServerStages \/ ServerDies \/ TokensExpire \/ EditTree \/ Cleanup \/ UNCHANGED vars
  PROVE  TypeInv'
<1> USE DEF TypeInv
<1>1. CASE ServerStages
  <2>1. PayloadTypeOK'
    BY <1>1, StagingTypes DEF ServerStages
  <2> QED BY <1>1, <2>1 DEF ServerStages, callVars, bundleVars, intentVars, cleanVars,
                            CallTypes, BundleTypes, IntentTypes
<1>2. CASE ServerDies
  <2>1. PayloadTypeOK'
    BY <1>2, CutShortTypes DEF ServerDies
  <2> QED BY <1>2, <2>1 DEF ServerDies, bundleVars, intentVars, cleanVars,
                            CallTypes, BundleTypes, IntentTypes, Labels, Ended
<1>3. CASE TokensExpire \/ EditTree
  <2>1. PayloadTypeOK'
    BY <1>3, PayloadUnchanged DEF TokensExpire, EditTree
  <2>2. edits' \in 0..MaxEdits
    BY <1>3, TreesAssumption DEF TokensExpire, EditTree, IntentTypes
  <2> QED BY <1>3, <2>1, <2>2 DEF TokensExpire, EditTree, callVars, bundleVars, cleanVars,
                                  CallTypes, BundleTypes, IntentTypes
<1>4. CASE Cleanup
  <2>1. CASE ListCandidates
    <3>1. PayloadTypeOK'
      BY <2>1, PayloadUnchanged DEF ListCandidates
    <3>2. cleanups' \in 0..MaxCleanups
      BY <2>1, TreesAssumption DEF ListCandidates, IntentTypes
    <3>3. cleaning' \subseteq Items
      BY <2>1 DEF ListCandidates, ByPolicy, AllHistory, Items, Payload, OldBundles, CallRecords,
                  ImportRecords
    <3> QED BY <2>1, <3>1, <3>2, <3>3 DEF ListCandidates, callVars, bundleVars, intentVars,
                                          CallTypes, BundleTypes, IntentTypes
  <2>2. CASE DeletePayload
    <3>1. PayloadTypeOK'
      BY <2>2, RemovalTypes DEF DeletePayload
    <3> QED BY <2>2, <3>1 DEF DeletePayload, callVars, bundleVars, intentVars,
                              CallTypes, BundleTypes, IntentTypes
  <2>3. CASE DeleteFile
    <3>1. PayloadTypeOK'
      BY <2>3, RemovalTypes DEF DeleteFile
    <3> QED BY <2>3, <3>1 DEF DeleteFile, callVars, bundleVars, intentVars, cleanVars,
                              CallTypes, BundleTypes, IntentTypes
  <2>4. ASSUME NEW item \in Items \ {PayloadItem}, Delete(item)
        PROVE  TypeInv'
    <3>1. PayloadTypeOK'
      BY <2>4, PayloadUnchanged DEF Delete
    <3>2. CallTypes'
      BY <2>4 DEF Delete, CallTypes
    <3>3. BundleTypes' /\ IntentTypes'
      BY <2>4 DEF Delete, BundleTypes, IntentTypes
    <3> QED BY <3>1, <3>2, <3>3
  <2> QED BY <1>4, <2>1, <2>2, <2>3, <2>4 DEF Cleanup
<1>5. CASE UNCHANGED vars
  BY <1>5, PayloadUnchanged DEF vars, callVars, bundleVars, intentVars, cleanVars,
                                CallTypes, BundleTypes, IntentTypes
<1> QED BY <1>1, <1>2, <1>3, <1>4, <1>5

LEMMA NextTypeInv == TypeInv /\ [Next]_vars => TypeInv'
BY BeginTypes, CallStepTypes, RunnerTypes, OtherTypes DEF Next

(* TypeOK, with the domain of the keys. *)
THEOREM TypeCorrect == Spec => []TypeInv
<1> QED BY InitTypeInv, NextTypeInv, PTL DEF Spec

(* The type invariant TLC checks. *)
THEOREM TypesCorrect == Spec => []TypeOK
<1> QED BY TypeCorrect, TypeInvSuffices, PTL
------------------------------------------------------------------------------
(* The payload *)

(* Unless something was cleaned up or cut short: only the chunk that is    *)
(* being written is empty, what has been written stays, and the chunks     *)
(* were all there when they were counted, so that none is created after.   *)
EmptyOnlyInWrite ==
  \A i \in Chunks : chunk[i] = Empty => StagingAt("write") /\ staging.index = i
WrittenStays ==
  /\ staging.at # "idle" => staging.text \in Texts
  /\ StagingAt("write") => Here = Empty
  /\ staging.at \in {"count", "save"} => Here = staging.text
  /\ \A i \in Chunks : acked[i] \in {Gone, chunk[i]}
AllThere ==
  /\ manifest = "complete" \/ (StagingAt("save") /\ staging.complete)
       => \A i \in Chunks : chunk[i] # Gone
  /\ StagingAt("write") => manifest # "complete"
WholeInv == spoiled \/ (EmptyOnlyInWrite /\ WrittenStays /\ AllThere)

(* What a step does to the payload. *)
PayloadStep ==
  \/ UNCHANGED <<chunk, manifest, staging, acked, spoiled>>
  \/ \E i \in Chunks : \E t \in Offers[i] : StageChunk(i, t)
  \/ StagingStep
  \/ CutShort
  \/ \E f \in Files : RemoveFile(f)
  \/ spoiled'

LEMMA StepsOfThePayload ==
  ASSUME TypeInv, [Next]_vars
  PROVE  PayloadStep
<1>1. CASE UNCHANGED vars
  BY <1>1 DEF vars, payloadVars, PayloadStep
<1>2. ASSUME NEW c \in Calls, Begin(c)
      PROVE  PayloadStep
  BY <1>2 DEF Begin, ProposeCommand, ProposeFileWrite, ProposeFileReplace, ProposePatch,
              ProposeCommit, ProposePush, Propose, RefuseProposal, RefusePush, Wait, Import,
              payloadVars, PayloadStep
<1>3. ASSUME NEW c \in Calls, ProposalStep(c) \/ ImportStep(c) \/ DeadlinePasses(c) \/ ImportDies(c)
      PROVE  PayloadStep
  BY <1>3 DEF ProposalStep, ImportStep, DeadlinePasses, ImportDies, StageExisting, StageNew, Find,
              Miss, Wake, CallFails, ImportFinds, ImportMisses, Approve, NothingToCommit, RecordImport,
              payloadVars, PayloadStep
<1>4. ASSUME NEW b \in Calls, RunnerStep(b)
      PROVE  PayloadStep
  BY <1>4 DEF RunnerStep, Claim, Reject, ReadChunk, Execute, Finish, Others, payloadVars, PayloadStep
<1>5. CASE ServerStages \/ ServerDies \/ TokensExpire \/ EditTree
  BY <1>5 DEF ServerStages, ServerDies, TokensExpire, EditTree, StopStaging, payloadVars, PayloadStep
<1>6. CASE ListCandidates \/ DeletePayload \/ DeleteFile
  BY <1>6 DEF ListCandidates, DeletePayload, DeleteFile, payloadVars, PayloadStep, TypeInv,
              PayloadTypeOK
<1>7. ASSUME NEW item \in Items \ {PayloadItem}, Delete(item)
      PROVE  PayloadStep
  BY <1>7 DEF Delete, payloadVars, PayloadStep
<1> QED BY <1>1, <1>2, <1>3, <1>4, <1>5, <1>6, <1>7 DEF Next, Cleanup

LEMMA InitWholeInv == Init => WholeInv
BY DEF Init, PayloadInit, NotStaging, WholeInv, EmptyOnlyInWrite, WrittenStays, AllThere, StagingAt,
       Gone, Empty

LEMMA PayloadStepKeepsWhole ==
  ASSUME TypeInv, WholeInv, PayloadStep
  PROVE  WholeInv'
<1> USE DEF StagingAt, Here
<1>1. /\ chunk \in [Chunks -> Texts \cup {Gone, Empty}] /\ acked \in [Chunks -> Texts \cup {Gone}]
      /\ staging.index \in Chunks /\ staging \in Stagings
      /\ Gone \notin Texts /\ Empty \notin Texts /\ Gone # Empty
  BY OffersAssumption DEF TypeInv, PayloadTypeOK, Stagings, Gone, Empty
<1>2. CASE UNCHANGED <<chunk, manifest, staging, acked, spoiled>>
  BY <1>2 DEF WholeInv, EmptyOnlyInWrite, WrittenStays, AllThere
<1>3. ASSUME NEW i \in Chunks, NEW t \in Offers[i], StageChunk(i, t)
      PROVE  WholeInv'
  <2>1. t \in Texts
    BY DEF Texts
  <2> QED BY <1>3, <2>1 DEF StageChunk, WholeInv, EmptyOnlyInWrite, WrittenStays, AllThere
<1>4. CASE KeepChunk
  BY <1>1, <1>4 DEF KeepChunk, GoOn, Stagings, WholeInv, EmptyOnlyInWrite, WrittenStays, AllThere
<1>5. CASE RefuseChunk
  BY <1>1, <1>5 DEF RefuseChunk, NotStaging, WholeInv, EmptyOnlyInWrite, WrittenStays, AllThere
<1>6. CASE CreateChunk
  BY <1>1, <1>6 DEF CreateChunk, PutChunk, GoOn, Stagings, WholeInv, EmptyOnlyInWrite, WrittenStays,
                    AllThere
<1>7. CASE FillChunk
  BY <1>1, <1>7 DEF FillChunk, PutChunk, GoOn, Stagings, WholeInv, EmptyOnlyInWrite, WrittenStays,
                    AllThere
<1>8. CASE CountChunks
  BY <1>1, <1>8 DEF CountChunks, Stagings, WholeInv, EmptyOnlyInWrite, WrittenStays, AllThere
<1>9. CASE SaveManifest
  BY <1>1, <1>9 DEF SaveManifest, NotStaging, WholeInv, EmptyOnlyInWrite, WrittenStays, AllThere
<1>10. ASSUME NEW f \in Files, RemoveFile(f)
       PROVE  WholeInv'
  BY <1>1, <1>10 DEF RemoveFile, WholeInv, EmptyOnlyInWrite, WrittenStays, AllThere
<1>11. CASE spoiled'
  BY <1>11 DEF WholeInv
<1>12. CASE CutShort
  <2>1. spoiled \/ StagingAt("write") => spoiled'
    BY <1>12 DEF CutShort
  <2>2. ASSUME ~spoiled, ~StagingAt("write")
        PROVE  (EmptyOnlyInWrite /\ WrittenStays /\ AllThere)'
    BY <1>1, <1>12, <2>2 DEF CutShort, NotStaging, WholeInv, EmptyOnlyInWrite, WrittenStays, AllThere
  <2> QED BY <2>1, <2>2 DEF WholeInv
<1> QED BY <1>2, <1>3, <1>4, <1>5, <1>6, <1>7, <1>8, <1>9, <1>10, <1>11, <1>12
       DEF PayloadStep, StagingStep

(* A manifest that says "complete" stands for a whole payload, whatever    *)
(* calls stage its chunks, in whatever order and however often, as long as *)
(* none was cut short in a write and nothing was cleaned up.               *)
THEOREM CompleteIsWhole == Spec => []CompleteMeansWhole
<1>1. TypeInv /\ WholeInv => CompleteMeansWhole
  BY DEF TypeInv, PayloadTypeOK, WholeInv, EmptyOnlyInWrite, WrittenStays, AllThere,
         CompleteMeansWhole, StagingAt, Here
<1>2. TypeInv /\ WholeInv /\ [Next]_vars => WholeInv'
  BY StepsOfThePayload, PayloadStepKeepsWhole
<1> QED BY <1>1, <1>2, InitWholeInv, TypeCorrect, PTL DEF Spec

------------------------------------------------------------------------------
(* What runs, and who is answered *)

Staged(c) == where[c] # "none"
Forgotten(a) == a \in excused \/ \E b \in Calls : ask[b] = a /\ where[b] = "deleted"

(* Labels from which a call no longer looks for or imports anything. *)
Quiet == {"finding", "sleeping", "done", "raised", "failed", "dead"}

(* The request key of a proposal is that of what it asks and of its patch. *)
ProposalKey(a, p) ==
  IF a.tool \in {"command", "push"} THEN CommandKey(a)
  ELSE IF a.tool = "patch" THEN PatchKey(a, p)
  ELSE IF a.tool = "commit" THEN CommitKey(a)
  ELSE ActionKey(a)

(* Only proposals and intents stage, and only intents import. *)
LabelInv ==
  \A c \in Calls :
    /\ pc[c] \in {"importFinding", "approving", "recording"} => IsIntent(c)
    /\ pc[c] = "looking" \/ Staged(c) => ask[c].tool \in Proposals \cup Intents

(* A bundle is staged by the last step that touches its key and its patch, *)
(* and runs only then.                                                     *)
FreshInv ==
  \A c \in Calls :
    /\ pc[c] \in {"new", "importFinding", "approving", "looking"} => ~Staged(c)
    /\ ~Staged(c) => ran[c] = NoPatch

(* What is executed is what the step says. *)
PatchInv == \A b \in Calls : HasPayload(b) => ran[b] \in {NoPatch, pin[b]}

(* An intent has the key its title gives it, or that of the changes it     *)
(* finds; only a patch is known by a text.                                 *)
KeyFits(a, k, p) ==
  IF a.tool \in Intents
  THEN k = CommandKey(a) \/ \E message, paths : k = ChangesKey(message, paths)
  ELSE k = ProposalKey(a, p) /\ (a.tool = "patch" \/ p = Inline)
KeyInv ==
  \A c \in Calls : pc[c] = "looking" \/ Staged(c) => KeyFits(ask[c], key[c], pin[c])

ProposalsOnce ==
  \A b1, b2 \in Calls :
    /\ b1 # b2 /\ ask[b1] = ask[b2] /\ pin[b1] = pin[b2]
    /\ ask[b1].tool \in Proposals
    /\ Staged(b1) /\ Staged(b2)
    => Forgotten(ask[b1])

(* The import that has staged a bundle records that bundle. *)
StageInv ==
  \A c \in Calls : IsIntent(c) /\ Staged(c) /\ pc[c] = "recording" => target[c] = c

(* The imports of an intent nothing has been forgotten of: they do not     *)
(* overlap, and once one of them has staged its bundle, the import record  *)
(* names it, or will, and nobody else is about to stage another.           *)
Alone(c, d) == ~(pc[c] \in {"importFinding", "approving", "looking", "recording"}
                 /\ pc[d] \in {"importFinding", "approving", "looking", "recording"})
Recorded(b) == imports[Token(b)] = b \/ (pc[b] = "recording" /\ target[b] = b)
Follows(d, b) ==
  /\ ~Staged(d)
  /\ pc[d] \notin {"approving", "looking", "recording"}
  /\ pc[d] = "importFinding" => target[d] = b
IntentsOnce ==
  \A c, d \in Calls :
    /\ c # d /\ IsIntent(c) /\ ask[c] = ask[d] /\ ~Forgotten(ask[c])
    => /\ Alone(c, d)
       /\ Staged(c) => Recorded(c) /\ Follows(d, c)

(* A cleanup has only listed bundles that have ended. *)
BundleItem(b) == [kind |-> "bundle", of |-> b]
CleanInv == \A b \in Calls : BundleItem(b) \in cleaning => where[b] \notin Active \cup {"none"}

OnceInv == /\ LabelInv /\ FreshInv /\ PatchInv /\ KeyInv /\ ProposalsOnce
           /\ StageInv /\ IntentsOnce /\ CleanInv

------------------------------------------------------------------------------
(* The steps, by what they do to the bundles and the imports *)

(* Nothing but calls that end, wait or look for a bundle. *)
QuietStep ==
  /\ UNCHANGED <<ask, where, ran, key, pin, imports>>
  /\ excused \subseteq excused'
  /\ \A b \in Calls : BundleItem(b) \in cleaning' =>
       BundleItem(b) \in cleaning \/ where[b] \in {"applied", "rejected", "failed"}
  /\ \A d \in Calls :
       \/ pc'[d] = pc[d] /\ target'[d] = target[d]
       \/ /\ pc'[d] \in Quiet
          /\ target'[d] = target[d] \/ ask[d].tool = "wait"
          /\ IsIntent(d) /\ pc[d] = "recording" => ask[d] \in excused'

LookStep(c) ==
  /\ UNCHANGED <<ask, where, ran, imports, excused, target, cleaning>>
  /\ ask[c].tool \in Proposals
  /\ pc[c] = "new" /\ pc' = [pc EXCEPT ![c] = "looking"]
  /\ \E p : /\ key' = [key EXCEPT ![c] = ProposalKey(ask[c], p)]
            /\ pin' = [pin EXCEPT ![c] = p]
            /\ ask[c].tool = "patch" \/ p = Inline

MoveStep(b) ==
  /\ UNCHANGED <<ask, pc, ran, imports, excused, target, key, pin, cleaning>>
  /\ where[b] \in Active /\ \E d \in Active \cup Final : where' = [where EXCEPT ![b] = d]

LEMMA KindsOfSteps ==
  ASSUME TypeInv, [Next]_vars
  PROVE  \/ QuietStep
         \/ \E c \in Calls :
              \/ LookStep(c) \/ MoveStep(c) \/ Execute(c) \/ StageNew(c)
              \/ StageExisting(c) \/ Import(c) \/ ImportMisses(c) \/ Approve(c)
              \/ RecordImport(c)
         \/ \E item \in Items \ {PayloadItem} : Delete(item)
<1> USE DEF TypeInv
<1>1. CASE UNCHANGED vars
  BY <1>1 DEF vars, callVars, bundleVars, intentVars, cleanVars, QuietStep
<1>2. ASSUME NEW c \in Calls, Begin(c)
      PROVE  QuietStep \/ LookStep(c) \/ Import(c)
  <2>1. ASSUME NEW tool \in Proposals, NEW k, Propose(c, tool, k), k = ProposalKey(ask[c], Inline)
        PROVE  LookStep(c)
    BY <2>1 DEF Propose, Arrive, LookUp, Goto, LookStep, bundleVars, intentVars, cleanVars
  <2>2. CASE ProposeCommand(c) \/ ProposePush(c)
    BY <2>1, <2>2 DEF ProposeCommand, ProposePush, Propose, ProposalKey, Proposals
  <2>3. CASE ProposeFileWrite(c) \/ ProposeFileReplace(c)
    BY <2>1, <2>3 DEF ProposeFileWrite, ProposeFileReplace, Propose, ProposalKey, Proposals
  <2>4. CASE ProposeCommit(c)
    BY <2>1, <2>4 DEF ProposeCommit, Propose, ProposalKey, Proposals
  <2>5. CASE ProposePatch(c)
    BY <2>5 DEF ProposePatch, Arrive, LookUp, Goto, LookStep, ProposalKey, Proposals,
                bundleVars, intentVars, cleanVars
  <2>6. CASE RefuseProposal(c) \/ RefusePush(c) \/ Wait(c)
    BY <2>6 DEF RefuseProposal, RefusePush, Wait, Arrive, Raises, Goto, QuietStep, Quiet,
                CallTypes, bundleVars, intentVars, cleanVars
  <2> QED BY <1>2, <2>2, <2>3, <2>4, <2>5, <2>6 DEF Begin
<1>3. ASSUME NEW c \in Calls, ProposalStep(c) \/ ImportStep(c) \/ DeadlinePasses(c) \/ ImportDies(c)
      PROVE  \/ QuietStep
             \/ StageNew(c) \/ StageExisting(c) \/ ImportMisses(c) \/ Approve(c) \/ RecordImport(c)
  <2>1. CASE Find(c)
    <3>1. pc' = [pc EXCEPT ![c] = "sleeping"] \/ pc' = [pc EXCEPT ![c] = "done"]
          \/ pc' = [pc EXCEPT ![c] = "raised"]
      BY <2>1 DEF Find, Answers, Goto
    <3> QED BY <2>1, <3>1 DEF Find, QuietStep, Quiet, CallTypes, bundleVars, intentVars, cleanVars
  <2>2. CASE Miss(c) \/ Wake(c) \/ DeadlinePasses(c)
    BY <2>2 DEF Miss, Wake, DeadlinePasses, Raises, Goto, QuietStep, Quiet, CallTypes,
                bundleVars, intentVars, cleanVars
  <2>3. CASE ImportFinds(c) \/ NothingToCommit(c)
    BY <2>3 DEF ImportFinds, NothingToCommit, Goto, QuietStep, Quiet, CallTypes,
                bundleVars, intentVars, cleanVars
  <2>4. CASE ImportDies(c)
    BY <2>4 DEF ImportDies, Goto, QuietStep, Quiet, CallTypes, bundleVars, intentVars, cleanVars
  <2>5. CASE CallFails(c)
    BY <2>5 DEF CallFails, Goto, QuietStep, Quiet, CallTypes, bundleVars, intentVars, cleanVars
  <2> QED BY <1>3, <2>1, <2>2, <2>3, <2>4, <2>5 DEF ProposalStep, ImportStep
<1>4. ASSUME NEW b \in Calls, RunnerStep(b)
      PROVE  QuietStep \/ MoveStep(b) \/ Execute(b)
  <2>1. CASE Claim(b) \/ Reject(b) \/ \E d \in {"applied", "failed", "interrupted"} : Finish(b, d)
    <3>1. /\ \E d \in Active \cup Final : where' = [where EXCEPT ![b] = d]
          /\ where[b] \in Active /\ UNCHANGED <<Others, ran>>
      BY <2>1 DEF Claim, Reject, Finish, Moves, Active, Final
    <3> QED BY <3>1 DEF MoveStep, Others, intentVars, cleanVars
  <2>2. CASE ReadChunk(b)
    BY <2>2 DEF ReadChunk, QuietStep, Others, intentVars, cleanVars
  <2> QED BY <1>4, <2>1, <2>2 DEF RunnerStep
<1>5. CASE ServerStages \/ TokensExpire \/ EditTree \/ DeletePayload \/ DeleteFile
  BY <1>5 DEF ServerStages, TokensExpire, EditTree, DeletePayload, DeleteFile,
              QuietStep, callVars, bundleVars, intentVars, cleanVars
<1>6. CASE ListCandidates
  <2>1. \A b \in Calls : BundleItem(b) \in cleaning' =>
          where[b] \in {"applied", "rejected", "failed"}
    BY <1>6 DEF ListCandidates, BundleItem, ByPolicy, AllHistory, Payload, PayloadItem, OldBundles,
                CallRecords, ImportRecords
  <2> QED BY <1>6, <2>1 DEF ListCandidates, QuietStep, callVars, bundleVars, intentVars
<1>7. CASE ServerDies
  BY <1>7 DEF ServerDies, QuietStep, Quiet, bundleVars, intentVars, cleanVars
<1> QED BY <1>1, <1>2, <1>3, <1>4, <1>5, <1>6, <1>7 DEF Next, Cleanup
------------------------------------------------------------------------------
(* What every step leaves alone *)

(* What is forgotten stays forgotten. *)
LEMMA ForgottenStays ==
  ASSUME UNCHANGED ask, excused \subseteq excused',
         \A b \in Calls : where[b] = "deleted" => where'[b] = "deleted",
         NEW a, Forgotten(a)
  PROVE  Forgotten(a)'
BY DEF Forgotten

LEMMA InitOnceInv == Init => OnceInv
<1> SUFFICES ASSUME Init PROVE OnceInv
  OBVIOUS
<1>1. \A c \in Calls : pc[c] = "new" /\ where[c] = "none" /\ ran[c] = NoPatch
  BY DEF Init
<1>2. CleanInv
  BY DEF Init, CleanInv
<1> QED BY <1>1, <1>2 DEF OnceInv, LabelInv, FreshInv, PatchInv, KeyInv, ProposalsOnce, StageInv,
                    IntentsOnce, Alone, Staged

LEMMA QuietKeepsOnce ==
  ASSUME TypeInv, OnceInv, QuietStep
  PROVE  OnceInv'
<1>1. LabelInv' /\ FreshInv' /\ PatchInv' /\ KeyInv' /\ StageInv'
  BY DEF OnceInv, QuietStep, Quiet, LabelInv, FreshInv, PatchInv, KeyInv, StageInv, Staged,
         IsIntent, HasPayload
<1>2. \A a : Forgotten(a) => Forgotten(a)'
  BY DEF QuietStep, Forgotten
<1>3. ProposalsOnce'
  BY <1>2 DEF OnceInv, QuietStep, ProposalsOnce, Staged
<1>4. IntentsOnce'
  <2> SUFFICES ASSUME NEW c \in Calls, NEW d \in Calls, c # d, IsIntent(c)', ask'[c] = ask'[d],
                      ~Forgotten(ask[c])'
               PROVE  Alone(c, d)' /\ (Staged(c)' => Recorded(c)' /\ Follows(d, c)')
    BY DEF IntentsOnce, QuietStep
  <2>1. IsIntent(c) /\ IsIntent(d) /\ ask[c] = ask[d] /\ ~Forgotten(ask[c])
    BY <1>2 DEF QuietStep, IsIntent
  <2>2. Alone(c, d) /\ (Staged(c) => Recorded(c) /\ Follows(d, c))
    BY <2>1 DEF OnceInv, IntentsOnce
  <2>3. ask[c] \notin excused'
    BY DEF Forgotten, QuietStep
  <2>4. Alone(c, d)'
    BY <2>2 DEF Alone, QuietStep, Quiet
  <2>5. Staged(c)' => Recorded(c)'
    BY <2>1, <2>2, <2>3 DEF Recorded, QuietStep, Quiet, Staged, Token
  <2>6. Staged(c)' => Follows(d, c)'
    BY <2>2 DEF Follows, QuietStep, Quiet, Staged
  <2> QED BY <2>4, <2>5, <2>6
<1>5. CleanInv'
  BY DEF OnceInv, CleanInv, QuietStep, Active
<1> QED BY <1>1, <1>3, <1>4, <1>5 DEF OnceInv

LEMMA LookKeepsOnce ==
  ASSUME TypeInv, OnceInv, NEW c \in Calls, LookStep(c)
  PROVE  OnceInv'
<1>1. /\ \A d \in Calls : d # c => pc'[d] = pc[d] /\ key'[d] = key[d] /\ pin'[d] = pin[d]
      /\ pc[c] = "new" /\ pc'[c] = "looking" /\ ~Staged(c) /\ ran[c] = NoPatch
      /\ key'[c] = ProposalKey(ask[c], pin'[c])
      /\ ask[c].tool = "patch" \/ pin'[c] = Inline
      /\ ask[c].tool \in Proposals /\ ~IsIntent(c)
  BY DEF LookStep, TypeInv, CallTypes, OnceInv, FreshInv, IsIntent, Proposals, Intents
<1>2. LabelInv' /\ FreshInv' /\ PatchInv' /\ StageInv'
  BY <1>1 DEF OnceInv, LookStep, LabelInv, FreshInv, PatchInv, StageInv, Staged, IsIntent,
              HasPayload
<1>3. KeyInv'
  BY <1>1 DEF OnceInv, LookStep, KeyInv, KeyFits, IsIntent, Staged
<1>4. ProposalsOnce'
  BY <1>1 DEF OnceInv, LookStep, ProposalsOnce, Staged, Forgotten
<1>5. IntentsOnce'
  BY <1>1 DEF OnceInv, LookStep, IntentsOnce, Alone, Recorded, Follows, Staged, Forgotten,
              IsIntent, Token
<1>6. CleanInv'
  BY DEF OnceInv, CleanInv, LookStep
<1> QED BY <1>2, <1>3, <1>4, <1>5, <1>6 DEF OnceInv

LEMMA MoveKeepsOnce ==
  ASSUME TypeInv, OnceInv, NEW b \in Calls, MoveStep(b)
  PROVE  OnceInv'
<1>1. PICK m \in Active \cup Final : where' = [where EXCEPT ![b] = m]
  BY DEF MoveStep
<1>2. \A c \in Calls : Staged(c)' = Staged(c)
  BY <1>1 DEF MoveStep, Staged, TypeInv, BundleTypes, Active, Final
<1>3. \A a : Forgotten(a) => Forgotten(a)'
  BY <1>1 DEF MoveStep, Forgotten, TypeInv, BundleTypes, Active
<1>4. LabelInv' /\ FreshInv' /\ PatchInv' /\ KeyInv' /\ StageInv'
  BY <1>2 DEF OnceInv, MoveStep, LabelInv, FreshInv, PatchInv, KeyInv, StageInv, IsIntent,
              HasPayload
<1>5. ProposalsOnce'
  BY <1>2, <1>3 DEF OnceInv, MoveStep, ProposalsOnce
<1>6. IntentsOnce'
  BY <1>2, <1>3 DEF OnceInv, MoveStep, IntentsOnce, Alone, Recorded, Follows, IsIntent, Token
<1>7. CleanInv'
  BY <1>1 DEF OnceInv, CleanInv, MoveStep, TypeInv, BundleTypes
<1> QED BY <1>4, <1>5, <1>6, <1>7 DEF OnceInv

LEMMA ExecuteKeepsOnce ==
  ASSUME TypeInv, OnceInv, NEW b \in Calls, Execute(b)
  PROVE  OnceInv'
<1>1. /\ Staged(b) /\ (HasPayload(b) => ran'[b] = pin[b])
      /\ \A c \in Calls : c # b => ran'[c] = ran[c]
  BY DEF Execute, Approved, Staged, TypeInv, BundleTypes
<1>2. UNCHANGED <<ask, pc, target, key, pin, where, imports, excused>>
  BY DEF Execute, Others, intentVars
<1>3. LabelInv' /\ KeyInv' /\ StageInv' /\ ProposalsOnce' /\ IntentsOnce'
  BY <1>2 DEF OnceInv, LabelInv, KeyInv, StageInv, ProposalsOnce, IntentsOnce, Alone, Recorded,
              Follows, Staged, Forgotten, IsIntent, Token
<1>4. FreshInv' /\ PatchInv'
  BY <1>1, <1>2 DEF OnceInv, FreshInv, PatchInv, Staged, HasPayload
<1>5. CleanInv'
  BY <1>2 DEF OnceInv, CleanInv, Execute, Others, cleanVars
<1> QED BY <1>3, <1>4, <1>5 DEF OnceInv

(* A bundle is staged when its search finds no other, or what it missed is *)
(* excused; of an intent there is no other bundle it could find.           *)
LEMMA StageNewKeepsOnce ==
  ASSUME TypeInv, OnceInv, NEW c \in Calls, StageNew(c)
  PROVE  OnceInv'
<1>1. /\ where[c] = "none" /\ where'[c] = "pending" /\ pc[c] = "looking"
      /\ target'[c] = c
      /\ pc'[c] = IF IsIntent(c) THEN "recording" ELSE "finding"
      /\ \A d \in Calls : d # c => where'[d] = where[d] /\ pc'[d] = pc[d] /\ target'[d] = target[d]
      /\ UNCHANGED <<ask, ran, key, pin, imports>>
      /\ excused \subseteq excused'
  BY DEF StageNew, StageReturns, Goto, OnceInv, FreshInv, Staged, TypeInv, CallTypes, BundleTypes,
         intentVars
<1>2. \A a : Forgotten(a) => Forgotten(a)'
  BY <1>1 DEF Forgotten
<1>3. LabelInv' /\ FreshInv' /\ PatchInv' /\ KeyInv' /\ StageInv'
  BY <1>1 DEF OnceInv, LabelInv, FreshInv, PatchInv, KeyInv, StageInv, Staged, IsIntent, HasPayload
<1>4. ProposalsOnce'
  <2>1. ASSUME NEW b \in Calls, b # c, ask[b] = ask[c], pin[b] = pin[c], ask[b].tool \in Proposals,
               Staged(b), ~Forgotten(ask[c])
        PROVE  ask[c] \in excused'
    <3>1. key[b] = key[c]
      BY <1>1, <2>1 DEF OnceInv, KeyInv, KeyFits, Proposals, Intents
    <3>2. where[b] \in Active \cup Final
      BY <2>1 DEF Staged, Forgotten, TypeInv, BundleTypes
    <3>3. SameRequest(key[c]) # {}
      BY <3>1, <3>2 DEF SameRequest
    <3> QED BY <3>3, AskTypes DEF StageNew
  <2> SUFFICES ASSUME NEW b1 \in Calls, NEW b2 \in Calls, b1 # b2, ask[b1] = ask[b2],
                      pin[b1] = pin[b2], ask[b1].tool \in Proposals, Staged(b1)', Staged(b2)'
               PROVE  Forgotten(ask[b1])'
    BY <1>1 DEF ProposalsOnce
  <2>2. CASE b1 = c
    BY <1>1, <1>2, <2>1, <2>2 DEF Staged, Forgotten
  <2>3. CASE b2 = c
    BY <1>1, <1>2, <2>1, <2>3 DEF Staged, Forgotten
  <2>4. CASE b1 # c /\ b2 # c
    BY <1>1, <1>2, <2>4 DEF OnceInv, ProposalsOnce, Staged
  <2> QED BY <2>2, <2>3, <2>4
<1>5. IntentsOnce'
  <2> SUFFICES ASSUME NEW e \in Calls, NEW d \in Calls, e # d, IsIntent(e), ask[e] = ask[d],
                      ~Forgotten(ask[e])'
               PROVE  Alone(e, d)' /\ (Staged(e)' => Recorded(e)' /\ Follows(d, e)')
    BY <1>1 DEF IntentsOnce, IsIntent
  <2>1. /\ Alone(e, d) /\ Alone(d, e) /\ IsIntent(d)
        /\ Staged(e) => Recorded(e) /\ Follows(d, e)
        /\ Staged(d) => Follows(e, d)
    BY <1>1, <1>2 DEF OnceInv, IntentsOnce, IsIntent
  <2>2. CASE e = c
    <3>1. ~Staged(d)
      BY <1>1, <2>1, <2>2 DEF Follows
    <3> QED BY <1>1, <2>1, <2>2, <3>1 DEF Alone, Recorded, Follows, Staged
  <2>3. CASE d = c
    BY <1>1, <2>1, <2>3 DEF Alone, Follows, Staged
  <2>4. CASE e # c /\ d # c
    BY <1>1, <2>1, <2>4 DEF Alone, Recorded, Follows, Staged, Token
  <2> QED BY <2>2, <2>3, <2>4
<1>6. CleanInv'
  BY <1>1 DEF OnceInv, CleanInv, StageNew, cleanVars
<1> QED BY <1>3, <1>4, <1>5, <1>6 DEF OnceInv

(* An intent that finds a bundle of another request has none of its own.   *)
LEMMA StageExistingKeepsOnce ==
  ASSUME TypeInv, OnceInv, NEW c \in Calls, StageExisting(c)
  PROVE  OnceInv'
<1>1. /\ where[c] = "none" /\ pc[c] = "looking"
      /\ pc'[c] = IF IsIntent(c) THEN "recording" ELSE "finding"
      /\ \A d \in Calls : d # c => pc'[d] = pc[d] /\ target'[d] = target[d]
      /\ UNCHANGED <<ask, ran, where, key, pin, imports, excused>>
  BY DEF StageExisting, StageReturns, Goto, OnceInv, FreshInv, Staged, TypeInv, CallTypes,
         bundleVars, intentVars
<1>2. LabelInv' /\ FreshInv' /\ PatchInv' /\ KeyInv' /\ StageInv' /\ ProposalsOnce'
  BY <1>1 DEF OnceInv, LabelInv, FreshInv, PatchInv, KeyInv, StageInv, ProposalsOnce, Staged,
              Forgotten, IsIntent, HasPayload
<1>3. IntentsOnce'
  BY <1>1 DEF OnceInv, IntentsOnce, Alone, Recorded, Follows, Staged, Forgotten, IsIntent, Token
<1>4. CleanInv'
  BY <1>1 DEF OnceInv, CleanInv, StageExisting, cleanVars
<1> QED BY <1>2, <1>3, <1>4 DEF OnceInv
------------------------------------------------------------------------------
(* The imports *)

(* A nonce belongs to one intent. *)
LEMMA OneIntentPerToken ==
  ASSUME TypeInv, NEW c \in Calls, NEW d \in Calls, IsIntent(c), IsIntent(d), Token(c) = Token(d)
  PROVE  ask[c] = ask[d]
BY NonceAssumption DEF TypeInv, CallTypes, IsIntent, Token

LEMMA ImportKeepsOnce ==
  ASSUME TypeInv, OnceInv, NEW c \in Calls, Import(c)
  PROVE  OnceInv'
<1>1. /\ pc[c] = "new" /\ IsIntent(c) /\ ~Staged(c)
      /\ \A d \in Calls : d # c => pc'[d] = pc[d] /\ target'[d] = target[d]
      /\ UNCHANGED <<ask, ran, where, key, pin, imports>>
      /\ excused \subseteq excused'
      /\ Importing(Token(c)) # {} => ask[c] \in excused'
  <2>1. pc[c] = "new" /\ IsIntent(c) /\ UNCHANGED <<ask, ran, where, key, pin, imports>>
    BY DEF Import, bundleVars, intentVars
  <2>2. ~Staged(c)
    BY <2>1 DEF OnceInv, FreshInv
  <2>3. \A d \in Calls : d # c => pc'[d] = pc[d] /\ target'[d] = target[d]
    BY DEF Import, Goto, TypeInv, CallTypes
  <2>4. excused' = IF Importing(Token(c)) = {} THEN excused ELSE excused \cup {ask[c]}
    BY DEF Import
  <2> QED BY <2>1, <2>2, <2>3, <2>4
<1>2. \/ pc'[c] = "raised"
      \/ pc'[c] = "approving" /\ imports[Token(c)] = NoCall
      \/ pc'[c] = "importFinding" /\ target'[c] = imports[Token(c)]
  BY DEF Import, Goto, TypeInv, CallTypes
<1>3. LabelInv' /\ FreshInv' /\ PatchInv' /\ KeyInv' /\ StageInv'
  BY <1>1, <1>2 DEF OnceInv, LabelInv, FreshInv, PatchInv, KeyInv, StageInv, Staged, IsIntent,
                    HasPayload, Intents, Proposals
<1>4. \A a : Forgotten(a) => Forgotten(a)'
  BY <1>1 DEF Forgotten
<1>5. ProposalsOnce'
  BY <1>1, <1>4 DEF OnceInv, ProposalsOnce, Staged
<1>6. IntentsOnce'
  <2> SUFFICES ASSUME NEW e \in Calls, NEW d \in Calls, e # d, IsIntent(e), ask[e] = ask[d],
                      ~Forgotten(ask[e])'
               PROVE  Alone(e, d)' /\ (Staged(e)' => Recorded(e)' /\ Follows(d, e)')
    BY <1>1 DEF IntentsOnce, IsIntent
  <2>1. /\ Alone(e, d) /\ Alone(d, e) /\ IsIntent(d)
        /\ Staged(e) => Recorded(e) /\ Follows(d, e)
    BY <1>1, <1>4 DEF OnceInv, IntentsOnce, IsIntent
  <2>2. ASSUME e = c \/ d = c, NEW f \in Calls, f = e \/ f = d, f # c
        PROVE  pc[f] \notin {"importFinding", "approving", "looking", "recording"}
    <3>1. Importing(Token(c)) = {}
      BY <1>1, <2>2 DEF Forgotten
    <3>2. IsIntent(f) /\ Token(f) = Token(c)
      BY <2>1, <2>2 DEF Token
    <3> QED BY <3>1, <3>2 DEF Importing
  <2>3. CASE e = c
    BY <1>1, <2>2, <2>3 DEF Alone, Staged
  <2>4. CASE d = c
    <3>1. Staged(e) => imports[Token(d)] = e
      BY <2>1, <2>2, <2>4 DEF Recorded, Token
    <3>2. e # NoCall
      BY NoCallAssumption
    <3> QED BY <1>1, <1>2, <2>1, <2>2, <2>4, <3>1, <3>2 DEF Alone, Recorded, Follows, Staged, Token
  <2>5. CASE e # c /\ d # c
    BY <1>1, <2>1, <2>5 DEF Alone, Recorded, Follows, Staged, Token
  <2> QED BY <2>3, <2>4, <2>5
<1>7. CleanInv'
  BY <1>1 DEF OnceInv, CleanInv, Import, cleanVars
<1> QED BY <1>3, <1>5, <1>6, <1>7 DEF OnceInv

(* The bundle of an import record is only missed when it moved or is gone. *)
LEMMA ImportMissesKeepsOnce ==
  ASSUME TypeInv, OnceInv, NEW c \in Calls, ImportMisses(c)
  PROVE  OnceInv'
<1>1. /\ pc[c] = "importFinding" /\ pc'[c] = "approving" /\ IsIntent(c) /\ ~Staged(c)
      /\ \A d \in Calls : d # c => pc'[d] = pc[d]
      /\ UNCHANGED <<ask, ran, where, target, key, pin, imports>>
      /\ excused \subseteq excused'
      /\ where[target[c]] \notin SearchDirs \/ ask[c] \in excused'
  BY AskTypes DEF ImportMisses, Goto, OnceInv, LabelInv, FreshInv, TypeInv, CallTypes, bundleVars,
                  intentVars
<1>2. LabelInv' /\ FreshInv' /\ PatchInv' /\ KeyInv' /\ StageInv'
  BY <1>1 DEF OnceInv, LabelInv, FreshInv, PatchInv, KeyInv, StageInv, Staged, IsIntent, HasPayload,
              Intents, Proposals
<1>3. \A a : Forgotten(a) => Forgotten(a)'
  BY <1>1 DEF Forgotten
<1>4. ProposalsOnce'
  BY <1>1, <1>3 DEF OnceInv, ProposalsOnce, Staged
<1>5. IntentsOnce'
  <2> SUFFICES ASSUME NEW e \in Calls, NEW d \in Calls, e # d, IsIntent(e), ask[e] = ask[d],
                      ~Forgotten(ask[e])'
               PROVE  Alone(e, d)' /\ (Staged(e)' => Recorded(e)' /\ Follows(d, e)')
    BY <1>1 DEF IntentsOnce, IsIntent
  <2>1. Alone(e, d) /\ (Staged(e) => Recorded(e) /\ Follows(d, e))
    BY <1>1, <1>3 DEF OnceInv, IntentsOnce
  <2>2. d = c => ~Staged(e)
    <3> SUFFICES ASSUME d = c, Staged(e) PROVE FALSE
      OBVIOUS
    <3>1. target[c] = e
      BY <1>1, <2>1 DEF Follows
    <3>2. where[e] = "deleted"
      BY <1>1, <3>1 DEF Forgotten, Staged, SearchDirs, TypeInv, BundleTypes
    <3> QED BY <1>1, <3>2 DEF Forgotten
  <2> QED BY <1>1, <2>1, <2>2 DEF Alone, Recorded, Follows, Staged, Token
<1>6. CleanInv'
  BY <1>1 DEF OnceInv, CleanInv, ImportMisses, cleanVars
<1> QED BY <1>2, <1>4, <1>5, <1>6 DEF OnceInv

LEMMA ApproveKeepsOnce ==
  ASSUME TypeInv, OnceInv, NEW c \in Calls, Approve(c)
  PROVE  OnceInv'
<1>1. /\ pc[c] = "approving" /\ pc'[c] = "looking" /\ IsIntent(c) /\ ~Staged(c)
      /\ \A d \in Calls : d # c => pc'[d] = pc[d] /\ key'[d] = key[d] /\ pin'[d] = pin[d]
      /\ UNCHANGED <<ask, ran, where, target, imports, excused>>
      /\ KeyFits(ask[c], key'[c], pin'[c])
  BY DEF Approve, LookUp, Goto, OnceInv, LabelInv, FreshInv, TypeInv, CallTypes, bundleVars,
         intentVars, IsIntent, KeyFits
<1>2. LabelInv' /\ FreshInv' /\ PatchInv' /\ KeyInv' /\ StageInv'
  BY <1>1 DEF OnceInv, LabelInv, FreshInv, PatchInv, KeyInv, StageInv, Staged, IsIntent, HasPayload,
              Intents, Proposals
<1>3. ProposalsOnce'
  BY <1>1 DEF OnceInv, ProposalsOnce, Staged, Forgotten
<1>4. IntentsOnce'
  BY <1>1 DEF OnceInv, IntentsOnce, Alone, Recorded, Follows, Staged, Forgotten, IsIntent, Token
<1>5. CleanInv'
  BY <1>1 DEF OnceInv, CleanInv, Approve, cleanVars
<1> QED BY <1>2, <1>3, <1>4, <1>5 DEF OnceInv

LEMMA RecordImportKeepsOnce ==
  ASSUME TypeInv, OnceInv, NEW c \in Calls, RecordImport(c)
  PROVE  OnceInv'
<1>1. /\ pc[c] = "recording" /\ pc'[c] = "done" /\ IsIntent(c)
      /\ \A d \in Calls : d # c => pc'[d] = pc[d]
      /\ UNCHANGED <<ask, ran, where, target, key, pin, excused>>
      /\ imports' = [imports EXCEPT ![Token(c)] = target[c]]
  BY DEF RecordImport, Goto, OnceInv, LabelInv, TypeInv, CallTypes, bundleVars
<1>2. LabelInv' /\ FreshInv' /\ PatchInv' /\ KeyInv' /\ StageInv' /\ ProposalsOnce'
  BY <1>1 DEF OnceInv, LabelInv, FreshInv, PatchInv, KeyInv, StageInv, ProposalsOnce, Staged,
              Forgotten, IsIntent, HasPayload
<1>3. IntentsOnce'
  <2> SUFFICES ASSUME NEW e \in Calls, NEW d \in Calls, e # d, IsIntent(e), ask[e] = ask[d],
                      ~Forgotten(ask[e])
               PROVE  Alone(e, d)' /\ (Staged(e)' => Recorded(e)' /\ Follows(d, e)')
    BY <1>1 DEF IntentsOnce, IsIntent, Forgotten
  <2>1. Alone(e, d) /\ (Staged(e) => Recorded(e) /\ Follows(d, e))
    BY DEF OnceInv, IntentsOnce
  <2>2. Staged(e) => Recorded(e)'
    <3>1. CASE e = c
      BY <1>1, <3>1, AskTypes DEF OnceInv, StageInv, Recorded, TypeInv, IntentTypes, Token
    <3>2. CASE e # c /\ Token(e) = Token(c)
      <4>1. ask[e] = ask[c]
        BY <1>1, <3>2, OneIntentPerToken
      <4> QED BY <1>1, <3>2, <4>1 DEF OnceInv, IntentsOnce, Follows
    <3>3. CASE e # c /\ Token(e) # Token(c)
      BY <1>1, <2>1, <3>3, AskTypes DEF Recorded, TypeInv, IntentTypes, Token
    <3> QED BY <3>1, <3>2, <3>3
  <2> QED BY <1>1, <2>1, <2>2 DEF Alone, Follows, Staged
<1>4. CleanInv'
  BY <1>1 DEF OnceInv, CleanInv, RecordImport, cleanVars
<1> QED BY <1>2, <1>3, <1>4 DEF OnceInv

(* Only what has ended is removed; an import record goes with its excuse. *)
LEMMA DeleteKeepsOnce ==
  ASSUME TypeInv, OnceInv, NEW item \in Items \ {PayloadItem}, Delete(item)
  PROVE  OnceInv'
<1>1. /\ UNCHANGED <<ask, pc, target, key, pin, ran>>
      /\ excused \subseteq excused'
      /\ \A b \in Calls : where'[b] = where[b] \/ (where'[b] = "deleted" /\ item = BundleItem(b))
      /\ item \in cleaning /\ cleaning' \subseteq cleaning
  BY DEF Delete, IsNext, BundleItem
<1>2. \A b \in Calls : /\ Staged(b)' = Staged(b)
                       /\ where'[b] \in Active => where[b] \in Active
  BY <1>1 DEF OnceInv, CleanInv, Staged, Active
<1>3. \A a : Forgotten(a) => Forgotten(a)'
  BY <1>1 DEF Forgotten
<1>4. \A c \in Calls : ask[c] \in excused' \/ imports'[Token(c)] = imports[Token(c)]
  <2> SUFFICES ASSUME NEW c \in Calls
               PROVE  ask[c] \in excused' \/ imports'[Token(c)] = imports[Token(c)]
    OBVIOUS
  <2>1. Token(c) \in Requests /\ ask[c] \in Asks
    BY AskTypes
  <2>2. CASE item = [kind |-> "import", of |-> Token(c)]
    BY <2>1, <2>2 DEF Delete, Token
  <2>3. CASE item # [kind |-> "import", of |-> Token(c)]
    BY <2>1, <2>3 DEF Delete, TypeInv, IntentTypes
  <2> QED BY <2>2, <2>3
<1>5. LabelInv' /\ FreshInv' /\ PatchInv' /\ KeyInv' /\ StageInv'
  BY <1>1, <1>2 DEF OnceInv, LabelInv, FreshInv, PatchInv, KeyInv, StageInv, IsIntent, HasPayload
<1>6. ProposalsOnce'
  BY <1>1, <1>2, <1>3 DEF OnceInv, ProposalsOnce
<1>7. IntentsOnce'
  <2> SUFFICES ASSUME NEW e \in Calls, NEW d \in Calls, e # d, IsIntent(e), ask[e] = ask[d],
                      ~Forgotten(ask[e])'
               PROVE  Alone(e, d)' /\ (Staged(e)' => Recorded(e)' /\ Follows(d, e)')
    BY <1>1 DEF IntentsOnce, IsIntent
  <2>1. Alone(e, d) /\ (Staged(e) => Recorded(e) /\ Follows(d, e))
    BY <1>1, <1>3 DEF OnceInv, IntentsOnce
  <2>2. imports'[Token(e)] = imports[Token(e)]
    BY <1>1, <1>4 DEF Forgotten
  <2> QED BY <1>1, <1>2, <2>1, <2>2 DEF Alone, Recorded, Follows, Token
<1>8. CleanInv'
  BY <1>1 DEF OnceInv, CleanInv, Active
<1> QED BY <1>5, <1>6, <1>7, <1>8 DEF OnceInv
------------------------------------------------------------------------------
(* The answers *)

(* A call knows only bundles that were staged, an import record names one, *)
(* and a call that is under way has its journal record, unless a cleanup   *)
(* took it.                                                                *)
AnswerInv ==
  \A c \in Calls :
    /\ pc[c] = "new" => target[c] = NoCall
    /\ target[c] # NoCall => Staged(target[c])
    /\ pc[c] \in {"looking", "finding", "sleeping"} /\ ~IsIntent(c)
         => journal[c] \in {"started", "deleted"}
    /\ pc[c] = "raised" /\ target[c] # NoCall /\ ~IsIntent(c)
         => moved[c] \/ where[target[c]] = "deleted" \/ journal[c] = "deleted"
RecordInv == \A t \in Requests : imports[t] # NoCall => Staged(imports[t])

(* What is staged stays, at least as a bundle that was cleaned up. *)
Stays(b) ==
  /\ UNCHANGED ask
  /\ Staged(b) => Staged(b)'
  /\ where[b] = "deleted" => where'[b] = "deleted"

LEMMA StagedStays ==
  ASSUME TypeInv, OnceInv, [Next]_vars, NEW b \in Calls
  PROVE  Stays(b)
<1> USE DEF Stays
<1>1. CASE QuietStep
  BY <1>1 DEF QuietStep, Staged
<1>2. ASSUME NEW c \in Calls, LookStep(c) \/ MoveStep(c) \/ Execute(c)
      PROVE  Stays(b)
  BY <1>2 DEF LookStep, MoveStep, Execute, Others, Staged, Active, Final, TypeInv, BundleTypes
<1>3. ASSUME NEW c \in Calls, StageNew(c)
      PROVE  Stays(b)
  BY <1>3 DEF StageNew, OnceInv, FreshInv, Staged, TypeInv, BundleTypes
<1>4. ASSUME NEW c \in Calls,
             StageExisting(c) \/ Import(c) \/ ImportMisses(c) \/ Approve(c) \/ RecordImport(c)
      PROVE  Stays(b)
  BY <1>4 DEF StageExisting, Import, ImportMisses, Approve, RecordImport, Staged, bundleVars
<1>5. ASSUME NEW item \in Items \ {PayloadItem}, Delete(item)
      PROVE  Stays(b)
  BY <1>5 DEF Delete, Staged
<1> QED BY <1>1, <1>2, <1>3, <1>4, <1>5, KindsOfSteps

(* What a step does to a call c. *)
Keeps(c) ==
  /\ pc'[c] = pc[c] /\ target'[c] = target[c]
  /\ moved[c] => moved'[c]
  /\ journal'[c] \in {journal[c], "deleted"}
NowKnows(c) == target'[c] \in {target[c], NoCall} \cup Known \/ Staged(target[c])'
               \/ \E t \in Requests : target'[c] = imports[t]
Proceeds(c) ==
  /\ pc'[c] \notin {"new", "raised"}
  /\ NowKnows(c)
  /\ pc'[c] \in {"looking", "finding", "sleeping"} /\ ~IsIntent(c) =>
       \/ journal'[c] = "started"
       \/ pc[c] \in {"looking", "finding", "sleeping"} /\ journal'[c] = journal[c]
Fails(c) ==
  /\ pc'[c] = "raised" /\ target'[c] = target[c]
  /\ \/ pc[c] = "new"
     \/ IsIntent(c)
     \/ pc[c] = "finding" /\ journal[c] # "started" /\ journal'[c] = journal[c]
     \/ where[target[c]] \notin SearchDirs /\ UNCHANGED where
     \/ moved'[c]

LEMMA WhatACallDoes ==
  ASSUME TypeInv, OnceInv, [Next]_vars, NEW c \in Calls
  PROVE  Keeps(c) \/ Proceeds(c) \/ Fails(c)
<1> USE DEF TypeInv, CallTypes
<1>1. CASE UNCHANGED vars
  BY <1>1 DEF vars, callVars, Keeps
<1>2. ASSUME NEW d \in Calls, Begin(d)
      PROVE  Keeps(c) \/ Proceeds(c) \/ Fails(c)
  <2>1. CASE c # d
    BY <1>2, <2>1 DEF Begin, ProposeCommand, ProposeFileWrite, ProposeFileReplace, ProposePatch,
                      ProposeCommit, ProposePush, Propose, Arrive, LookUp, RefuseProposal, Raises,
                      RefusePush, Wait, Import, Goto, Keeps
  <2>2. CASE c = d
    <3>1. CASE RefuseProposal(d) \/ RefusePush(d)
      BY <2>2, <3>1 DEF RefuseProposal, RefusePush, Raises, Goto, Fails
    <3>2. CASE Wait(d)
      BY <2>2, <3>2 DEF Wait, Arrive, Goto, Proceeds, NowKnows
    <3>3. CASE Import(d)
      <4>1. IsIntent(c) /\ UNCHANGED ask /\ Token(c) \in Requests
        BY <2>2, <3>3, AskTypes DEF Import
      <4>2. \/ pc'[c] = "raised" /\ target'[c] = target[c]
            \/ pc'[c] \in {"approving", "importFinding"}
               /\ target'[c] \in {target[c], imports[Token(c)]}
        BY <2>2, <3>3 DEF Import, Goto
      <4> QED BY <4>1, <4>2 DEF Proceeds, NowKnows, Fails
    <3>4. ASSUME NEW tool, NEW k, Propose(d, tool, k)
          PROVE  Proceeds(c)
      BY <2>2, <3>4 DEF Propose, Arrive, LookUp, Goto, Proceeds, NowKnows
    <3>5. CASE ProposePatch(d)
      BY <2>2, <3>5 DEF ProposePatch, Arrive, LookUp, Goto, Proceeds, NowKnows
    <3> QED BY <1>2, <3>1, <3>2, <3>3, <3>4, <3>5
            DEF Begin, ProposeCommand, ProposeFileWrite, ProposeFileReplace, ProposeCommit, ProposePush
  <2> QED BY <2>1, <2>2
<1>3. ASSUME NEW d \in Calls,
             ProposalStep(d) \/ ImportStep(d) \/ DeadlinePasses(d) \/ ImportDies(d)
      PROVE  Keeps(c) \/ Proceeds(c) \/ Fails(c)
  <2>1. CASE c # d
    BY <1>3, <2>1 DEF ProposalStep, ImportStep, DeadlinePasses, ImportDies, StageExisting, StageNew,
                      StageReturns, Find, Miss, Answers, Raises, Wake, CallFails, ImportFinds,
                      ImportMisses, Approve, LookUp, NothingToCommit, RecordImport, Goto, Keeps
  <2>2. CASE c = d
    <3>1. CASE StageExisting(d)
      <4>1. /\ Staged(target[c])'
            /\ pc'[c] = IF IsIntent(c) THEN "recording" ELSE "finding"
            /\ pc[c] = "looking" /\ UNCHANGED journal
        BY <2>2, <3>1 DEF StageExisting, StageReturns, SameRequest, Goto, Staged, Active, Final,
                          bundleVars
      <4> QED BY <4>1 DEF Proceeds, NowKnows
    <3>2. CASE StageNew(d)
      <4>1. /\ Staged(target[c])'
            /\ pc'[c] = IF IsIntent(c) THEN "recording" ELSE "finding"
            /\ pc[c] = "looking" /\ UNCHANGED journal
        BY <2>2, <3>2 DEF StageNew, StageReturns, Goto, Staged, BundleTypes
      <4> QED BY <4>1 DEF Proceeds, NowKnows
    <3>3. CASE Find(d)
      <4>1. /\ pc[c] = "finding" /\ UNCHANGED target
            /\ \/ pc'[c] = "done"
               \/ pc'[c] \in {"sleeping", "raised"} /\ UNCHANGED journal
            /\ pc'[c] = "raised" => journal[c] # "started"
        BY <2>2, <3>3 DEF Find, Answers, Goto
      <4> QED BY <4>1 DEF Proceeds, NowKnows, Fails
    <3>4. CASE Miss(d)
      BY <2>2, <3>4 DEF Miss, Raises, Goto, Fails, bundleVars
    <3>5. CASE Wake(d)
      BY <2>2, <3>5 DEF Wake, Goto, Proceeds, NowKnows
    <3>6. CASE DeadlinePasses(d)
      BY <3>6 DEF DeadlinePasses, Keeps
    <3>7. CASE ImportFinds(d) \/ RecordImport(d) \/ ImportDies(d)
      BY <2>2, <3>7 DEF ImportFinds, RecordImport, ImportDies, Goto, Proceeds, NowKnows
    <3>8. CASE NothingToCommit(d)
      BY <2>2, <3>8 DEF NothingToCommit, IsIntent, Intents, Goto, Fails
    <3>9. CASE ImportMisses(d) \/ Approve(d)
      <4>1. IsIntent(c)
        BY <2>2, <3>9 DEF ImportMisses, Approve, OnceInv, LabelInv
      <4>2. pc'[c] \in {"approving", "looking"} /\ UNCHANGED target
        BY <2>2, <3>9 DEF ImportMisses, Approve, LookUp, Goto
      <4> QED BY <4>1, <4>2 DEF Proceeds, NowKnows
    <3>10. CASE CallFails(d)
      BY <2>2, <3>10 DEF CallFails, Goto, Proceeds, NowKnows
    <3> QED BY <1>3, <3>1, <3>2, <3>3, <3>4, <3>5, <3>6, <3>7, <3>8, <3>9, <3>10
            DEF ProposalStep, ImportStep
  <2> QED BY <2>1, <2>2
<1>4. ASSUME NEW b \in Calls, RunnerStep(b)
      PROVE  Keeps(c)
  BY <1>4 DEF RunnerStep, Claim, Reject, ReadChunk, Execute, Finish, Moves, Others, Keeps
<1>5. CASE ServerStages \/ TokensExpire \/ EditTree \/ ListCandidates \/ DeletePayload \/ DeleteFile
  BY <1>5 DEF ServerStages, TokensExpire, EditTree, ListCandidates, DeletePayload, DeleteFile,
              callVars, Keeps
<1>6. CASE ServerDies
  BY <1>6 DEF ServerDies, Keeps, Proceeds, NowKnows
<1>7. ASSUME NEW item \in Items \ {PayloadItem}, Delete(item)
      PROVE  Keeps(c)
  BY <1>7 DEF Delete, Keeps
<1> QED BY <1>1, <1>2, <1>3, <1>4, <1>5, <1>6, <1>7 DEF Next, Cleanup

LEMMA NextRecordInv ==
  ASSUME TypeInv, OnceInv, AnswerInv, RecordInv, [Next]_vars
  PROVE  RecordInv'
<1>1. ASSUME UNCHANGED imports
      PROVE  RecordInv'
  BY <1>1, StagedStays DEF Stays, RecordInv, TypeInv, IntentTypes
<1>2. ASSUME NEW c \in Calls, RecordImport(c)
      PROVE  RecordInv'
  <2>1. imports' = [imports EXCEPT ![Token(c)] = target[c]] /\ UNCHANGED <<where, target>>
    BY <1>2 DEF RecordImport, bundleVars
  <2> QED BY <2>1 DEF AnswerInv, RecordInv, Staged, TypeInv, IntentTypes
<1>3. ASSUME NEW item \in Items \ {PayloadItem}, Delete(item)
      PROVE  RecordInv'
  <2>1. \A t \in Requests : imports'[t] \in {imports[t], NoCall}
    BY <1>3 DEF Delete
  <2> QED BY <2>1, StagedStays DEF Stays, RecordInv, TypeInv, IntentTypes
<1>4. ASSUME NEW c \in Calls,
             LookStep(c) \/ MoveStep(c) \/ Execute(c) \/ StageNew(c) \/ StageExisting(c)
             \/ Import(c) \/ ImportMisses(c) \/ Approve(c)
      PROVE  UNCHANGED imports
  BY <1>4 DEF LookStep, MoveStep, Execute, Others, StageNew, StageExisting, Import, ImportMisses,
              Approve, intentVars
<1> QED BY <1>1, <1>2, <1>3, <1>4, KindsOfSteps DEF QuietStep

LEMMA NextAnswerInv ==
  ASSUME TypeInv, OnceInv, AnswerInv, RecordInv, [Next]_vars
  PROVE  AnswerInv'
<1> SUFFICES ASSUME NEW c \in Calls
             PROVE  /\ pc'[c] = "new" => target'[c] = NoCall
                    /\ target'[c] # NoCall => Staged(target[c])'
                    /\ pc'[c] \in {"looking", "finding", "sleeping"} /\ ~IsIntent(c)'
                         => journal'[c] \in {"started", "deleted"}
                    /\ pc'[c] = "raised" /\ target'[c] # NoCall /\ ~IsIntent(c)'
                         => moved'[c] \/ where'[target'[c]] = "deleted" \/ journal'[c] = "deleted"
  BY DEF AnswerInv
<1>1. target[c] \in Calls \cup {NoCall} /\ IsIntent(c)' = IsIntent(c)
  BY StagedStays DEF Stays, TypeInv, CallTypes, IsIntent
<1>2. target[c] # NoCall => /\ Staged(target[c]) /\ where'[target[c]] # "none"
                            /\ where[target[c]] = "deleted" => where'[target[c]] = "deleted"
  BY <1>1, StagedStays DEF Stays, AnswerInv, Staged
<1>3. CASE Keeps(c)
  BY <1>1, <1>2, <1>3 DEF Keeps, AnswerInv, Staged
<1>4. CASE Proceeds(c)
  <2>1. \A b \in Known : where'[b] # "none"
    BY StagedStays DEF Stays, Known, AnswerInv, Staged, TypeInv, CallTypes
  <2>2. \A t \in Requests : imports[t] # NoCall => where'[imports[t]] # "none"
    BY StagedStays DEF Stays, RecordInv, Staged, TypeInv, IntentTypes
  <2>3. target'[c] # NoCall => Staged(target[c])'
    BY <1>2, <1>4, <2>1, <2>2 DEF Proceeds, NowKnows, Staged
  <2> QED BY <1>1, <1>4, <2>3 DEF Proceeds, AnswerInv
<1>5. CASE Fails(c)
  <2>1. target[c] # NoCall /\ where[target[c]] \notin SearchDirs => where[target[c]] = "deleted"
    BY <1>1, <1>2 DEF SearchDirs, Staged, TypeInv, BundleTypes
  <2> QED BY <1>1, <1>2, <1>5, <2>1 DEF Fails, AnswerInv, Staged
<1> QED BY <1>3, <1>4, <1>5, WhatACallDoes
------------------------------------------------------------------------------
(* What a proposal is told *)

(* The bundle a proposal knows was staged for the same. *)
ToldInv ==
  \A c \in Calls : ask[c].tool \in Proposals /\ target[c] # NoCall =>
    ask[target[c]] = ask[c] /\ pin[target[c]] = pin[c]

(* A request key tells what is asked, and which patch. *)
LEMMA KeysTell ==
  ASSUME TypeInv, OnceInv, NEW b \in Calls, NEW c \in Calls,
         Staged(b), pc[c] = "looking", ask[c].tool \in Proposals, key[b] = key[c]
  PROVE  ask[b] = ask[c] /\ pin[b] = pin[c]
<1>1. /\ key[c] = ProposalKey(ask[c], pin[c])
      /\ ask[c].tool = "patch" \/ pin[c] = Inline
  BY DEF OnceInv, KeyInv, KeyFits, Proposals, Intents
<1>2. ask[b].tool \in Proposals \cup Intents /\ KeyFits(ask[b], key[b], pin[b])
  BY DEF OnceInv, KeyInv, LabelInv
<1>3. CASE ask[b].tool \in Intents
  <2>1. ask[b] # ask[c]
    BY <1>3 DEF Proposals, Intents
  <2>2. key[c] # CommandKey(ask[b])
    BY <1>1, <2>1 DEF ProposalKey, CommandKey, PatchKey, CommitKey, ActionKey
  <2>3. ASSUME NEW message, NEW paths
        PROVE  key[c] # ChangesKey(message, paths)
    BY <1>1 DEF ProposalKey, CommandKey, PatchKey, CommitKey, ActionKey, ChangesKey
  <2> QED BY <1>2, <1>3, <2>2, <2>3 DEF KeyFits
<1>4. CASE ask[b].tool \in Proposals
  <2>1. /\ key[b] = ProposalKey(ask[b], pin[b])
        /\ ask[b].tool = "patch" \/ pin[b] = Inline
    BY <1>2, <1>4 DEF KeyFits, Proposals, Intents
  <2> QED BY <1>1, <2>1 DEF ProposalKey, CommandKey, PatchKey, CommitKey, ActionKey
<1> QED BY <1>2, <1>3, <1>4

LEMMA NextToldInv ==
  ASSUME TypeInv, OnceInv, AnswerInv, ToldInv, [Next]_vars
  PROVE  ToldInv'
<1>1. \A c \in Calls : target[c] # NoCall =>
        target[c] \in Calls /\ Staged(target[c]) /\ pc[c] # "new"
  BY DEF AnswerInv, TypeInv, CallTypes
<1>2. ASSUME UNCHANGED <<ask, pin>>,
             \A c \in Calls : target'[c] = target[c] \/ ask[c].tool \notin Proposals
      PROVE  ToldInv'
  BY <1>2 DEF ToldInv
<1>3. CASE QuietStep
  <2>1. \A c \in Calls : target'[c] = target[c] \/ ask[c].tool = "wait"
    BY <1>3 DEF QuietStep
  <2> QED BY <1>2, <1>3, <2>1 DEF QuietStep, Proposals
<1>4. ASSUME NEW c \in Calls, LookStep(c)
      PROVE  ToldInv'
  <2>1. ~Staged(c) /\ pc[c] = "new"
    BY <1>4 DEF LookStep, OnceInv, FreshInv
  <2>2. UNCHANGED <<ask, target>> /\ \A d \in Calls : d # c => pin'[d] = pin[d]
    BY <1>4 DEF LookStep, TypeInv, CallTypes
  <2> QED BY <1>1, <2>1, <2>2 DEF ToldInv
<1>5. ASSUME NEW c \in Calls, MoveStep(c) \/ Execute(c) \/ RecordImport(c)
      PROVE  ToldInv'
  BY <1>2, <1>5 DEF MoveStep, Execute, Others, RecordImport
<1>6. ASSUME NEW c \in Calls, Import(c) \/ ImportMisses(c)
      PROVE  ToldInv'
  <2>1. IsIntent(c)
    BY <1>6 DEF Import, ImportMisses, OnceInv, LabelInv
  <2>2. UNCHANGED <<ask, pin>> /\ \A d \in Calls : d # c => target'[d] = target[d]
    BY <1>6 DEF Import, ImportMisses, TypeInv, CallTypes
  <2> QED BY <1>2, <2>1, <2>2 DEF IsIntent, Intents, Proposals
<1>7. ASSUME NEW c \in Calls, Approve(c)
      PROVE  ToldInv'
  <2>1. IsIntent(c) /\ ~Staged(c)
    BY <1>7 DEF Approve, OnceInv, LabelInv, FreshInv
  <2>2. UNCHANGED <<ask, target>> /\ \A d \in Calls : d # c => pin'[d] = pin[d]
    BY <1>7 DEF Approve, LookUp, TypeInv, CallTypes
  <2> QED BY <1>1, <2>1, <2>2 DEF ToldInv, IsIntent, Intents, Proposals
<1>8. ASSUME NEW c \in Calls, StageNew(c)
      PROVE  ToldInv'
  BY <1>8 DEF StageNew, ToldInv, TypeInv, CallTypes
<1>9. ASSUME NEW c \in Calls, StageExisting(c)
      PROVE  ToldInv'
  <2>1. PICK b \in SameRequest(key[c]) : target' = [target EXCEPT ![c] = b]
    BY <1>9 DEF StageExisting
  <2>2. pc[c] = "looking" /\ b \in Calls /\ Staged(b) /\ key[b] = key[c]
    BY <1>9, <2>1 DEF StageExisting, SameRequest, Staged, Active, Final
  <2>3. UNCHANGED <<ask, pin>>
    BY <1>9 DEF StageExisting
  <2>4. ask[c].tool \in Proposals => ask[b] = ask[c] /\ pin[b] = pin[c]
    BY <2>2, KeysTell
  <2> QED BY <2>1, <2>2, <2>3, <2>4 DEF ToldInv, TypeInv, CallTypes
<1>10. ASSUME NEW item \in Items \ {PayloadItem}, Delete(item)
       PROVE  ToldInv'
  BY <1>2, <1>10 DEF Delete
<1> QED BY <1>3, <1>4, <1>5, <1>6, <1>7, <1>8, <1>9, <1>10, KindsOfSteps
------------------------------------------------------------------------------
(* The theorems *)

LEMMA NextOnceInv == TypeInv /\ OnceInv /\ [Next]_vars => OnceInv'
<1> SUFFICES ASSUME TypeInv, OnceInv, [Next]_vars PROVE OnceInv'
  OBVIOUS
<1> QED BY KindsOfSteps, QuietKeepsOnce, LookKeepsOnce, MoveKeepsOnce, ExecuteKeepsOnce,
           StageNewKeepsOnce, StageExistingKeepsOnce, ImportKeepsOnce, ImportMissesKeepsOnce,
           ApproveKeepsOnce, RecordImportKeepsOnce, DeleteKeepsOnce

LEMMA InductiveOnce == Spec => [](TypeInv /\ OnceInv)
<1>1. Init => TypeInv /\ OnceInv
  BY InitTypeInv, InitOnceInv
<1>2. TypeInv /\ OnceInv /\ [Next]_vars => (TypeInv /\ OnceInv)'
  BY NextTypeInv, NextOnceInv
<1> QED BY <1>1, <1>2, PTL DEF Spec

(* A patch that is executed is the patch that was proposed, chunk by       *)
(* chunk, however many chunks there are and whatever is removed and staged *)
(* again meanwhile.                                                        *)
THEOREM PatchesAsProposed == Spec => []PatchAsProposed
<1>1. OnceInv => PatchAsProposed
  BY DEF OnceInv, PatchInv, PatchAsProposed
<1> QED BY <1>1, InductiveOnce, PTL

(* What a client asks for runs once: a repeated proposal and a repeated    *)
(* import are answered with the bundle of the first, but for the           *)
(* exceptions RunsOnce names.                                              *)
THEOREM AsksRunOnce == Spec => []RunsOnce
<1>1. TypeInv /\ OnceInv => RunsOnce
  <2> SUFFICES ASSUME TypeInv, OnceInv, NEW b1 \in Calls, NEW b2 \in Calls, b1 # b2,
                      ask[b1] = ask[b2], pin[b1] = pin[b2], ran[b1] # NoPatch, ran[b2] # NoPatch
               PROVE  Forgotten(ask[b1])
    BY DEF RunsOnce, Forgotten
  <2>1. Staged(b1) /\ Staged(b2)
    BY DEF OnceInv, FreshInv
  <2>2. ask[b1].tool \in Proposals \cup Intents
    BY <2>1 DEF OnceInv, LabelInv
  <2>3. CASE ask[b1].tool \in Proposals
    BY <2>1, <2>3 DEF OnceInv, ProposalsOnce
  <2>4. CASE ask[b1].tool \in Intents
    BY <2>1, <2>4 DEF OnceInv, IntentsOnce, IsIntent, Follows
  <2> QED BY <2>2, <2>3, <2>4
<1> QED BY <1>1, InductiveOnce, PTL

(* A client whose bundle is stored gets an answer: a call that knows its   *)
(* bundle raises only when that moved during the last search, when it or   *)
(* the journal record was cleaned up, or when one of its file operations   *)
(* failed; and a repeated proposal is told of the bundle that was stored   *)
(* for it, whatever became of the first answer, but for the exceptions of  *)
(* RunsOnce.                                                               *)
THEOREM AnswersFoundAgain == Spec => []LostAnswersFoundAgain
<1>1. Init => AnswerInv /\ RecordInv /\ ToldInv
  BY DEF Init, AnswerInv, RecordInv, ToldInv
<1>2. TypeInv /\ OnceInv /\ AnswerInv /\ RecordInv /\ ToldInv /\ [Next]_vars
        => AnswerInv' /\ RecordInv' /\ ToldInv'
  BY NextAnswerInv, NextRecordInv, NextToldInv
<1>3. TypeInv /\ OnceInv /\ AnswerInv /\ ToldInv => LostAnswersFoundAgain
  <2> SUFFICES ASSUME TypeInv, OnceInv, AnswerInv, ToldInv,
                      NEW c \in Calls, NEW d \in Calls, ask[c] = ask[d], pin[c] = pin[d],
                      ask[c].tool \in Proposals, target[c] # NoCall, target[d] # NoCall
               PROVE  target[c] = target[d] \/ Forgotten(ask[c])
    BY DEF AnswerInv, LostAnswersFoundAgain, Forgotten
  <2>1. target[c] \in Calls /\ target[d] \in Calls
    BY DEF TypeInv, CallTypes
  <2>2. Staged(target[c]) /\ Staged(target[d])
    BY DEF AnswerInv
  <2>3. ask[target[c]] = ask[c] /\ ask[target[d]] = ask[c]
        /\ pin[target[c]] = pin[c] /\ pin[target[d]] = pin[c]
    BY DEF ToldInv
  <2> QED BY <2>1, <2>2, <2>3 DEF OnceInv, ProposalsOnce
<1> QED BY <1>1, <1>2, <1>3, InductiveOnce, PTL DEF Spec
==============================================================================
