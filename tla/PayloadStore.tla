---------------------------- MODULE PayloadStore ----------------------------
(***************************************************************************)
(* One text payload of terminal_bridge/payloads.py: its chunk files and    *)
(* its manifest under TEXT_PAYLOAD_DIR.  The MCP server stages one chunk   *)
(* at a time; the runner reads the files and a cleanup removes them        *)
(* meanwhile, both in processes of their own.  A chunk file is written in  *)
(* place, the manifest atomically.                                         *)
(***************************************************************************)
EXTENDS Naturals, FiniteSets

CONSTANTS
  NChunks,    \* total_chunks of the payload
  Offers,     \* Offers[i]: the texts the client may stage as chunk i
  MaxStages,  \* how many chunks the client stages, repetitions included
  MaxStops    \* how often a server dies, or a file operation of it fails

Chunks == 0..(NChunks - 1)
Gone == "gone"    \* there is no such file
Empty == "empty"  \* write_text has opened the file and not yet filled it

ASSUME ChunksAssumption == NChunks \in Nat \ {0} /\ MaxStages \in Nat /\ MaxStops \in Nat
Texts == UNION {Offers[i] : i \in Chunks}
ASSUME OffersAssumption == DOMAIN Offers = Chunks /\ Texts \cap {Gone, Empty} = {}

VARIABLES
  chunk,     \* chunk[i]: what is in chunk file i
  manifest,  \* "none", or whether the manifest says "partial" or "complete"
  staging,   \* what the server's call of _stage_text_payload_chunk is at
  stages,    \* how many calls there have been
  stops,     \* how many of them, or of other calls of a server, were cut short
  acked,     \* acked[i]: the text a call that returned staged as chunk i (history)
  doomed,    \* the files of the payload a cleanup has listed and not removed yet
  spoiled    \* a cleanup or a stopped call has touched the payload (history)

payloadVars == <<chunk, manifest, staging, stages, stops, acked, doomed, spoiled>>

NotStaging == [at |-> "idle", index |-> 0, text |-> Gone, complete |-> FALSE]
Stagings == [at : {"idle", "look", "write", "count", "save"}, index : Chunks,
             text : Texts \cup {Gone}, complete : BOOLEAN]
Files == Chunks \cup {NChunks}     \* the last one stands for the manifest
ManifestFile == NChunks

PayloadTypeOK ==
  /\ chunk \in [Chunks -> Texts \cup {Gone, Empty}]
  /\ manifest \in {"none", "partial", "complete"}
  /\ staging \in Stagings
  /\ stages \in 0..MaxStages
  /\ stops \in 0..MaxStops
  /\ acked \in [Chunks -> Texts \cup {Gone}]
  /\ doomed \subseteq Files
  /\ spoiled \in BOOLEAN

PayloadInit ==
  /\ chunk = [i \in Chunks |-> Gone]
  /\ manifest = "none"
  /\ staging = NotStaging
  /\ stages = 0
  /\ stops = 0
  /\ acked = [i \in Chunks |-> Gone]
  /\ doomed = {}
  /\ spoiled = FALSE

Here == chunk[staging.index]
StagingAt(label) == staging.at = label
GoOn(label) == staging' = [staging EXCEPT !.at = label]
PutChunk(t) == chunk' = [chunk EXCEPT ![staging.index] = t]
------------------------------------------------------------------------------
(* _stage_text_payload_chunk *)

StageChunk(i, t) ==
  /\ StagingAt("idle")
  /\ stages < MaxStages
  /\ stages' = stages + 1
  /\ staging' = [at |-> "look", index |-> i, text |-> t, complete |-> FALSE]
  /\ UNCHANGED <<chunk, manifest, stops, acked, doomed, spoiled>>

(* MUTANT: a chunk that is there already is not compared. *)
KeepAnyChunk ==
  /\ StagingAt("look")
  /\ Here # Gone
  /\ GoOn("count")
  /\ UNCHANGED <<chunk, manifest, stages, stops, acked, doomed, spoiled>>

KeepChunk ==
  /\ StagingAt("look")
  /\ Here = staging.text
  /\ GoOn("count")
  /\ UNCHANGED <<chunk, manifest, stages, stops, acked, doomed, spoiled>>

(* "already exists with different content" *)
RefuseChunk ==
  /\ StagingAt("look")
  /\ Here \notin {Gone, staging.text}
  /\ staging' = NotStaging
  /\ UNCHANGED <<chunk, manifest, stages, stops, acked, doomed, spoiled>>

CreateChunk ==
  /\ StagingAt("look")
  /\ Here = Gone
  /\ PutChunk(Empty)
  /\ GoOn("write")
  /\ UNCHANGED <<manifest, stages, stops, acked, doomed, spoiled>>

(* A file that was unlinked since it was opened stays unlinked. *)
FillChunk ==
  /\ StagingAt("write")
  /\ IF Here = Gone THEN UNCHANGED chunk ELSE PutChunk(staging.text)
  /\ GoOn("count")
  /\ UNCHANGED <<manifest, stages, stops, acked, doomed, spoiled>>

CountChunks ==
  /\ StagingAt("count")
  /\ staging' = [staging EXCEPT !.at = "save",
                                !.complete = \A i \in Chunks : chunk[i] # Gone]
  /\ UNCHANGED <<chunk, manifest, stages, stops, acked, doomed, spoiled>>

SaveManifest ==
  /\ StagingAt("save")
  /\ manifest' = IF staging.complete THEN "complete" ELSE "partial"
  /\ acked' = [acked EXCEPT ![staging.index] = staging.text]
  /\ staging' = NotStaging
  /\ UNCHANGED <<chunk, stages, stops, doomed, spoiled>>

(* The server dies, or a file operation raises: what is done stays done. *)
CutShort ==
  /\ spoiled' = (spoiled \/ StagingAt("write"))
  /\ staging' = NotStaging
  /\ UNCHANGED <<chunk, manifest, stages, acked, doomed>>

Stops ==
  /\ stops < MaxStops
  /\ stops' = stops + 1

StopStaging ==
  /\ Stops
  /\ ~StagingAt("idle")
  /\ CutShort

StagingStep == KeepChunk \/ RefuseChunk \/ CreateChunk \/ FillChunk \/ CountChunks \/ SaveManifest
------------------------------------------------------------------------------
(* _validate_text_payload_ref; the chunks it has seen cannot change before *)
(* the same call of the server reads them, they can only go away.          *)
Readable == manifest = "complete" /\ \A i \in Chunks : chunk[i] # Gone

(* _delete_path lists the directory, then removes one file after the other. *)
ListFiles ==
  doomed' = {i \in Chunks : chunk[i] # Gone} \cup (IF manifest = "none" THEN {} ELSE {ManifestFile})

RemoveFile(f) ==
  /\ f \in doomed
  /\ doomed' = doomed \ {f}
  /\ chunk' = [i \in Chunks |-> IF i = f THEN Gone ELSE chunk[i]]
  /\ manifest' = IF f = ManifestFile THEN "none" ELSE manifest
  /\ LET nothingLeft == manifest' = "none" /\ \A i \in Chunks : chunk'[i] = Gone
         anew == nothingLeft /\ StagingAt("idle")
     IN /\ spoiled' = ~anew
        /\ acked' = IF anew THEN [i \in Chunks |-> Gone] ELSE acked
  /\ UNCHANGED <<staging, stages, stops>>
------------------------------------------------------------------------------
(* A manifest that says "complete" stands for a whole payload: every chunk *)
(* is there, whole, and is what the call that staged it was told           *)
(* (payloads.py:72 "already exists with different content").  A cleanup in *)
(* the middle, and a server that died while it wrote a chunk, excuse it.   *)
CompleteMeansWhole ==
  manifest = "complete" /\ ~spoiled =>
    \A i \in Chunks : chunk[i] \in Texts /\ acked[i] \in {Gone, chunk[i]}
==============================================================================
