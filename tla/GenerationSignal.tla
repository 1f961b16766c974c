--------------------------- MODULE GenerationSignal ---------------------------
(***************************************************************************)
(* How the browser learns that a bundle moved.  Whoever moves a bundle     *)
(* writes a fresh token into .generation.json afterwards; the review       *)
(* server's long poll (/api/events) waits for a token other than the       *)
(* browser's, and then sends the state that goes with it.  The token may   *)
(* fail to be written, so the server also compares the modification times  *)
(* of the status directories with what it saw last.                        *)
(*                                                                         *)
(* The state of the directories is the number of moves made so far, and    *)
(* so is their signature: every move changes the time of two directories.  *)
(***************************************************************************)
EXTENDS FiniteSets, Naturals

CONSTANTS
  Movers,      \* processes that move a bundle and publish the change
  Browsers,    \* browser tabs, each with one request at a time
  MaxMoves,    \* bound: the moves made in all
  MaxTokens,   \* bound: the tokens written in all
  WriteMayFail,\* TRUE iff a mover's write of the token may fail (it is swallowed)
  Unreadable   \* no token: the file is missing or not a token

ASSUME SignalAssumption ==
  /\ MaxMoves \in Nat /\ MaxTokens \in Nat
  /\ WriteMayFail \in BOOLEAN
  /\ Unreadable \notin Nat

VARIABLES
  moves,     \* how many moves were made
  owing,     \* movers between their move and its publication
  token,     \* the token in .generation.json
  fresh,     \* the tokens written so far; the next one is new
  observed,  \* _generation_observations: the token and signature seen last
  cache,     \* _command_bundle_state_cache
  pc,        \* where each browser's request is
  sig,       \* the signature a request has read
  revision,  \* the token a request has got
  pending,   \* the state a request has read
  since,     \* the token each browser has
  shown      \* the state each browser shows

vars == <<moves, owing, token, fresh, observed, cache, pc, sig, revision, pending, since, shown>>
fileVars == <<moves, owing, token, fresh>>

Tokens == 1..MaxTokens
NoObservation == [token |-> 0, sig |-> 0]     \* the process has just started
NoCache == [revision |-> 0, moves |-> 0]

TypeOK ==
  /\ moves \in 0..MaxMoves
  /\ owing \subseteq Movers
  /\ token \in Tokens \cup {Unreadable}
  /\ fresh \in 0..MaxTokens
  /\ observed \in [token : Tokens \cup {0}, sig : 0..MaxMoves]
  /\ cache \in [revision : Tokens \cup {0}, moves : 0..MaxMoves]
  /\ pc \in [Browsers -> {"idle", "observing", "reconciling", "waiting", "looking", "reading", "storing", "replying"}]
  /\ sig \in [Browsers -> 0..MaxMoves]
  /\ \A c \in Browsers : revision[c] \in Tokens \cup
         IF pc[c] \in {"idle", "observing", "reconciling"} THEN {0, Unreadable} ELSE {}
  /\ pending \in [Browsers -> 0..MaxMoves]
  /\ since \in [Browsers -> Tokens \cup {0}]
  /\ shown \in [Browsers -> 0..MaxMoves]

Init ==
  /\ moves = 0 /\ owing = {}
  /\ token = Unreadable /\ fresh = 0
  /\ observed = NoObservation
  /\ cache = NoCache
  /\ pc = [c \in Browsers |-> "idle"]
  /\ sig = [c \in Browsers |-> 0]
  /\ revision = [c \in Browsers |-> 0]
  /\ pending = [c \in Browsers |-> 0]
  /\ since = [c \in Browsers |-> 0]
  /\ shown = [c \in Browsers |-> 0]

Goto(c, label) == pc' = [pc EXCEPT ![c] = label]
(* _bump_command_bundle_generation: a uuid nobody has seen. *)
Bump == /\ fresh < MaxTokens
        /\ fresh' = fresh + 1
        /\ token' = fresh + 1
------------------------------------------------------------------------------
(* Movers: _publish_command_bundle_change comes after the move. *)

MoveBundle(m) ==
  /\ m \notin owing
  /\ moves < MaxMoves
  /\ moves' = moves + 1
  /\ owing' = owing \cup {m}
  /\ UNCHANGED <<token, fresh, observed, cache, pc, sig, revision, pending, since, shown>>

PublishMove(m) ==
  /\ m \in owing
  /\ owing' = owing \ {m}
  /\ Bump \/ (WriteMayFail /\ UNCHANGED <<token, fresh>>)
  /\ UNCHANGED <<moves, observed, cache, pc, sig, revision, pending, since, shown>>
------------------------------------------------------------------------------
(* _command_bundle_generation with reconciliation *)

(* The directories are read before the lock is taken. *)
ReadSignature(c) ==
  /\ pc[c] \in {"idle", "waiting"}
  /\ sig' = [sig EXCEPT ![c] = moves]
  /\ Goto(c, "observing")
  /\ UNCHANGED <<fileVars, observed, cache, revision, pending, since, shown>>

(* _generation_observation_lock: one request at a time, but the movers are *)
(* other processes and may write a token meanwhile.                        *)
ReadToken(c) ==
  /\ pc[c] = "observing"
  /\ \A d \in Browsers : pc[d] # "reconciling"
  /\ revision' = [revision EXCEPT ![c] = token]
  /\ Goto(c, "reconciling")
  /\ UNCHANGED <<fileVars, observed, cache, sig, pending, since, shown>>

(* MUTANT: the directories are not compared. *)
OnlyUnreadable(c) == revision[c] = Unreadable \/ observed = NoObservation
(* MUTANT: a missing token is not noticed. *)
OnlyChanged(c) == sig[c] # observed.sig /\ revision[c] = observed.token

(* No token, a first look, or a directory that changed under the old token. *)
NeedsReconciliation(c) ==
  \/ revision[c] = Unreadable
  \/ observed = NoObservation
  \/ sig[c] # observed.sig /\ revision[c] = observed.token

(* The rest of the locked block, and the comparison with `since`. *)
Observe(c, t) ==
  /\ observed' = [token |-> t, sig |-> sig[c]]
  /\ revision' = [revision EXCEPT ![c] = t]
  /\ Goto(c, IF t = since[c] THEN "waiting" ELSE "looking")
  /\ UNCHANGED <<moves, owing, cache, sig, pending, since, shown>>

Reconcile(c) ==
  /\ pc[c] = "reconciling"
  /\ \/ NeedsReconciliation(c) /\ Bump /\ Observe(c, token')
     \/ ~NeedsReconciliation(c) /\ UNCHANGED <<token, fresh>> /\ Observe(c, revision[c])

(* EVENT_TIMEOUT_SECONDS are over: the state is sent all the same. *)
StopWaiting(c) ==
  /\ pc[c] = "waiting"
  /\ Goto(c, "looking")
  /\ UNCHANGED <<fileVars, observed, cache, sig, revision, pending, since, shown>>
------------------------------------------------------------------------------
(* command_bundle_state *)

LookUp(c) ==
  /\ pc[c] = "looking"
  /\ IF cache.revision = revision[c]
     THEN pending' = [pending EXCEPT ![c] = cache.moves] /\ Goto(c, "replying")
     ELSE Goto(c, "reading") /\ UNCHANGED pending
  /\ UNCHANGED <<fileVars, observed, cache, sig, revision, since, shown>>

ReadPending(c) ==
  /\ pc[c] = "reading"
  /\ pending' = [pending EXCEPT ![c] = moves]
  /\ Goto(c, "storing")
  /\ UNCHANGED <<fileVars, observed, cache, sig, revision, since, shown>>

(* MUTANT: the state is kept under the newest token. *)
StoreUnderLatest(c) ==
  /\ pc[c] = "storing"
  /\ cache' = [revision |-> observed.token, moves |-> pending[c]]
  /\ Goto(c, "replying")
  /\ UNCHANGED <<fileVars, observed, sig, revision, pending, since, shown>>

StoreState(c) ==
  /\ pc[c] = "storing"
  /\ cache' = [revision |-> revision[c], moves |-> pending[c]]
  /\ Goto(c, "replying")
  /\ UNCHANGED <<fileVars, observed, sig, revision, pending, since, shown>>

Reply(c) ==
  /\ pc[c] = "replying"
  /\ since' = [since EXCEPT ![c] = revision[c]]
  /\ shown' = [shown EXCEPT ![c] = pending[c]]
  /\ Goto(c, "idle")
  /\ UNCHANGED <<fileVars, observed, cache, sig, revision, pending>>
------------------------------------------------------------------------------
Request(c) == ReadSignature(c) \/ ReadToken(c) \/ Reconcile(c) \/ LookUp(c) \/ ReadPending(c)
              \/ StoreState(c) \/ Reply(c)
Next == \/ \E m \in Movers : MoveBundle(m) \/ PublishMove(m)
        \/ \E c \in Browsers : Request(c) \/ StopWaiting(c)

Spec == Init /\ [][Next]_vars
(* A tab asks again when it is answered, a request gets the lock in the    *)
(* end, and a mover that moved publishes.                                  *)
LiveSpec == Spec /\ (\A c \in Browsers : WF_vars(Request(c)) /\ SF_vars(ReadToken(c)))
                 /\ (\A m \in Movers : WF_vars(PublishMove(m)))
------------------------------------------------------------------------------
(* The next request notices the directories and writes a new token. *)
WillBeNoticed == observed.token = token /\ observed.sig # moves

(* A tab that holds the current token, and so waits, shows the current     *)
(* state or is about to be told: nothing is missed for good, also if the   *)
(* token of a move was never written, and also before it is.               *)
CurrentTokenMeansCurrent ==
  \A c \in Browsers : since[c] = token => shown[c] = moves \/ WillBeNoticed

(* Every move is shown by every tab in the end, also if its token was      *)
(* never written (bundles.py:298 "Review polling reconciles                *)
(* status-directory metadata when this write fails").                      *)
MovesAreShown ==
  \A c \in Browsers : \A n \in 1..MaxMoves : (moves >= n) ~> (shown[c] >= n)
==============================================================================
