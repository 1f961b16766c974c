----------------------- MODULE GenerationSignalProofs -----------------------
(***************************************************************************)
(* Theorems about GenerationSignal, for any number of movers and tabs, and *)
(* any number of moves, tokens and failed writes.                          *)
(***************************************************************************)
EXTENDS GenerationSignal, TLAPS

(* Where a request has got a token that was observed. *)
Observing == {"waiting", "looking", "reading", "storing", "replying"}

RevisionInv ==
  /\ revision \in [Browsers -> Tokens \cup {0, Unreadable}]
  /\ \A c \in Browsers : pc[c] = "reconciling" => revision[c] \in Tokens \cup {Unreadable}

TypeInv == TypeOK /\ RevisionInv

(* Tokens grow, and so does the observed one; whatever was read under the  *)
(* observed token is no older than the signature it was observed with.     *)
OrderInv ==
  /\ token = IF fresh = 0 THEN Unreadable ELSE fresh
  /\ observed.token <= fresh /\ observed.sig <= moves
  /\ cache.revision <= observed.token /\ cache.moves <= moves
  /\ cache.revision = observed.token => cache.moves >= observed.sig
  /\ \A c \in Browsers :
       /\ sig[c] <= moves /\ pending[c] <= moves /\ shown[c] <= moves
       /\ since[c] <= observed.token
       /\ since[c] = observed.token => shown[c] >= observed.sig
       /\ pc[c] = "reconciling" => revision[c] = Unreadable \/ revision[c] \in observed.token..fresh
       /\ pc[c] \in Observing => revision[c] \in 1..observed.token
       /\ pc[c] \in {"storing", "replying"} /\ revision[c] = observed.token
            => pending[c] >= observed.sig

(* One request is inside the observation lock. *)
LockInv ==
  \A c, d \in Browsers : pc[c] = "reconciling" /\ pc[d] = "reconciling" => c = d

SignalInv == TypeInv /\ LockInv /\ OrderInv

LEMMA InitSignal == Init => SignalInv
<1> SUFFICES ASSUME Init PROVE SignalInv
  OBVIOUS
<1> USE SignalAssumption DEF Init
<1>1. /\ moves \in 0..MaxMoves /\ owing \subseteq Movers
      /\ token \in Tokens \cup {Unreadable} /\ fresh \in 0..MaxTokens
      /\ observed \in [token : Tokens \cup {0}, sig : 0..MaxMoves]
      /\ cache \in [revision : Tokens \cup {0}, moves : 0..MaxMoves]
  BY DEF NoObservation, NoCache
<1>2. /\ pc \in [Browsers -> {"idle", "observing", "reconciling", "waiting", "looking", "reading", "storing", "replying"}]
      /\ sig \in [Browsers -> 0..MaxMoves] /\ pending \in [Browsers -> 0..MaxMoves]
      /\ since \in [Browsers -> Tokens \cup {0}] /\ shown \in [Browsers -> 0..MaxMoves]
  OBVIOUS
<1>3. revision \in [Browsers -> Tokens \cup {0, Unreadable}]
  OBVIOUS
<1>4. TypeInv BY <1>1, <1>2, <1>3 DEF TypeInv, TypeOK, RevisionInv
<1>5. LockInv BY DEF LockInv
<1>6. OrderInv BY DEF OrderInv, Observing, NoObservation, NoCache
<1> QED BY <1>4, <1>5, <1>6 DEF SignalInv

(* Movers. *)
LEMMA MoverKeeps ==
  ASSUME SignalInv, NEW m \in Movers, MoveBundle(m) \/ PublishMove(m)
  PROVE  SignalInv'
<1> USE SignalAssumption DEF SignalInv, TypeInv, TypeOK, RevisionInv, Tokens
<1>1. UNCHANGED <<observed, cache, pc, sig, revision, pending, since, shown>>
  BY DEF MoveBundle, PublishMove
<1>2. LockInv' BY <1>1 DEF LockInv
<1>3. CASE MoveBundle(m)
  <2>1. moves' = moves + 1 /\ moves' \in 0..MaxMoves /\ UNCHANGED <<token, fresh>>
        /\ owing' \subseteq Movers
    BY <1>3 DEF MoveBundle
  <2>2. TypeInv' BY <1>1, <2>1
  <2>3. OrderInv' BY <1>1, <2>1 DEF OrderInv
  <2> QED BY <1>2, <2>2, <2>3
<1>4. CASE PublishMove(m)
  <2>1. /\ UNCHANGED moves /\ owing' \subseteq Movers
        /\ \/ UNCHANGED <<token, fresh>>
           \/ fresh < MaxTokens /\ fresh' = fresh + 1 /\ token' = fresh + 1
    BY <1>4 DEF PublishMove, Bump
  <2>2. TypeInv' BY <1>1, <2>1
  <2>3. OrderInv' BY <1>1, <2>1 DEF OrderInv
  <2> QED BY <1>2, <2>2, <2>3
<1> QED BY <1>3, <1>4

(* The part of a request before the comparison, and the part after it. *)
LEMMA RequestKeeps ==
  ASSUME SignalInv, NEW c \in Browsers,
         \/ ReadSignature(c) \/ ReadToken(c) \/ StopWaiting(c) \/ LookUp(c)
         \/ ReadPending(c) \/ StoreState(c) \/ Reply(c)
  PROVE  SignalInv'
<1> USE SignalAssumption DEF SignalInv, TypeInv, TypeOK, RevisionInv, Tokens, Goto, fileVars
<1>1. CASE ReadSignature(c)
  <2>1. TypeInv' BY <1>1 DEF ReadSignature
  <2>2. LockInv' BY <1>1 DEF ReadSignature, LockInv
  <2>3. OrderInv' BY <1>1 DEF ReadSignature, OrderInv, Observing
  <2> QED BY <2>1, <2>2, <2>3
<1>2. CASE ReadToken(c)
  <2>1. TypeInv' BY <1>2 DEF ReadToken
  <2>2. LockInv' BY <1>2 DEF ReadToken, LockInv
  <2>3. OrderInv' BY <1>2 DEF ReadToken, OrderInv, Observing
  <2> QED BY <2>1, <2>2, <2>3
<1>3. CASE StopWaiting(c)
  <2>1. TypeInv' BY <1>3 DEF StopWaiting
  <2>2. LockInv' BY <1>3 DEF StopWaiting, LockInv
  <2>3. OrderInv' BY <1>3 DEF StopWaiting, OrderInv, Observing
  <2> QED BY <2>1, <2>2, <2>3
<1>4. CASE LookUp(c)
  <2>1. TypeInv' BY <1>4 DEF LookUp
  <2>2. LockInv' BY <1>4 DEF LookUp, LockInv
  <2>3. OrderInv' BY <1>4 DEF LookUp, OrderInv, Observing
  <2> QED BY <2>1, <2>2, <2>3
<1>5. CASE ReadPending(c)
  <2>1. TypeInv' BY <1>5 DEF ReadPending
  <2>2. LockInv' BY <1>5 DEF ReadPending, LockInv
  <2>3. OrderInv' BY <1>5 DEF ReadPending, OrderInv, Observing
  <2> QED BY <2>1, <2>2, <2>3
<1>6. CASE StoreState(c)
  <2>1. TypeInv' BY <1>6 DEF StoreState
  <2>2. LockInv' BY <1>6 DEF StoreState, LockInv
  <2>3. OrderInv' BY <1>6 DEF StoreState, OrderInv, Observing
  <2> QED BY <2>1, <2>2, <2>3
<1>7. CASE Reply(c)
  <2>1. TypeInv' BY <1>7 DEF Reply
  <2>2. LockInv' BY <1>7 DEF Reply, LockInv
  <2>3. OrderInv' BY <1>7 DEF Reply, OrderInv, Observing
  <2> QED BY <2>1, <2>2, <2>3
<1> QED BY <1>1, <1>2, <1>3, <1>4, <1>5, <1>6, <1>7

(* The comparison under the lock: if the token was observed before, then   *)
(* with the signature c has read, and otherwise it is newer than all that  *)
(* anyone knows.                                                           *)
LEMMA ReconcileKeeps ==
  ASSUME SignalInv, NEW c \in Browsers, Reconcile(c)
  PROVE  SignalInv'
<1> USE SignalAssumption DEF SignalInv, TypeInv, TypeOK, RevisionInv, Tokens
<1>1. PICK t \in Tokens :
        /\ Observe(c, t)
        /\ \/ t = fresh + 1 /\ fresh' = t /\ token' = t
           \/ UNCHANGED <<token, fresh>> /\ t = revision[c] /\ ~NeedsReconciliation(c)
  <2>1. CASE NeedsReconciliation(c) /\ Bump /\ Observe(c, token')
    BY <2>1 DEF Bump
  <2>2. CASE ~NeedsReconciliation(c) /\ UNCHANGED <<token, fresh>> /\ Observe(c, revision[c])
    BY <2>2 DEF Reconcile, NeedsReconciliation
  <2> QED BY <2>1, <2>2 DEF Reconcile
<1>2. /\ UNCHANGED <<moves, owing, cache, sig, pending, since, shown>>
      /\ observed' = [token |-> t, sig |-> sig[c]]
      /\ revision' = [revision EXCEPT ![c] = t]
      /\ pc' = [pc EXCEPT ![c] = "waiting"] \/ pc' = [pc EXCEPT ![c] = "looking"]
  BY <1>1 DEF Observe, Goto
<1>3. /\ fresh' \in 0..MaxTokens /\ fresh <= fresh'
      /\ t <= fresh'
      /\ token' = IF fresh' = 0 THEN Unreadable ELSE fresh'
      /\ token' \in Tokens \cup {Unreadable}
  BY <1>1 DEF Reconcile, OrderInv
<1>4. t > observed.token \/ (t = observed.token /\ sig[c] = observed.sig)
  BY <1>1 DEF Reconcile, OrderInv, NeedsReconciliation
<1>5. TypeInv' BY <1>1, <1>2, <1>3
<1>6. pc[c] = "reconciling" BY DEF Reconcile
<1>7. LockInv' BY <1>2 DEF LockInv
<1>8. observed'.token = t /\ observed'.sig = sig[c] BY <1>2
<1>9. \A d \in Browsers : /\ pc'[d] # "reconciling"
                          /\ d # c => pc'[d] = pc[d] /\ revision'[d] = revision[d]
                          /\ pc'[c] \in {"waiting", "looking"} /\ revision'[c] = t
  BY <1>2, <1>6 DEF LockInv
<1>10. OrderInv'
  <2>1. /\ t <= fresh' /\ sig[c] <= moves
        /\ cache.revision <= t /\ cache.moves <= moves
        /\ cache.revision = t => cache.moves >= sig[c]
    BY <1>3, <1>4 DEF OrderInv
  <2>2. ASSUME NEW d \in Browsers
        PROVE  /\ sig[d] <= moves /\ pending[d] <= moves /\ shown[d] <= moves
               /\ since[d] <= t
               /\ since[d] = t => shown[d] >= sig[c]
               /\ pc'[d] \in Observing => revision'[d] \in 1..t
               /\ pc'[d] \in {"storing", "replying"} /\ revision'[d] = t => pending[d] >= sig[c]
    <3>1. CASE d = c BY <1>1, <1>4, <1>9, <3>1 DEF OrderInv
    <3>2. CASE d # c BY <1>1, <1>4, <1>9, <3>2 DEF OrderInv, Observing
    <3> QED BY <3>1, <3>2
  <2> QED BY <1>2, <1>3, <1>8, <1>9, <2>1, <2>2 DEF OrderInv
<1> QED BY <1>5, <1>7, <1>10

(* Tokens, observations and what was read under them never run ahead of    *)
(* each other: the inductive invariant of the theorem below.               *)
THEOREM SignalOrdered == Spec => []SignalInv
<1>1. ASSUME SignalInv, [Next]_vars PROVE SignalInv'
  <2>1. CASE UNCHANGED vars
    BY <1>1, <2>1 DEF vars, SignalInv, TypeInv, TypeOK, RevisionInv, LockInv, OrderInv
  <2>2. CASE Next
    BY <1>1, <2>2, MoverKeeps, RequestKeeps, ReconcileKeeps DEF Next, Request
  <2> QED BY <1>1, <2>1, <2>2
<1> QED BY InitSignal, <1>1, PTL DEF Spec

(* The type invariant of the signal and the long poll (bundles.py:136-214, *)
(* command_bundle_review_server.py:339-354): in particular no request is   *)
(* answered without a token.                                               *)
THEOREM TypesCorrect == Spec => []TypeOK
<1>1. SignalInv => TypeOK BY DEF SignalInv, TypeInv
<1> QED BY SignalOrdered, <1>1, PTL

(* A tab that has the current token shows the current state, or the        *)
(* directories differ from what was observed with that token, so that the  *)
(* next request writes a new one: no move is missed for good, however many *)
(* movers fail to write their token and however requests overtake each     *)
(* other (bundles.py:296-300, command_bundle_review_server.py:354).        *)
THEOREM CurrentIsCurrent == Spec => []CurrentTokenMeansCurrent
<1>1. SignalInv => CurrentTokenMeansCurrent
  <2> SUFFICES ASSUME SignalInv, NEW c \in Browsers, since[c] = token, shown[c] # moves
               PROVE  observed.token = token /\ observed.sig # moves
    BY DEF CurrentTokenMeansCurrent, WillBeNoticed
  <2> USE SignalAssumption DEF SignalInv, TypeInv, TypeOK, Tokens
  <2>1. token = fresh /\ observed.token = token BY DEF OrderInv
  <2>2. shown[c] >= observed.sig /\ shown[c] <= moves BY <2>1 DEF OrderInv
  <2> QED BY <2>1, <2>2
<1> QED BY SignalOrdered, <1>1, PTL
==============================================================================
