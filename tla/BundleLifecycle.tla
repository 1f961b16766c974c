--------------------------- MODULE BundleLifecycle ---------------------------
(***************************************************************************)
(* What the bundle store promises, without files, locks or processes: the *)
(* lifecycle drawn in docs/project/bundle-runtime-simplification-plan.md   *)
(* (45-58) and implemented by terminal_bridge/bundles.py.  A bundle is     *)
(* submitted once; a pending bundle is either rejected or claimed; only a  *)
(* claimed bundle may have side effects, and it has them at most once; a   *)
(* final state is never left.                                              *)
(***************************************************************************)
CONSTANT Bundles

VARIABLES
  status,   \* the one canonical status of every bundle
  ran       \* the bundles whose steps somebody started to execute

lcVars == <<status, ran>>

LifecycleStatuses ==
  {"absent", "pending", "running", "applied", "failed", "interrupted", "rejected"}

Init == /\ status = [b \in Bundles |-> "absent"]
        /\ ran = {}

(* One bundle goes from status s to status t; nothing else moves. *)
Move(b, s, t) == /\ status[b] = s
                 /\ status' = [status EXCEPT ![b] = t]

Submit(b) == Move(b, "absent", "pending") /\ UNCHANGED ran
Reject(b) == Move(b, "pending", "rejected") /\ UNCHANGED ran
Claim(b)  == Move(b, "pending", "running") /\ UNCHANGED ran

(* The side effects start: only while running, and only once. *)
Execute(b) == /\ status[b] = "running"
              /\ b \notin ran
              /\ ran' = ran \cup {b}
              /\ UNCHANGED status

(* "interrupted" also ends a bundle whose owner died before its first step. *)
Finish(b) == /\ \E t \in {"applied", "failed", "interrupted"} :
                  /\ t = "interrupted" \/ b \in ran
                  /\ Move(b, "running", t)
             /\ UNCHANGED ran

Next == \E b \in Bundles :
          Submit(b) \/ Reject(b) \/ Claim(b) \/ Execute(b) \/ Finish(b)

Spec == Init /\ [][Next]_lcVars
==============================================================================
