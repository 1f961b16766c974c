---------------------------- MODULE MCSubmissions ----------------------------
(* Submissions with two calls and a payload of two chunks. *)
EXTENDS Submissions

CONSTANTS k1, k2, x, y, clean, dirty, other

TwoCalls == {k1, k2}
(* The first chunk may be staged with another text. *)
FirstVaries == [i \in 0..1 |-> IF i = 0 THEN {x, y} ELSE {x}]
ThreeTrees == {clean, dirty, other}
OneMessage == [t \in 1..2 |-> "message"]

Ask(t) == [tool |-> t, request |-> 1]
(* A proposal or an intent that is repeated, one that is waited for again, *)
(* a patch by reference, and the other tools once.                         *)
Pairs ==
  {<<t, t>> : t \in {"command"} \cup Intents}
    \cup {<<"command", "wait">>}
    \cup {<<t, "nothing">> : t \in Proposals \ {"command"}}
TwoAsks == {[c \in TwoCalls |-> Ask(IF c = k1 THEN p[1] ELSE p[2])] : p \in Pairs}
==============================================================================
