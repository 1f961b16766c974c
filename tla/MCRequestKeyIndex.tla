-------------------------- MODULE MCRequestKeyIndex --------------------------
(* RequestKeyIndex with two or four submissions of one request. *)
EXTENDS RequestKeyIndex, TLC

CONSTANTS s1, s2, s3, s4

TwoStagers == {s1, s2}
FourStagers == {s1, s2, s3, s4}
OneStager == {s1}
NoOne == {}
(* Bound: every claimed bundle is still running, every other is rejected or *)
(* pending.                                                                *)
NoneFinished == \A b \in Stagers : dir[b] \in {"none"} \cup Active \cup {"rejected"}
StagerSymmetry == Permutations(Stagers)
==============================================================================
