------------------------- MODULE MCGenerationSignal -------------------------
(* GenerationSignal with one or two movers and tabs. *)
EXTENDS GenerationSignal, TLC

CONSTANTS m1, m2, c1, c2

OneMover == {m1}
TwoMovers == {m1, m2}
OneBrowser == {c1}
TwoBrowsers == {c1, c2}
SignalSymmetry == Permutations(Movers) \cup Permutations(Browsers)
==============================================================================
