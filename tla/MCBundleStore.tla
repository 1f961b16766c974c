--------------------------- MODULE MCBundleStore ---------------------------
(* BundleStore on small sets of bundles and processes. *)
EXTENDS BundleStore, TLC

CONSTANTS b1, b2, r1, r2, j1, c1, w1, w2

OneBundle == {b1}
TwoBundles == {b1, b2}
OneRunner == {r1}
TwoRunners == {r1, r2}
OneRejecter == {j1}
OneCanceller == {c1}
OneWatcher == {w1}
TwoWatchers == {w1, w2}
NoOne == {}
RunnersAndRejecter == {r1, r2, j1}
RunnersAndWatcher == {r1, r2, w1}
Everyone == Procs
RunnerSymmetry == Permutations(Runners)
=============================================================================
