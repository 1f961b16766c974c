------------------------- MODULE MCApprovalWatcher -------------------------
(* ApprovalWatcher with one or two bundles and watchers. *)
EXTENDS ApprovalWatcher, TLC

CONSTANTS b1, b2, w1, w2, r1, r2

OneBundle == {b1}
TwoBundles == {b1, b2}
OneWatcher == {w1}
TwoWatchers == {w1, w2}
None_ == {}
OneSaver == {r1}
TwoSavers == {r1, r2}
AllModes == {"normal", "safe-auto", "yolo"}
AutoModes == {"normal", "yolo"}
JustApprove == {"approve"}
JustReject == {"reject"}
ActorSymmetry == Permutations(Savers) \cup Permutations(Watchers)
BothClicks == {"approve", "reject"}
==============================================================================
