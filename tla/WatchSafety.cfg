CONSTANTS
  b1 = b1
  b2 = b2
  w1 = w1
  w2 = w2
  r1 = r1
  r2 = r2
  User = User
  Bundles <- OneBundle
  Scoped <- OneBundle
  Low <- OneBundle
  Watchers <- TwoWatchers
  Modes <- AllModes
  Savers <- TwoSavers
  SavesMayFail = FALSE
  Notifies = TRUE
  MayRestart <- None_
  MayKill = TRUE
  Clicks <- None_
SPECIFICATION Spec
SYMMETRY ActorSymmetry
INVARIANTS TypeOK SeenAccounted AutoOnlyAsConfigured
