CONSTANTS
  b1 = b1
  b2 = b2
  r1 = r1
  r2 = r2
  j1 = j1
  c1 = c1
  w1 = w1
  w2 = w2
  None = None
  Bundles <- OneBundle
  Runners <- TwoRunners
  Rejecters <- OneRejecter
  Cancellers <- NoOne
  Watchers <- OneWatcher
  MayAge <- NoOne
  MayCrash <- Everyone
  MayFail <- Everyone
  PidReuse = TRUE
SPECIFICATION Spec
SYMMETRY RunnerSymmetry
INVARIANTS OneCanonicalRecord HandoffAgrees RejectedNeverExecuted
PROPERTIES SweepSparesLiveOwner ImplementsLifecycle
