CONSTANTS
  b1 = b1
  b2 = b2
  r1 = r1
  r2 = r2
  j1 = j1
  c1 = c1
  w1 = w1
  w2 = w2
  None = None
  Bundles <- OneBundle
  Runners <- TwoRunners
  Rejecters <- NoOne
  Cancellers <- OneCanceller
  Watchers <- OneWatcher
  MayAge <- OneBundle
  MayCrash <- OneRunner
  MayFail <- NoOne
  PidReuse = FALSE
SPECIFICATION LiveSpec
INVARIANTS TypeOK AtMostOnceExecution
PROPERTIES ClaimResolves SweepClearsOrphans
