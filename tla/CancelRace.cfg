CONSTANTS
  b1 = b1
  b2 = b2
  r1 = r1
  r2 = r2
  j1 = j1
  c1 = c1
  w1 = w1
  w2 = w2
  None = None
  Bundles <- OneBundle
  Runners <- OneRunner
  Rejecters <- NoOne
  Cancellers <- OneCanceller
  Watchers <- OneWatcher
  MayAge <- NoOne
  MayCrash <- NoOne
  MayFail <- NoOne
  PidReuse = FALSE
SPECIFICATION Spec
INVARIANT RejectedNeverExecuted
