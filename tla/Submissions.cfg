CONSTANTS
  k1 = k1
  k2 = k2
  x = x
  y = y
  clean = clean
  dirty = dirty
  other = other
  NChunks = 2
  Offers <- FirstVaries
  MaxStages = 3
  MaxStops = 1
  Calls <- TwoCalls
  NoCall = NoCall
  Scripts <- TwoAsks
  Message <- OneMessage
  Trees <- ThreeTrees
  CleanTree = clean
  MaxEdits = 2
  MaxCleanups = 1
SPECIFICATION Spec
CHECK_DEADLOCK FALSE
INVARIANTS TypeOK PatchAsProposed RunsOnce LostAnswersFoundAgain CompleteMeansWhole
