CONSTANTS
  Absent = Absent
  pa = pa
  pb = pb
  pd = pd
  o1 = o1
  o2 = o2
  Paths <- FilesAndFolder
  Dirs <- OneFolder
  Ops <- TwoOps
  Asks <- AnyTwo
  MaxCalls = 2
  MayKill <- TwoOps
  MayFail <- Second
  MaxEdits = 1
  EditsDuring = FALSE
SPECIFICATION Spec

INVARIANTS TypeOK EffectAtMostOnce AnswersTrue OpenOnlyAfterFault NothingLost
CHECK_DEADLOCK FALSE
