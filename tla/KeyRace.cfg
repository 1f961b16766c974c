CONSTANTS
  s1 = s1
  s2 = s2
  s3 = s3
  s4 = s4
  None = None
  Stagers <- FourStagers
  MayMove = TRUE
  MayStall = FALSE
  MayCrash <- NoOne
  WritesMayFail = FALSE
SPECIFICATION Spec
SYMMETRY StagerSymmetry
CONSTRAINT NoneFinished
CHECK_DEADLOCK FALSE
INVARIANT DedupesStrongly
