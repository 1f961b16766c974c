CONSTANTS
  s1 = s1
  s2 = s2
  s3 = s3
  s4 = s4
  None = None
  Stagers <- TwoStagers
  MayMove = TRUE
  MayStall = TRUE
  MayCrash <- OneStager
  WritesMayFail = TRUE
SPECIFICATION LiveSpec
CHECK_DEADLOCK FALSE
INVARIANTS TypeOK AtMostOneActive OneBundlePerRequest
PROPERTY SubmissionsEnd
