CONSTANTS
  b1 = b1
  b2 = b2
  w1 = w1
  w2 = w2
  r1 = r1
  r2 = r2
  User = User
  Bundles <- OneBundle
  Scoped <- OneBundle
  Low <- OneBundle
  Watchers <- OneWatcher
  Modes <- AllModes
  Savers <- OneSaver
  SavesMayFail = TRUE
  Notifies = TRUE
  MayRestart <- OneWatcher
  MayKill = TRUE
  Clicks <- BothClicks
SPECIFICATION LiveSpec
PROPERTIES PendingNoticed YoloResumes
