CONSTANTS
  r1 = r1
  r2 = r2
  fa = fa
  fb = fb
  fc = fc
  fd = fd
  Runners <- TwoRunners
  Files <- FourFiles
  Folder <- FolderOf
  Programs <- ApartPrograms
  EmptyFolders = FALSE
  MayFail <- Faulty
  MayInterrupt <- Faulty
  MayKill <- Faulty
SPECIFICATION Spec
CHECK_DEADLOCK FALSE
INVARIANTS TypeOK RollbackRestores StepsLoseNothing AppliedMeansAll FoldersRestored
