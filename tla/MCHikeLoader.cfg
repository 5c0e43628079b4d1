SPECIFICATION FairBothSpec
CONSTANTS
  e = e
  p = p
  q = q
  n = n
  eMain = eMain
  eMore = eMore
  pFile = pFile
  qFile = qFile
  nFile = nFile
  Dirs <- FourDirs
  Entry = e
  Root = root
  FilesOf <- TheFiles
  ImportsOf <- TheImports
  NativeDirs <- Native
INVARIANTS TypeOK Quiescent SameOutcome SameFiles
PROPERTIES LoadReturns
CHECK_DEADLOCK FALSE
