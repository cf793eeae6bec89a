SPECIFICATION RollingSpec
CONSTANTS
  MaxBackups = 2
  MaxAgeDays = 2
  DayLength = 3
  MaxTime = 8
  MaxBack = 1
INVARIANTS
  RollingTypeOK
  FilesAreBounded
PROPERTY LatestLinesAreKept
