CONSTANTS
  NULL = NULL
  AllocMayFail = TRUE
  CommandLines <- MCCommandLines
  Files <- MCFiles
  DirContents <- MCDirContents
SPECIFICATION Spec

INVARIANT ExitStatusReflectsEveryFile
