SPECIFICATION Spec
CONSTANTS
  BODY = 3
  EXT = 1
  N_FATENT = 14
  EPS = 8
  DPS = 2
  SS = 4
  ROOT = 2
  MAX_DIR = 6
  EHDR = 2
  PHDR = 2
  Images <- MCImages
  CdPaths <- MCCdPaths
  MkNames <- MCMkNames
  RunNames <- MCRunNames
  OpenPaths <- MCOpenPaths
  Texts <- MCTexts
  BufSizes = {6}
  ShellPath <- MCShellPath
  Notes <- MCNotes
  Value <- MCValue
  Named <- MCNamed
  NoName <- MCNoName
  Dirs <- MCDirs
  MAX_SAVES = 2
  MAX_CUTS = 1
INVARIANTS
  NoSharing
  NothingLost
  CopiesAgree
  NothingUnsaved
  RefusedOnlyWhenFull
  DeadOnlyWithoutShell
PROPERTIES
  OldEmptyOrNew
  ImplementsFileStore
CHECK_DEADLOCK FALSE
