SPECIFICATION Spec
CONSTANTS
  LAST_SECTOR = 1
  LBA_LIMIT = 2
  Words <- MCWords
  WORDS = 2
  MAX_COUNT = 2
  TIMEOUT = 2
  Faults = {"error"}
INVARIANTS
  OkMeansSuccessful
CHECK_DEADLOCK FALSE
