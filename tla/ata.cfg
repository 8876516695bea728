SPECIFICATION Spec
CONSTANTS
  LAST_SECTOR = 1
  LBA_LIMIT = 2
  Words <- MCWords
  WORDS = 2
  MAX_COUNT = 2
  TIMEOUT = 2
  Faults = {"error", "absent"}
INVARIANTS
  TypeOK
  DriveAtRest
PROPERTIES
  ImplementsSectorDisk
  TransfersReturn
CHECK_DEADLOCK FALSE
