SPECIFICATION RcSpec
CONSTANTS
  SPACE = " "
  NL = "nl"
  CR = "cr"
  NUL = "nul"
  Keys = {"theme", "font"}
  BUF = 13
  Bytes <- MCBytes
  Pieces <- MCPieces
  MAX_PIECES = 5
INVARIANTS
  SettingsAreMeant
CHECK_DEADLOCK FALSE
