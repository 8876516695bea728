SPECIFICATION Spec
CONSTANTS
  NL = "nl"
  Chars = {"a"}
  MAX_BUFFER = 5
  SCREEN_HEIGHT = 4
  Contents <- MCContents
INVARIANTS
  TypeOK
  CursorVisible
  FreshToCursor
  UnmodifiedIsSaved
PROPERTIES
  ImplementsTextBuffer
