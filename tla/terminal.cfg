SPECIFICATION Spec
CONSTANTS
  HEIGHT = 5
  COLS = 2
  BOOT_SIZE = 2
  Sizes = {1, 2}
  Chars = {"a", "b"}
  INPUT_MAX = 3
  MAX_RESIZES = 1
  Names = {"r=", "g=", "b="}
  DefaultColor <- MCDefaultColor
  HexDigit <- MCHexDigit
  DIGITS = 2
  LINE_MAX = 4
  ThemeFiles <- MCThemeFiles
INVARIANTS
  CursorOnScreen
  NothingBelow
  EchoIsLine
PROPERTIES
  ThemeIsMeant
  ImplementsCharScreen
