SPECIFICATION WriterSpec
CONSTANTS
  SCREEN_WIDTH = 3
  SCREEN_HEIGHT = 2
  CHAR_WIDTH = 1
  CHAR_HEIGHT = 1
  BACKGROUND = "blank"
  Strings <- MCStrings
  Message <- MCMessage
INVARIANTS CursorComesBack
