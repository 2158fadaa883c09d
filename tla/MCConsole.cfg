SPECIFICATION Spec
CONSTANTS
  SCREEN_WIDTH = 4
  SCREEN_HEIGHT = 2
  CHAR_WIDTH = 2
  CHAR_HEIGHT = 1
  BACKGROUND = "blank"
  Strings <- MCStrings
  Message <- MCMessage
  Cursors <- MCCursors
  Margins <- MCMargins
  MaxAbove = 0
INVARIANTS TypeOK
PROPERTIES KeepsColumn StaysOnColumn
