SPECIFICATION Spec
CONSTANTS
  SCREEN_WIDTH = 3
  SCREEN_HEIGHT = 4
  CHAR_WIDTH = 1
  CHAR_HEIGHT = 1
  BACKGROUND = "blank"
  BUFFER_SIZE = 4
  MAX_COMDESC = 4
  MAX_COMMANDS = 4
  WORD = 32
  Letters <- MCLetters
  PROMPT = ">"
  ENTER = "enter"
  CLEAR = "clear"
  Welcome <- MCWelcome
  Commands <- MCCommands
  Code <- MCCode
  Listing <- MCListing
  Output <- MCOutput
  printMem <- MCprintMem
  Dump <- MCDump
  Complaint <- MCComplaint
INVARIANTS TypeOK LineShown CommandsKept
PROPERTY AddressRead
