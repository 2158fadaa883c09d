SPECIFICATION FairSpec
CONSTANTS
  BUFFER_SIZE = 2
  MaxTyped = 3
  Bytes <- MCBytes
  Codes <- MCCodes
  Unmapped <- MCUnmapped
  asciiMap <- MCMap
  Letters <- MCLetters
INVARIANTS TypeOK QuietStack CountKept
PROPERTIES Drains CaseOfKeys
