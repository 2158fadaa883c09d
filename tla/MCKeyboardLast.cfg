SPECIFICATION Spec
CONSTANTS
  BUFFER_SIZE = 3
  MaxTyped = 3
  Bytes <- MCBytes
  Codes <- MCFewCodes
  Unmapped <- MCUnmapped
  asciiMap <- MCMap
  Letters <- MCLetters
PROPERTIES ReturnsLastInput
