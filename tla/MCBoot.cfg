SPECIFICATION FairSpec
CONSTANTS
  Paths <- MCPaths
  Contents <- MCContents
  CommandLines <- MCCommandLines
  BUFFER_SIZE = 2
  Rooms = {6, 20}
  MaxChanges = 1
  SizeStrings <- MCSizes
  WORD = 64
  KILO = 4
  minimumDiskSize = 14
  Mbrs <- MCMbrs
  boot <- MCBootFile
  bufferSize = 8
  TAG = 15
  Old <- MCOld
  KernelBinary <- MCKernel
  WINDOW = 9
  JUNK = 20
  bss = 3
  endOfKernel = 6
INVARIANTS ModulesArrive OldImageKept
PROPERTIES  Settles
CHECK_DEADLOCK FALSE
