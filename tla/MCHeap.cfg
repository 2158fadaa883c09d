SPECIFICATION FairSpec
CONSTANTS
  START_ADDRESS = 128
  END_ADDRESS = 4096
  TOTAL_HEAP_SIZE = 576
  Start = 16
  AllocatedBit = 32768
  Requests <- MCRequests
INVARIANTS TypeOK ClientsDisjoint Accounting FreeListOrdered StaleIgnored WholeAgain
PROPERTIES FirstFit CallReturns Implements
