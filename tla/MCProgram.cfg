SPECIFICATION FairSpec
CONSTANTS
  MAX_BLOCKS = 2
  MAX_MEMORY = 4
  MaxRestarts = 2
  Arena <- MCArena
  Header = 2
  Slack = 2
  Need <- MCNeed
INVARIANTS NoError Accounted
PROPERTIES Halts
CHECK_DEADLOCK FALSE
