SPECIFICATION Spec
CONSTANTS
  SLOTS = 3
  MaxBlocks = 5
  Names <- MCNames
  Sizes <- MCSizes
INVARIANTS NamesUnique ReadsBack
PROPERTIES LowestGap
