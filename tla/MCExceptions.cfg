SPECIFICATION FairSpec
CONSTANTS
  Modifiers <- MCModifiers
  Letters <- MCLetters
  REGS = 2
  TICKS = 2
  MaxCodes = 4
  MaxTicks = 3
INVARIANTS TypeOK FlagsFollowKeys TypedOnce CopyWhole
PROPERTIES NoKeyStuck ExitsOnShift
