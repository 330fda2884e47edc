CONSTANTS
  FlagBits = 3
  LowOffsets = 4
  HighOffsets = 2
  LenCodes = 2
  MaxLength = 3
  MaxOffset = 3
  Files <- MCFiles
  Lengths <- AllLengths
  Offsets <- AllOffsets
SPECIFICATION Spec
INVARIANTS DecodesBack CopiesSound
CHECK_DEADLOCK FALSE
