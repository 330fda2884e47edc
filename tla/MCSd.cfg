CONSTANTS
  BlockSize = 2
  FileSize = 6
  Register <- FourBytes
  Data <- SomeData
  File <- FirstFile
  MaxBlocks = 2
SPECIFICATION Spec
INVARIANTS RepliesAreForThis ReadsTheBlocks
PROPERTIES WritesTheBlocks OperationsEnd
