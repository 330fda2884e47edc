CONSTANTS
  CtlSize = 1
  FifoSize = 2
  Pipes = {1}
  Eps = {1}
  DevDescLen = 1
  CfgHeadLen = 1
  LenStart = 0
  LenEnd = 1
  CfgLen = 1
  GarbageLens = {0}
  Seqs = {1, 2}
  MaxByte = 3
  InLens = {1, 2}
SPECIFICATION BulkSpec
INVARIANTS NoSpuriousAnswer NoLostUrb InDataInOrder
PROPERTY PendingSignalled
