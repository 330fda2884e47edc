CONSTANTS
  CtlSize = 2
  FifoSize = 1
  Pipes = {}
  Eps = {}
  DevDescLen = 5
  CfgHeadLen = 3
  LenStart = 0
  LenEnd = 2
  CfgLen = 6
  GarbageLens = {0, 1, 9}
  Seqs = {1, 2}
  Requests = {"get", "set"}
  Lengths = {1, 2, 3, 4}
SPECIFICATION SystemSpec
INVARIANTS FifoNotMixed LengthsRespected
PROPERTIES EnumerationCompletes RequestsAnswered
CHECK_DEADLOCK FALSE
