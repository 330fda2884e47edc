CONSTANTS
  Packets <- MCPackets
  Data <- MCData
  MaybeDeaf = {2}
  MaybeMute = {1}
  MaxLost = 1
  MaxSent = 2
SPECIFICATION Spec
INVARIANTS EccIsCodeWord
PROPERTIES HearsOthers
CHECK_DEADLOCK FALSE
