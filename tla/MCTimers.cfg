CONSTANTS
  Wrap = 6
  MaxAge = 8
  Wrap8 = 4
  Setups = {"free", "clearA", "clearC", "tone", "toggle", "timer8"}
  InstrCycles = {1, 2, 4}
  Slice = 5
  Divs = {0, 2}
  Values = {1,3}
  PortLevels = {TRUE}
  PinsB <- Pins1
  MaxLag = 5
  MaxWrites = 2
SPECIFICATION Spec
INVARIANTS InterruptsInTime SoundGoesForward

PROPERTIES TimersAreClocked Timer8CatchesUp
