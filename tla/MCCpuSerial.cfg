CONSTANTS
  CharCycles = 6
  Junk = 255
  TDR <- TdrAddress
  RDR <- RdrAddress
  Length = 3
  InstrCycles = {1, 2}
  MaxSince = 12
  MaxIrqs = 1
  Programs = {"transfer", "write", "read", "readSync", "dma", "dtcTx", "dtcRx", "dtcLog"}
  Split = {"transfer", "write", "read"}
SPECIFICATION Spec
INVARIANTS SentInOrder ReceivedInOrder UpdatedInTime
PROPERTIES TransfersFirst Completes IrqServed
