CONSTANTS
  ChunkSize = 2
  IndexWrap = 4
  Programs = {"serconSend", "serconBoot", "BootSerial", "usbconSend", "usbconBoot"}
  Sizes = {1, 4, 5, 6}
  AskedTwice = {0}
  MaxFaults = 3
SPECIFICATION Spec
INVARIANTS FileIntact SuccessIsTrue
PROPERTIES TransferEnds
CHECK_DEADLOCK FALSE
