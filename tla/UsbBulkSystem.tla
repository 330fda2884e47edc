--------------------------- MODULE UsbBulkSystem ---------------------------
(***************************************************************************)
(* The data pipes of USBDevice.cpp once the firmware has been enumerated:  *)
(* arbitrary firmware on one side, which may access the registers in any   *)
(* order, reset the device and remap its endpoints, and a host on the      *)
(* other that reads, writes, gives up requests, detaches and comes back.   *)
(***************************************************************************)
EXTENDS UsbDevice

CONSTANTS
  MaxByte,   \* bound: the firmware sends bytes numbered 1 .. MaxByte
  InLens     \* lengths a host asks for

ASSUME BulkAssumption == MaxByte \in Nat /\ InLens \in SUBSET Nat

VARIABLE sent   \* number of the last byte the firmware wrote to a TXDx

bulkVars == <<vars, sent>>

AllMasks == [main |-> Sources, tx |-> Fifos, rx |-> Fifos, nak |-> TRUE]

OutData == UNION {[1 .. n -> {Data}] : n \in 1 .. FifoSize}

EnumerationDone == [state |-> "Done", devOff |-> DevDescLen, cfgLen |-> CfgLen,
                cfgOff |-> CfgLen, clean |-> TRUE]

BulkInit == /\ Quiet
            /\ enumer = EnumerationDone
            /\ listed = TRUE
            /\ server = TRUE
            /\ sent = 0

SendByte(p) == /\ sent < MaxByte
               /\ WriteTXD(p, sent + 1)
               /\ sent' = sent + 1

Firmware ==
  \/ \E m \in {NoMasks, AllMasks} : WriteMasks(m)
  \/ reset
  \/ ServiceInterrupt
  \/ ReadNAKEV
  \/ \E p \in Pipes :
       \/ ReadTXS(p)
       \/ ReadRXS(p)
       \/ ReadRXD(p)
       \/ \E en, flush, isLast \in BOOLEAN : WriteTXC(p, en, flush, isLast)
       \/ \E en, flush \in BOOLEAN : WriteRXC(p, en, flush)
       \/ \E dir \in {"tx", "rx"}, en \in BOOLEAN, ep \in Eps :
            WriteEPC(dir, p, en, ep)

Host ==
  \/ Attach
  \/ Detach
  \/ \E n \in Seqs :
       \/ \E ep \in Eps, len \in InLens : usbipIn(n, ep, len)
       \/ \E ep \in Eps, data \in OutData : usbipOut(n, ep, data)
       \/ usbipUnlink(n)

BulkNext == \/ \E p \in Pipes : SendByte(p)
            \/ (Firmware \/ Host) /\ UNCHANGED sent

BulkSpec == BulkInit /\ [][BulkNext]_bulkVars

-----------------------------------------------------------------------------
Increasing(s) == \A i \in 1 .. Len(s) - 1 : s[i] < s[i + 1]

(* With one pipe per endpoint, what the host was last given, what has been *)
(* collected for the request it waits for and what is still in the FIFO    *)
(* are, in this order, bytes in the order the firmware wrote them: none is *)
(* given twice and none overtakes another, whatever is flushed, unlinked   *)
(* or reset in between. *)
InDataInOrder ==
  \A p \in Pipes :
    LET ep == epc.tx[p].ep
    IN  Increasing(reply[ep] \o in[ep].data \o txFifo[p].q)

=============================================================================
