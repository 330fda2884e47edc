-------------------------- MODULE UsbControlSystem --------------------------
(***************************************************************************)
(* Endpoint 0 of USBDevice.cpp, from power-up to the requests of a host,   *)
(* driven by firmware that programs the controller the way it is meant to  *)
(* be: it resets the device, opens the masks, enables reception, and then  *)
(* serves one event per interrupt.  A setup packet is read byte by byte    *)
(* and answered in packets of up to CtlSize bytes, the next packet when    *)
(* the previous one is reported sent; when nothing is left it enables      *)
(* reception again.  An answer shorter than asked for ends with an empty   *)
(* packet, which is what the device takes for the end of data.  The        *)
(* firmware is external: only its register accesses are the repository's.  *)
(***************************************************************************)
EXTENDS UsbDevice

CONSTANTS
  Requests,   \* the control requests of the host: a subset of {"get", "set"}
  Lengths     \* the lengths it asks for

ASSUME ControlAssumption == /\ Requests \subseteq {"get", "set"}
                            /\ Lengths \in SUBSET (Nat \ {0})

VARIABLES
  pc,      \* what the firmware does next
  packet,  \* the setup bytes read so far
  left,    \* bytes of the answer not yet written to TXD0
  room,    \* bytes it may still add to the current packet
  short    \* an empty packet has to end the answer

fwVars == <<pc, packet, left, room, short>>
systemVars == <<vars, fwVars>>

FirmwareMasks == [main |-> {"TX", "RX"}, tx |-> {0}, rx |-> {0}, nak |-> FALSE]

-----------------------------------------------------------------------------
(* The firmware. *)

Goto(l) == pc' = l /\ UNCHANGED <<packet, left, room, short>>

Boot == \/ pc = "reset" /\ reset /\ Goto("masks")
        \/ pc = "masks" /\ WriteMasks(FirmwareMasks) /\ Goto("listen")
        \/ pc = "listen" /\ WriteRXC0(TRUE, FALSE) /\ Goto("idle")

(* IRQ1: MAEV, then one of the events it shows. *)
Interrupt == pc = "idle" /\ ServiceInterrupt /\ Goto("handler")

Dispatch ==
  /\ pc = "handler"
  /\ \/ "RX" \in Pending /\ Goto("rx")
     \/ "TX" \in Pending /\ Goto("tx")
     \/ Pending = {} /\ Goto("idle")
  /\ UNCHANGED vars

(* RXS0 tells a setup packet from the host's empty status packet. *)
Received ==
  /\ pc = "rx"
  /\ ReadRXS0
  /\ pc' = IF setupRecv THEN "setup" ELSE "idle"
  /\ packet' = << >>
  /\ UNCHANGED <<left, room, short>>

ReadSetup ==
  /\ pc = "setup" /\ Len(packet) < CtlSize
  /\ ReadRXD0
  /\ packet' = Append(packet, IF Ctl!IsEmpty(ctl) THEN Unset ELSE Ctl!Front(ctl))
  /\ UNCHANGED <<pc, left, room, short>>

FlushTx == /\ pc = "setup" /\ Len(packet) = CtlSize
           /\ WriteTXC0(FALSE, TRUE) /\ Goto("flush")

FlushRx == pc = "flush" /\ WriteRXC0(FALSE, TRUE) /\ Goto("answer")

(* How many bytes a request asks for, and how many the firmware has. *)
Asked == CASE packet[1] = "device" -> DevDescLen
           [] packet[1] = "header" -> CfgHeadLen
           [] packet[1] = "config" -> enumer.cfgLen
           [] packet[1] = "get" -> in[0].len
           [] OTHER -> 0

Available == CASE packet[1] = "device" -> {DevDescLen}
               [] packet[1] = "header" -> {CfgHeadLen}
               [] packet[1] = "config" -> {Least(CfgLen, enumer.cfgLen)}
               [] packet[1] = "get" -> 0 .. in[0].len
               [] OTHER -> {0}

DecideAnswer ==
  /\ pc = "answer"
  /\ \E n \in Available :
       /\ left' = n
       /\ short' = (n \in 1 .. Asked - 1)
  /\ room' = CtlSize
  /\ pc' = "fill"
  /\ UNCHANGED <<vars, packet>>

Fill == /\ pc = "fill" /\ left > 0 /\ room > 0
        /\ WriteTXD0(Data)
        /\ left' = left - 1
        /\ room' = room - 1
        /\ UNCHANGED <<pc, packet, short>>

SendPacket == /\ pc = "fill" /\ (left = 0 \/ room = 0)
              /\ WriteTXC0(TRUE, FALSE)
              /\ Goto("idle")

Transmitted ==
  /\ pc = "tx"
  /\ ReadTXS0
  /\ \/ /\ left > 0 \/ short
        /\ pc' = "fill"
        /\ room' = CtlSize
        /\ short' = (short /\ left > 0)
     \/ /\ left = 0 /\ ~short
        /\ pc' = "listen"
        /\ UNCHANGED <<room, short>>
  /\ UNCHANGED <<packet, left>>

Firmware == \/ Boot \/ Interrupt \/ Dispatch \/ Received \/ ReadSetup
            \/ FlushTx \/ FlushRx \/ DecideAnswer \/ Fill \/ SendPacket
            \/ Transmitted

-----------------------------------------------------------------------------
(* The host asks for one thing at a time on endpoint 0 and waits for it. *)
Host ==
  /\ \/ Attach
     \/ Detach
     \/ \E n \in Seqs :
          \/ \E len \in Lengths : usbipGetDescriptor(n, len)
          \/ \E len \in Lengths :
               "get" \in Requests /\ usbipControlRequest(n, "get", len)
          \/ "set" \in Requests /\ usbipControlRequest(n, "set", 0)
  /\ UNCHANGED fwVars

SystemInit == /\ Init
              /\ pc = "reset"
              /\ packet = << >>
              /\ left = 0
              /\ room = 0
              /\ short = FALSE

SystemNext == Firmware \/ Host

(* executeCycles() runs the firmware in every turn of the main loop; the   *)
(* host owes nothing.  Creating the server is taken to succeed sometimes:  *)
(* it is not part of the fairness. *)
SystemSpec == /\ SystemInit /\ [][SystemNext]_systemVars
              /\ WF_systemVars(Firmware)

-----------------------------------------------------------------------------
(* controlFIFO serves both directions, the enumeration and the host.  No   *)
(* bytes are mistaken for others: the enumeration takes only what the      *)
(* firmware answered for descriptor bytes, the firmware reads whole setup  *)
(* packets of one request, and the host is never handed setup bytes.       *)
FifoNotMixed ==
  /\ enumer.clean
  /\ \A i \in DOMAIN packet : packet[i] = packet[1] /\ packet[i] \notin {Data, Unset}
  /\ \A i \in DOMAIN in[0].data : in[0].data[i] = Data
  /\ \A i \in DOMAIN reply[0] : reply[0][i] \in {Data, Unset}

(* The whole configuration descriptor is asked for with the length that    *)
(* the firmware's header gave, and never collected beyond it.  Neither is  *)
(* an answer to the host beyond what the host asked for. *)
LengthsRespected ==
  /\ enumer.devOff <= DevDescLen
  /\ enumer.state = "ReadConfigDesc" => /\ enumer.cfgLen = CfgLen
                                        /\ enumer.cfgOff < CfgLen
  /\ in[0].seq # NoSeq => Len(in[0].data) < in[0].len \/ in[0].len = 0

(* The enumeration ends, and the device is then offered to hosts. *)
EnumerationCompletes == <>[](enumer.state = "Done" /\ listed)

(* Every request the device accepted is answered. *)
RequestsAnswered == \A n \in Seqs : Waiting(n) ~> ~Waiting(n)
=============================================================================
