----------------------------- MODULE UsbDevice -----------------------------
(***************************************************************************)
(* emu2/USBDevice.cpp: the emulated USBN9604 controller.  On one side the  *)
(* emulated firmware reads and writes its registers, on the other side     *)
(* usbip.c calls it on behalf of a USB/IP host.  Between power-up and the  *)
(* first host it enumerates the firmware itself to learn its descriptors.  *)
(*                                                                         *)
(* Every action is one register access or one call from usbip.c: main()    *)
(* runs the processor and the USB/IP server in turn on one thread, so each *)
(* is atomic and any order of them can happen.                             *)
(***************************************************************************)
EXTENDS Integers, Sequences, FiniteSets

CONSTANTS
  CtlSize,      \* bytes in controlFIFO, and in a setup packet (8)
  FifoSize,     \* bytes in each txFifo and rxFifo (64)
  Pipes,        \* the FIFO pairs behind endpoints 1..6 (1..3)
  Eps,          \* the endpoint numbers a host can address besides 0
  DevDescLen,   \* bytes in a device descriptor (18)
  CfgHeadLen,   \* bytes in a configuration descriptor's header (9)
  LenStart,     \* its wTotalLength follows this many bytes (2)
  LenEnd,       \* ... and ends here (4)
  CfgLen,       \* the firmware's wTotalLength
  GarbageLens,  \* what an uninitialised wTotalLength may read as
  Seqs          \* sequence numbers of USB/IP requests

ASSUME UsbAssumption ==
  /\ CtlSize \in Nat \ {0} /\ FifoSize \in Nat \ {0}
  /\ DevDescLen \in Nat \ {0} /\ CfgHeadLen \in Nat \ {0}
  /\ LenStart \in Nat /\ LenEnd \in LenStart + 1 .. CtlSize
  /\ LenEnd <= CfgHeadLen
  /\ CfgLen \in Nat \ {0} /\ GarbageLens \in SUBSET Nat
  /\ Pipes \in SUBSET (Nat \ {0}) /\ Eps \in SUBSET (Nat \ {0})
  /\ Seqs \in SUBSET (Nat \ {0})

VARIABLES
  ctl,        \* controlFIFO: the one FIFO of endpoint 0, both directions
  txFifo,     \* the FIFOs of endpoints 1, 3, 5
  rxFifo,     \* the FIFOs of endpoints 2, 4, 6
  enable,     \* txEnable and rxEnable: the FIFOs (0 for endpoint 0) enabled
  last,       \* the LAST bit of the latest write to TXC1..3
  epc,        \* endpointControl: enable bit and endpoint number
  event,      \* txEvent, rxEvent (by FIFO) and NAKEV_OUT0 of nakEvent
  setupRecv,  \* bit 0 of endpointSetupRecv
  mask,       \* MAMSK, TXMSK, RXMSK, NAKMSK
  irq,        \* IRQ1 has been raised and not serviced yet
  enumer,     \* enumeration: state and descriptor offsets
  listed,     \* the device is in usbip.c's device list
  server,     \* usbipServer is up
  in,         \* usbipInSeqnum, usbipInDataLen and the data so far
  outSeq,     \* usbipOutSeqnum[0]
  host,       \* a host has imported the device
  urb,        \* what the host knows of each request
  reply       \* the bytes of the latest answer on each endpoint

devVars == <<ctl, txFifo, rxFifo, enable, last, epc, event, setupRecv, mask,
             irq, enumer, listed, server, in, outSeq>>
hostVars == <<host, urb, reply>>
vars == <<devVars, hostVars>>

Ctl == INSTANCE ByteFifo WITH Size <- CtlSize
Pipe == INSTANCE ByteFifo WITH Size <- FifoSize

NoSeq == 0
EndpointControl == [en : BOOLEAN, ep : Eps]
Fifos == {0} \cup Pipes
InEps == {0} \cup Eps
Sources == {"TX", "RX", "NAK"}

-----------------------------------------------------------------------------
(* Bytes.  On endpoint 0 a byte is known by who put it in the FIFO: the    *)
(* setup packet it belongs to, or the firmware.                            *)

Data == "data"
Unset == "unset"

(* Setup packets: "device", "address", "header" and "config" are the       *)
(* enumeration's GET_DESCRIPTOR(device), SET_ADDRESS, GET_DESCRIPTOR of    *)
(* the configuration's header and of all of it; "get" is a host's request  *)
(* for data, "set" one without and "put" one that brings its own.          *)

Least(a, b) == IF a < b THEN a ELSE b
DropAllButOne(f, n) ==
  IF n <= 1 THEN f ELSE [q |-> SubSeq(f.q, n, Len(f.q)), full |-> FALSE]

Drop(f, n) == IF n = 0 THEN f ELSE [q |-> SubSeq(f.q, n + 1, Len(f.q)),
                                    full |-> FALSE]
Drained(f) == Drop(f, Len(f.q))

SevenPushed(f, request) ==
  LET pushed[i \in 0 .. CtlSize] ==
        IF i = 0 THEN f ELSE Ctl!Push(pushed[i - 1], request)
  IN  pushed[CtlSize - 1]

(* The eight push() calls of a setup packet, on whatever the FIFO holds.   *)
SetupPushed(f, request) ==
  LET pushed[i \in 0 .. CtlSize] ==
        IF i = 0 THEN f ELSE Ctl!Push(pushed[i - 1], request)
  IN  pushed[CtlSize]

-----------------------------------------------------------------------------
(* Events and the interrupt. *)

MAEV(ev, mk) ==
  {s \in Sources : \/ s = "TX" /\ ev.tx \cap mk.tx # {}
                   \/ s = "RX" /\ ev.rx \cap mk.rx # {}
                   \/ s = "NAK" /\ ev.nak /\ mk.nak}

Pending == MAEV(event, mask) \cap mask.main

(* updateInterrupt() with the events a handler leaves.  IRQ1 is raised     *)
(* and never withdrawn.                                                    *)
UpdateInterrupt(ev) ==
  irq' = (irq \/ MAEV(ev, mask) \cap mask.main # {})

NoEvents == [tx |-> {}, rx |-> {}, nak |-> FALSE]
NoMasks == [main |-> {}, tx |-> {}, rx |-> {}, nak |-> FALSE]
NothingEnabled == [tx |-> {}, rx |-> {}]
NoIn == [seq |-> NoSeq, len |-> 0, data |-> << >>]

-----------------------------------------------------------------------------
(* updateEnumeration(): what it makes of endpoint 0's FIFO c, the events   *)
(* ev and the enables en.  The outcome says whether a setup packet was     *)
(* sent and whether the device was added to the list.  It is a set because *)
(* a header that does not come in one piece leaves part of the local       *)
(* buffer, and so the length read from it, uninitialised.                  *)

Outcome(c, sent, e) == [ctl |-> c, sent |-> sent, e |-> e]

Unmoved(c) == {Outcome(c, FALSE, enumer)}

(* canSendPacket(): "there's only one fifo, so having tx and rx events set *)
(* is going to confuse things". *)
CanSend(c, ev, en) == 0 \in en.rx /\ Ctl!IsEmpty(c) /\ 0 \notin ev.tx

Request(c, request, e) == {Outcome(SetupPushed(c, request), TRUE, e)}

FromFirmware(bytes) == \A i \in DOMAIN bytes : bytes[i] = Data

(* Bytes taken from the FIFO as descriptor bytes.  clean is history: so    *)
(* far they were all the firmware's. *)
Taken(c, n) == enumer.clean /\ FromFirmware(SubSeq(c.q, 1, n))

ReadDeviceDesc(c) ==
  LET n == Least(Len(c.q), DevDescLen - enumer.devOff)
      off == enumer.devOff + n
  IN  {Outcome(Drop(c, n), FALSE,
         [enumer EXCEPT !.devOff = off, !.clean = Taken(c, n),
                        !.state = IF off = DevDescLen THEN "SetAddress"
                                  ELSE @])}

(* wTotalLength, if the bytes just read hold it. *)
LengthsRead(c) ==
  IF /\ enumer.cfgOff <= LenStart
     /\ enumer.cfgOff + Len(c.q) >= LenEnd
     /\ FromFirmware(c.q)
  THEN {CfgLen} ELSE GarbageLens

ReadHeader(c) ==
  {Outcome(Drained(c), FALSE,
     [enumer EXCEPT !.cfgOff = @ + Len(c.q), !.cfgLen = len,
                    !.clean = Taken(c, Len(c.q))]) : len \in LengthsRead(c)}

DiscardUncounted(c) == {Outcome(Drained(c), FALSE, enumer)}

DiscardHeader(c) ==
  {Outcome(Drained(c), FALSE,
     [enumer EXCEPT !.cfgOff = @ + Len(c.q), !.clean = Taken(c, Len(c.q))])}

ReadConfigDesc(c) ==
  LET off == enumer.cfgOff + Len(c.q)
  IN  {Outcome(Drained(c), FALSE,
         [enumer EXCEPT !.cfgOff = off, !.clean = Taken(c, Len(c.q)),
                        !.state = IF off = enumer.cfgLen THEN "Done" ELSE @])}

UpdateEnumeration(c, ev, en) ==
  LET e == enumer
      may == CanSend(c, ev, en)
      answered == 0 \in en.tx
  IN  CASE e.state = "RequestDeviceDesc" /\ may ->
             Request(c, "device",
               [e EXCEPT !.state = "ReadDeviceDesc", !.devOff = 0])
        [] e.state = "ReadDeviceDesc" /\ answered -> ReadDeviceDesc(c)
        [] e.state = "SetAddress" /\ may ->
             Request(c, "address", [e EXCEPT !.state = "RequestConfigDesc"])
        [] e.state = "RequestConfigDesc" /\ may ->
             Request(c, "header",
               [e EXCEPT !.state = "RequestFullConfigDesc", !.cfgOff = 0])
        [] e.state = "RequestFullConfigDesc" /\ e.cfgOff < CfgHeadLen ->
             IF ~answered THEN Unmoved(c)
             ELSE IF e.cfgOff < CtlSize THEN ReadHeader(c)
             ELSE DiscardHeader(c)
        [] e.state = "RequestFullConfigDesc" /\ e.cfgOff >= CfgHeadLen
             /\ may ->
             Request(c, "config",
               [e EXCEPT !.state = "ReadConfigDesc", !.cfgOff = 0])
        [] e.state = "ReadConfigDesc" /\ answered -> ReadConfigDesc(c)
        [] OTHER -> Unmoved(c)

-----------------------------------------------------------------------------
(* What usbip.c sends back.  A request is free, waiting at the device, or  *)
(* has been answered although nobody waited.                               *)

FreeUrb == [st |-> "free", ep |-> 0]

Answered(n) == IF urb[n].st = "waiting" THEN FreeUrb
               ELSE [urb[n] EXCEPT !.st = "spurious"]

Answer(n, ep, bytes) == /\ urb' = [urb EXCEPT ![n] = Answered(n)]
                        /\ reply' = [reply EXCEPT ![ep] = bytes]

-----------------------------------------------------------------------------
(* The registers the firmware reads. *)

fifoVars == <<ctl, txFifo, rxFifo>>
controlVars == <<enable, last, epc, mask>>
usbipVars == <<server, listed, host, in, outSeq, urb, reply>>

ReadNAKEV == /\ event' = [event EXCEPT !.nak = FALSE]
             /\ UpdateInterrupt(event')
             /\ UNCHANGED <<fifoVars, controlVars, setupRecv, enumer, usbipVars>>

QuietReadTXS(f) ==
  /\ event' = [event EXCEPT !.tx = @ \ {f}]
  /\ UNCHANGED <<irq, fifoVars, controlVars, setupRecv, enumer, usbipVars>>

(* TXSx: reading the status acknowledges the event. *)
ReadTXS(f) ==
  /\ event' = [event EXCEPT !.tx = @ \ {f}]
  /\ UpdateInterrupt(event')
  /\ UNCHANGED <<fifoVars, controlVars, setupRecv, enumer, usbipVars>>

ReadTXS0 == ReadTXS(0)

ReadRXS(f) ==
  /\ event' = [event EXCEPT !.rx = @ \ {f}]
  /\ UpdateInterrupt(event')
  /\ setupRecv' = (setupRecv /\ f # 0)
  /\ UNCHANGED <<fifoVars, controlVars, enumer, usbipVars>>

ReadRXS0 == ReadRXS(0)

ReadRXD0 ==
  /\ ctl' = IF Ctl!IsEmpty(ctl) THEN ctl ELSE Ctl!Pop(ctl)
  /\ UNCHANGED <<txFifo, rxFifo, controlVars, event, irq, setupRecv, enumer,
                 usbipVars>>

ReadRXD(p) ==
  /\ rxFifo' = [rxFifo EXCEPT ![p] = IF Pipe!IsEmpty(@) THEN @
                                     ELSE Pipe!Pop(@)]
  /\ UNCHANGED <<ctl, txFifo, controlVars, event, irq, setupRecv, enumer,
                 usbipVars>>

-----------------------------------------------------------------------------
(* The registers it writes. *)

(* MAMSK, TXMSK, RXMSK, NAKMSK: the interrupt is not looked at. *)
WriteMasks(m) ==
  /\ mask' = m
  /\ UNCHANGED <<fifoVars, enable, last, epc, event, irq, setupRecv, enumer,
                 usbipVars>>

(* MCNTRL.SRST, with enumeration asked for.  The server is created anew,   *)
(* which ends every connection, and may fail. *)
reset ==
  /\ mask' = NoMasks
  /\ event' = NoEvents
  /\ enable' = NothingEnabled
  /\ ctl' = Ctl!EmptyFifo
  /\ enumer' = [enumer EXCEPT !.state = "RequestDeviceDesc", !.cfgLen = 0,
                              !.cfgOff = 0, !.clean = TRUE]
  /\ server' \in BOOLEAN
  /\ in' = [ep \in InEps |-> NoIn]
  /\ outSeq' = NoSeq
  /\ host' = FALSE
  /\ urb' = [n \in Seqs |-> FreeUrb]
  /\ reply' = [ep \in InEps |-> << >>]
  /\ UNCHANGED <<txFifo, rxFifo, last, epc, irq, setupRecv, listed>>

WriteTXD0(b) ==
  /\ ctl' = IF ctl.full THEN ctl ELSE Ctl!Push(ctl, b)
  /\ UNCHANGED <<txFifo, rxFifo, controlVars, event, irq, setupRecv, enumer,
                 usbipVars>>

WriteTXD(p, b) ==
  /\ txFifo' = [txFifo EXCEPT ![p] = IF @.full THEN @ ELSE Pipe!Push(@, b)]
  /\ UNCHANGED <<ctl, rxFifo, controlVars, event, irq, setupRecv, enumer,
                 usbipVars>>

WriteEPC(dir, p, en, ep) ==
  /\ epc' = [epc EXCEPT ![dir][p] = [en |-> en, ep |-> ep]]
  /\ UNCHANGED <<fifoVars, enable, last, mask, event, irq, setupRecv, enumer,
                 usbipVars>>

Enabled(dir, f, en) ==
  [enable EXCEPT ![dir] = IF en THEN @ \cup {f} ELSE @ \ {f}]

Signal(needed, ev) ==
  /\ event' = ev
  /\ IF needed THEN UpdateInterrupt(ev) ELSE UNCHANGED irq

(* What an enumeration outcome leaves behind, the events aside. *)
Enumerated(o) ==
  /\ ctl' = o.ctl
  /\ enumer' = o.e
  /\ setupRecv' = (setupRecv \/ o.sent)
  /\ listed' = (listed \/ (o.e.state = "Done" /\ enumer.state # "Done"))

Added(dir, f) == [event EXCEPT ![dir] = @ \cup {f}]

(* The answer to a short transfer is as long as the request: the rest of   *)
(* the buffer was never written.  With no data at all it is a stall.       *)
Padded(r) ==
  IF r.data = << >> THEN << >>
  ELSE [i \in 1 .. r.len |-> IF i <= Len(r.data) THEN r.data[i] ELSE Unset]

(* TXC0 with EN and nothing in the FIFO: an empty packet, which ends the   *)
(* data of a request or stalls it. *)
SendEmptyPacket ==
  LET ev == [Added("tx", 0) EXCEPT !.nak = TRUE]
  IN  /\ Signal(TRUE, ev)
      /\ ctl' = Ctl!EmptyFifo
      /\ IF server /\ in[0].seq # NoSeq
         THEN /\ Answer(in[0].seq, 0, Padded(in[0]))
              /\ in' = [in EXCEPT ![0] = NoIn]
         ELSE UNCHANGED <<in, urb, reply>>
      /\ UNCHANGED <<setupRecv, enumer, listed>>

(* ... with data while the device is being enumerated. *)
SendToEnumeration(c, en) ==
  \E o \in UpdateEnumeration(c, event, en) :
    LET sent == Ctl!IsEmpty(o.ctl)
    IN  /\ Enumerated(o)
        /\ Signal(sent, IF sent THEN Added("tx", 0) ELSE event)
        /\ UNCHANGED <<in, urb, reply>>

(* ... with data for a host, who is answered once the length is reached.   *)
SendToHost(c) ==
  LET got == [in[0] EXCEPT !.data = @ \o c.q]
      done == Len(got.data) = got.len
  IN  /\ ctl' = Drained(c)
      /\ Signal(TRUE, Added("tx", 0))
      /\ in' = [in EXCEPT ![0] = IF done THEN NoIn ELSE got]
      /\ IF done THEN Answer(in[0].seq, 0, got.data)
         ELSE UNCHANGED <<urb, reply>>
      /\ UNCHANGED <<setupRecv, enumer, listed>>

KeepUnsent(c) == /\ ctl' = c
                 /\ UNCHANGED <<event, irq, in, urb, reply, setupRecv, enumer,
                                listed>>

WriteTXC0(en, flush) ==
  LET c == IF flush THEN Ctl!EmptyFifo ELSE ctl
      forHost == server /\ in[0].seq # NoSeq
  IN  /\ enable' = Enabled("tx", 0, en)
      /\ \/ /\ en /\ Ctl!IsEmpty(c)
            /\ SendEmptyPacket
         \/ /\ en /\ ~Ctl!IsEmpty(c) /\ enumer.state # "Done"
            /\ SendToEnumeration(c, Enabled("tx", 0, en))
         \/ /\ en /\ ~Ctl!IsEmpty(c) /\ enumer.state = "Done" /\ forHost
            /\ SendToHost(c)
         \/ /\ ~en \/ (~Ctl!IsEmpty(c) /\ enumer.state = "Done" /\ ~forHost)
            /\ KeepUnsent(c)
      /\ UNCHANGED <<txFifo, rxFifo, last, epc, mask, server, host, outSeq>>

WriteRXC0(en, flush) ==
  LET c == IF flush THEN Ctl!EmptyFifo ELSE ctl
  IN  /\ enable' = Enabled("rx", 0, en)
      /\ \/ /\ en
            /\ \E o \in UpdateEnumeration(c, event, Enabled("rx", 0, en)) :
                 /\ Enumerated(o)
                 /\ Signal(o.sent, IF o.sent THEN Added("rx", 0) ELSE event)
         \/ /\ ~en
            /\ ctl' = c
            /\ UNCHANGED <<event, irq, setupRecv, enumer, listed>>
      /\ UNCHANGED <<txFifo, rxFifo, last, epc, mask, server, host, in, outSeq,
                     urb, reply>>

(* The bytes of FIFO f that the request r can still take. *)
Fitting(r, f) == Least(Len(f.q), r.len - Len(r.data))

Collected(r, f) == [r EXCEPT !.data = @ \o SubSeq(f.q, 1, Fitting(r, f))]

CollectAndForget(p, ep, r, f, isLast) ==
  /\ txFifo' = [txFifo EXCEPT ![p] = Drop(f, Fitting(r, f))]
  /\ in' = [in EXCEPT ![ep] = NoIn]

(* The request waiting at ep takes what is in FIFO p, and is answered when *)
(* it has all it asked for or the packet is the last. *)
Collect(p, ep, r, f, isLast) ==
  LET got == Collected(r, f)
      done == Len(got.data) = got.len \/ isLast
  IN  /\ txFifo' = [txFifo EXCEPT ![p] = Drop(f, Fitting(r, f))]
      /\ in' = [in EXCEPT ![ep] = IF done THEN NoIn ELSE got]

WriteTXC(p, en, flush, isLast) ==
  LET f == IF flush THEN Pipe!EmptyFifo ELSE txFifo[p]
      ep == epc.tx[p].ep
      r == in[ep]
      forHost == en /\ server /\ r.seq # NoSeq
      done == Len(Collected(r, f).data) = r.len \/ isLast
  IN  /\ enable' = Enabled("tx", p, en)
      /\ last' = IF isLast THEN last \cup {p} ELSE last \ {p}
      /\ IF forHost
         THEN /\ Collect(p, ep, r, f, isLast)
              /\ IF done THEN Answer(r.seq, ep, Collected(r, f).data)
                 ELSE UNCHANGED <<urb, reply>>
         ELSE /\ txFifo' = [txFifo EXCEPT ![p] = f]
              /\ UNCHANGED <<in, urb, reply>>
      /\ LET sent == en /\ Pipe!IsEmpty(txFifo'[p])
         IN  Signal(sent, IF sent THEN Added("tx", p) ELSE event)
      /\ UNCHANGED <<ctl, rxFifo, epc, mask, setupRecv, enumer, server, listed,
                     host, outSeq>>

WriteRXC(p, en, flush) ==
  /\ enable' = Enabled("rx", p, en)
  /\ rxFifo' = [rxFifo EXCEPT ![p] = IF flush THEN Pipe!EmptyFifo ELSE @]
  /\ UNCHANGED <<ctl, txFifo, last, epc, mask, event, irq, setupRecv, enumer,
                 usbipVars>>

-----------------------------------------------------------------------------
(* The host, through usbip.c.  A host waits for at most one request per    *)
(* endpoint and detaches when it waits for none.  A refused request is     *)
(* stalled at once: it is never seen waiting. *)

Waiting(n) == urb[n].st = "waiting"

MaySubmit(n, ep) == /\ host
                    /\ urb[n] = FreeUrb
                    /\ \A m \in Seqs : Waiting(m) => urb[m].ep # ep

Submitted(n, ep) == [urb EXCEPT ![n] = [st |-> "waiting", ep |-> ep]]

SetupArrives(request) ==
  /\ ctl' = SetupPushed(ctl, request)
  /\ setupRecv' = TRUE
  /\ Signal(TRUE, Added("rx", 0))
  /\ UNCHANGED <<txFifo, rxFifo, controlVars, enumer, server, listed, host,
                 reply>>

NewIn(n, len) == [seq |-> n, len |-> len, data |-> << >>]

(* A descriptor the server does not know (a string). *)
usbipGetDescriptor(n, len) ==
  /\ MaySubmit(n, 0)
  /\ 0 \in enable.rx
  /\ Ctl!IsEmpty(ctl)
  /\ SetupArrives("get")
  /\ in' = [in EXCEPT ![0] = NewIn(n, len)]
  /\ urb' = Submitted(n, 0)
  /\ UNCHANGED outSeq

(* Any other request on endpoint 0: one for data, one without, one with    *)
(* data for the device. *)
usbipControlRequest(n, request, len) ==
  /\ MaySubmit(n, 0)
  /\ 0 \in enable.rx \/ Ctl!IsEmpty(ctl)
  /\ SetupArrives(request)
  /\ IF request = "put"
     THEN outSeq' = n /\ UNCHANGED in
     ELSE in' = [in EXCEPT ![0] = NewIn(n, len)] /\ UNCHANGED outSeq
  /\ urb' = Submitted(n, 0)

Mapped(dir, ep) == {p \in Pipes : epc[dir][p].en /\ epc[dir][p].ep = ep}

First(S) == CHOOSE p \in S : \A q \in S : p <= q

usbipIn(n, ep, len) ==
  /\ MaySubmit(n, ep)
  /\ Mapped("tx", ep) # {}
  /\ LET p == First(Mapped("tx", ep))
         r == NewIn(n, len)
         done == Len(Collected(r, txFifo[p]).data) = len \/ p \in last
     IN  IF p \in enable.tx
         THEN /\ Collect(p, ep, r, txFifo[p], p \in last)
              /\ urb' = IF done THEN urb ELSE Submitted(n, ep)
              /\ reply' = IF done
                          THEN [reply EXCEPT ![ep] = Collected(r, txFifo[p]).data]
                          ELSE reply
              /\ Signal(TRUE, Added("tx", p))
         ELSE /\ in' = [in EXCEPT ![ep] = r]
              /\ urb' = Submitted(n, ep)
              /\ UNCHANGED <<txFifo, event, irq, reply>>
  /\ UNCHANGED <<ctl, rxFifo, controlVars, setupRecv, enumer, server, listed,
                 host, outSeq>>

AllPushed(f, data) ==
  LET pushed[i \in 0 .. Len(data)] ==
        IF i = 0 THEN f ELSE Pipe!Push(pushed[i - 1], data[i])
  IN  pushed[Len(data)]

(* Answered at once, whether or not the FIFO had room. *)
usbipOut(n, ep, data) ==
  /\ MaySubmit(n, ep)
  /\ Mapped("rx", ep) # {}
  /\ LET p == First(Mapped("rx", ep))
     IN  /\ Len(data) <= FifoSize
         /\ p \in enable.rx
         /\ rxFifo' = [rxFifo EXCEPT ![p] = AllPushed(@, data)]
         /\ Signal(TRUE, Added("rx", p))
  /\ UNCHANGED <<ctl, txFifo, controlVars, setupRecv, enumer, usbipVars>>

UnlinkOutOnly(n) ==
  /\ host
  /\ urb[n].st # "spurious"
  /\ outSeq' = IF outSeq = n THEN NoSeq ELSE outSeq
  /\ urb' = [urb EXCEPT ![n] = FreeUrb]
  /\ UNCHANGED <<fifoVars, controlVars, event, irq, setupRecv, enumer,
                 server, listed, host, in, reply>>

(* The host gives up on n; the server confirms whatever the device says.   *)
(* n may also have been answered while the host was asking.                *)
usbipUnlink(n) ==
  LET held == {ep \in InEps : in[ep].seq = n}
  IN  /\ host
      /\ urb[n].st # "spurious"
      /\ in' = IF held = {} THEN in ELSE [in EXCEPT ![First(held)] = NoIn]
      /\ outSeq' = IF held = {} /\ outSeq = n THEN NoSeq ELSE outSeq
      /\ urb' = [urb EXCEPT ![n] = FreeUrb]
      /\ UNCHANGED <<fifoVars, controlVars, event, irq, setupRecv, enumer,
                     server, listed, host, reply>>

Attach == /\ server /\ listed /\ ~host
          /\ host' = TRUE
          /\ UNCHANGED <<devVars, urb, reply>>

Detach == /\ host
          /\ \A n \in Seqs : ~Waiting(n)
          /\ host' = FALSE
          /\ UNCHANGED <<devVars, urb, reply>>

(* The processor accepts IRQ1. *)
ServiceInterrupt ==
  /\ irq
  /\ irq' = FALSE
  /\ UNCHANGED <<fifoVars, controlVars, event, setupRecv, enumer, usbipVars>>

-----------------------------------------------------------------------------
(* The FIFOs empty and nothing enabled.  endpointControl and the transmit  *)
(* commands are not initialised. *)
Quiet ==
  /\ ctl = Ctl!EmptyFifo
  /\ txFifo = [p \in Pipes |-> Pipe!EmptyFifo]
  /\ rxFifo = [p \in Pipes |-> Pipe!EmptyFifo]
  /\ enable = NothingEnabled
  /\ last \in SUBSET Pipes
  /\ epc \in [tx : [Pipes -> EndpointControl], rx : [Pipes -> EndpointControl]]
  /\ event = NoEvents
  /\ setupRecv = FALSE
  /\ mask = NoMasks
  /\ irq = FALSE
  /\ in = [ep \in InEps |-> NoIn]
  /\ outSeq = NoSeq
  /\ host = FALSE
  /\ urb = [n \in Seqs |-> FreeUrb]
  /\ reply = [ep \in InEps |-> << >>]

(* Power-up with --usbip: the constructor resets the device, deciding by   *)
(* an uninitialised enumerationState whether the server is started, and    *)
(* main() starts the enumeration. *)
Init ==
  /\ Quiet
  /\ enumer = [state |-> "RequestDeviceDesc", devOff |-> 0, cfgLen |-> 0,
               cfgOff |-> 0, clean |-> TRUE]
  /\ listed = FALSE
  /\ server \in BOOLEAN

-----------------------------------------------------------------------------
(* The properties that every use of the device must keep. *)

(* usbip_client_reply() and usbip_client_stall() are only called for a     *)
(* request the host is waiting for: never twice for one, and never after   *)
(* it was unlinked or its server was replaced. *)
NoSpuriousAnswer == \A n \in Seqs : urb[n].st # "spurious"

(* The device still knows every request the host waits for, so that some   *)
(* register write of the firmware can answer it. *)
NoLostUrb ==
  \A n \in Seqs : Waiting(n) => in[urb[n].ep].seq = n \/ outSeq = n

(* No step changes the events, by adding one, by reading one of them or by *)
(* a call of the host, and leaves an event with its masks open without     *)
(* IRQ1: firmware that serves one event per interrupt relies on it.        *)
PendingSignalled == [][event' # event /\ Pending' # {} => irq']_vars
=============================================================================
