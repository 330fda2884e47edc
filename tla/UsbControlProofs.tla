-------------------------- MODULE UsbControlProofs --------------------------
(***************************************************************************)
(* Endpoint 0 of the emulated USB device: the one FIFO that the setup      *)
(* packets of the enumeration and of a host, and the firmware's answers to *)
(* both, go through.                                                       *)
(***************************************************************************)
EXTENDS UsbControlSystem, SequenceTheorems, WellFoundedInduction, TLAPS

(* A set of numbers that is not empty has a least element: being less is
   well-founded. *)
LEMMA LeastNumber ==
  ASSUME NEW S \in SUBSET Nat, S # {}
  PROVE  \E m \in S : \A k \in S : m <= k
<1> DEFINE Below == {p \in Nat \X Nat : p[1] < p[2]}
<1>1. IsWellFoundedOn(Below, Nat)
  BY NatLessThanWellFounded, Zenon DEF OpToRel
<1>2. \A k, m \in Nat : k < m => <<k, m>> \in Below
  OBVIOUS
<1> HIDE DEF Below
<1>3. \E m \in S : \A k \in S : <<k, m>> \notin Below
  BY <1>1, WFMin
<1>4. \A k, m \in S : <<k, m>> \notin Below => m <= k
  <2>1. \A k, m \in S : k \in Nat /\ m \in Nat
    OBVIOUS
  <2>2. \A k, m \in Nat : ~(k < m) => m <= k
    OBVIOUS
  <2> QED
    BY <1>2, <2>1, <2>2, Zenon
<1> QED
  BY <1>3, <1>4

Kinds == {"device", "address", "header", "config", "get", "set"}
Bytes == Kinds \cup {Data, Unset}

States == {"RequestDeviceDesc", "ReadDeviceDesc", "SetAddress",
           "RequestConfigDesc", "RequestFullConfigDesc", "ReadConfigDesc",
           "Done"}

Steps == {"reset", "masks", "listen", "idle", "handler", "rx", "setup",
          "flush", "answer", "fill", "tx"}

CtlFifos == [q : Seq(Bytes), full : BOOLEAN]

Shapes ==
  /\ pc \in Steps
  /\ packet \in Seq(Bytes)
  /\ left \in Nat /\ room \in 0 .. CtlSize /\ short \in BOOLEAN
  /\ ctl \in CtlFifos
  /\ enable \in [tx : SUBSET Fifos, rx : SUBSET Fifos]
  /\ event \in [tx : SUBSET Fifos, rx : SUBSET Fifos, nak : BOOLEAN]
  /\ mask.tx \subseteq {0} /\ mask.rx \subseteq {0}
  /\ setupRecv \in BOOLEAN
  /\ enumer \in [state : States, devOff : Nat, cfgLen : Nat, cfgOff : Nat,
                 clean : BOOLEAN]
  /\ listed \in BOOLEAN /\ server \in BOOLEAN /\ host \in BOOLEAN
  /\ DOMAIN in = InEps
  /\ in[0] \in [seq : Seqs \cup {NoSeq}, len : Nat, data : Seq({Data})]
  /\ urb \in [Seqs -> [st : {"free", "waiting", "spurious"}, ep : InEps]]
  /\ DOMAIN reply = InEps

Busy == in[0].seq # NoSeq

(* A host comes once the enumeration is done; a request it waits for on    *)
(* endpoint 0 is known to it as such. *)
Hosted ==
  /\ pc = "reset" => ~listed
  /\ pc \in {"reset", "masks"} => enumer.state = "RequestDeviceDesc"
  /\ listed => enumer.state = "Done"
  /\ host => listed /\ server
  /\ Busy => /\ host
             /\ Waiting(in[0].seq) /\ urb[in[0].seq].ep = 0
             /\ Len(in[0].data) < in[0].len \/ in[0].len = 0
             /\ Len(in[0].data) <= in[0].len

(* The offsets into the descriptors.  The length of the configuration is   *)
(* known once some of its header was read. *)
Offsets ==
  /\ enumer.clean
  /\ enumer.devOff <= DevDescLen
  /\ enumer.state = "ReadDeviceDesc" => enumer.devOff < DevDescLen
  /\ enumer.state = "RequestFullConfigDesc" /\ enumer.cfgOff # 0 =>
       /\ enumer.cfgLen = CfgLen
       /\ enumer.cfgOff >= CtlSize \/ enumer.cfgOff >= CfgHeadLen
  /\ enumer.state = "ReadConfigDesc" => /\ enumer.cfgLen = CfgLen
                                        /\ enumer.cfgOff < CfgLen

(* The request being served, and that nothing of its answer has been       *)
(* collected. *)
Current ==
  CASE enumer.state = "ReadDeviceDesc" -> "device"
    [] enumer.state = "RequestConfigDesc" -> "address"
    [] enumer.state = "RequestFullConfigDesc" -> "header"
    [] enumer.state = "ReadConfigDesc" -> "config"
    [] OTHER -> IF in[0].len = 0 THEN "set" ELSE "get"

Fresh ==
  \/ enumer.state = "ReadDeviceDesc" /\ enumer.devOff = 0
  \/ enumer.state = "RequestConfigDesc"
  \/ enumer.state \in {"RequestFullConfigDesc", "ReadConfigDesc"}
       /\ enumer.cfgOff = 0
  \/ enumer.state = "Done" /\ Busy /\ in[0].data = << >>

(* The bytes of the answer that the device has not collected are k.        *)
Owed(k) ==
  \/ /\ enumer.state = "ReadDeviceDesc" /\ enumer.devOff + k = DevDescLen
     /\ ~short
  \/ /\ enumer.state = "RequestConfigDesc" /\ k = 0 /\ ~short
  \/ /\ enumer.state = "RequestFullConfigDesc" /\ enumer.cfgOff < CfgHeadLen
     /\ enumer.cfgOff + k = CfgHeadLen /\ ~short
  \/ /\ enumer.state = "ReadConfigDesc" /\ enumer.cfgOff + k = CfgLen
     /\ ~short
  \/ /\ enumer.state = "Done" /\ Busy
     /\ Len(in[0].data) + k <= in[0].len
     /\ short => Len(in[0].data) + k < in[0].len
     /\ k > 0 /\ ~short => Len(in[0].data) + k = in[0].len

AllAre(s, b) == \A i \in 1 .. Len(s) : s[i] = b

(* Endpoint 0 is in one of six phases.  In the first there is no request,  *)
(* in the others there is one. *)
Silent ==
  /\ pc \in {"reset", "masks", "listen", "idle", "handler", "tx"}
  /\ ctl = Ctl!EmptyFifo /\ 0 \notin event.rx
  /\ left = 0 /\ ~short
  /\ \/ enumer.state \in {"RequestDeviceDesc", "SetAddress", "RequestConfigDesc"}
     \/ enumer.state = "RequestFullConfigDesc" /\ enumer.cfgOff >= CfgHeadLen
     \/ enumer.state = "Done" /\ ~Busy

(* The setup packet is in the FIFO, and no event can be taken for that of  *)
(* an earlier transmission while the device is being enumerated. *)
Posted ==
  /\ \/ pc \in {"idle", "handler", "rx"}
     \/ pc \in {"tx", "listen"} /\ enumer.state = "Done"
  /\ Len(ctl.q) = CtlSize /\ AllAre(ctl.q, Current)
  /\ 0 \in event.rx /\ setupRecv
  /\ 0 \notin event.tx \/ enumer.state = "Done"
  /\ left = 0 /\ ~short
  /\ Fresh

Reading ==
  /\ pc = "setup"
  /\ Len(packet) + Len(ctl.q) = CtlSize
  /\ AllAre(packet, Current) /\ AllAre(ctl.q, Current)
  /\ 0 \notin event.rx
  /\ Fresh

Deciding ==
  /\ pc \in {"flush", "answer"}
  /\ ctl = Ctl!EmptyFifo
  /\ Len(packet) = CtlSize /\ AllAre(packet, Current)
  /\ 0 \notin event.rx
  /\ Fresh

Filling ==
  /\ pc = "fill"
  /\ Len(ctl.q) + room = CtlSize /\ (ctl.full <=> room = 0)
  /\ AllAre(ctl.q, Data)
  /\ 0 \notin event.rx
  /\ short => left + Len(ctl.q) > 0
  /\ Owed(left + Len(ctl.q))

Sent ==
  /\ pc \in {"idle", "handler", "tx"}
  /\ ctl = Ctl!EmptyFifo /\ 0 \notin event.rx
  /\ left > 0 \/ short
  /\ Owed(left)

PacketOK ==
  \A i \in 1 .. Len(packet) : packet[i] = packet[1] /\ packet[i] \in Kinds

ReplyOK == \A i \in DOMAIN reply[0] : reply[0][i] \in {Data, Unset}

OnePhase == Silent \/ Posted \/ Reading \/ Deciding \/ Filling \/ Sent

IInv == Shapes /\ Hosted /\ Offsets /\ PacketOK /\ ReplyOK /\ OnePhase

-----------------------------------------------------------------------------
(* The FIFO. *)

LEMMA EmptyCtl ==
  /\ Ctl!EmptyFifo \in CtlFifos
  /\ Ctl!EmptyFifo.q = << >> /\ ~Ctl!EmptyFifo.full
  /\ Ctl!IsEmpty(Ctl!EmptyFifo)
BY EmptySeq DEF Ctl!EmptyFifo, Ctl!IsEmpty, CtlFifos

(* Eight pushes of a setup packet onto an empty FIFO leave the packet      *)
(* there. *)
LEMMA PacketPushed ==
  ASSUME NEW b \in Kinds
  PROVE  /\ SetupPushed(Ctl!EmptyFifo, b) \in CtlFifos
         /\ Len(SetupPushed(Ctl!EmptyFifo, b).q) = CtlSize
         /\ AllAre(SetupPushed(Ctl!EmptyFifo, b).q, b)
<1> DEFINE Filled(n) == [q |-> [j \in 1 .. n |-> b], full |-> n = CtlSize]
           N == 0 .. CtlSize
           Step(g) == [i \in N |-> IF i = 0 THEN Ctl!EmptyFifo
                                   ELSE Ctl!Push(g[i - 1], b)]
           f == CHOOSE g : g = Step(g)
<1>1. CtlSize \in Nat \ {0} /\ b \in Bytes
  BY UsbAssumption DEF Bytes
<1>2. SetupPushed(Ctl!EmptyFifo, b) = f[CtlSize]
  BY DEF SetupPushed
<1> HIDE DEF f
<1>3. Filled(0) = Ctl!EmptyFifo
  <2>1. [j \in 1 .. 0 |-> b] = << >>
    OBVIOUS
  <2> QED
    BY <1>1, <2>1 DEF Ctl!EmptyFifo
<1>4. ASSUME NEW n \in 1 .. CtlSize
      PROVE  Filled(n) = Ctl!Push(Filled(n - 1), b)
  <2> DEFINE s == [j \in 1 .. n - 1 |-> b]
  <2>1. n - 1 \in Nat /\ n - 1 + 1 = n /\ n - 1 # CtlSize
    BY <1>1
  <2>2. s \in Seq(Bytes) /\ Len(s) = n - 1
    BY <1>1, <2>1
  <2>3. Append(s, b) = [j \in 1 .. n |-> b]
    BY <1>1, <2>1, <2>2
  <2>4. Filled(n - 1).q = s /\ Filled(n - 1).full = FALSE
    BY <2>1
  <2> HIDE DEF s
  <2>5. Ctl!Push(Filled(n - 1), b)
          = [q |-> Append(s, b), full |-> FALSE \/ Len(s) + 1 = CtlSize]
    BY <2>4 DEF Ctl!Push
  <2> QED
    BY <2>1, <2>2, <2>3, <2>5
<1>5. [n \in N |-> Filled(n)] = Step([n \in N |-> Filled(n)])
  <2> DEFINE F == [n \in N |-> Filled(n)]
  <2>1. \A i \in N : F[i] = IF i = 0 THEN Ctl!EmptyFifo
                            ELSE Ctl!Push(F[i - 1], b)
    <3> TAKE i \in N
    <3>1. CASE i = 0
      BY <1>1, <1>3, <3>1
    <3>2. CASE i # 0
      <4>1. i \in 1 .. CtlSize /\ i - 1 \in N
        BY <1>1, <3>2
      <4>2. F[i] = Filled(i) /\ F[i - 1] = Filled(i - 1)
        BY <4>1
      <4> HIDE DEF F, Filled
      <4> QED
        BY <1>4, <3>2, <4>1, <4>2
    <3> QED
      BY <3>1, <3>2
  <2>2. F = [i \in N |-> F[i]]
    OBVIOUS
  <2> HIDE DEF F
  <2> QED
    BY <2>1, <2>2 DEF F
<1>6. f = Step(f)
  BY <1>5 DEF f
<1> HIDE DEF Filled
<1>7. \A i \in N : f[i] = IF i = 0 THEN Ctl!EmptyFifo
                          ELSE Ctl!Push(f[i - 1], b)
  BY <1>6
<1>8. \A n \in N : f[n] = Filled(n)
  <2> DEFINE Bad == {n \in N : f[n] # Filled(n)}
  <2>1. SUFFICES ASSUME Bad # {} PROVE FALSE
    OBVIOUS
  <2>2. PICK m \in Bad : \A k \in Bad : m <= k
    <3>1. Bad \in SUBSET Nat
      BY <1>1
    <3> HIDE DEF Bad
    <3> QED
      BY <2>1, <3>1, LeastNumber
  <2>3. m \in N /\ f[m] # Filled(m)
    OBVIOUS
  <2>4. m # 0
    BY <1>1, <1>3, <1>7, <2>3
  <2>5. m \in 1 .. CtlSize /\ m - 1 \in N /\ ~(m <= m - 1)
    BY <1>1, <2>3, <2>4
  <2>6. f[m - 1] = Filled(m - 1)
    BY <2>2, <2>5
  <2> QED
    BY <1>4, <1>7, <2>3, <2>4, <2>5, <2>6
<1>9. SetupPushed(Ctl!EmptyFifo, b) = Filled(CtlSize)
  BY <1>1, <1>2, <1>8
<1> QED
  <2>1. /\ [j \in 1 .. CtlSize |-> b] \in Seq(Bytes)
        /\ Len([j \in 1 .. CtlSize |-> b]) = CtlSize
    BY <1>1
  <2> QED
    BY <1>1, <1>9, <2>1 DEF Filled, CtlFifos, AllAre

(* A byte taken from the FIFO, or put there.                               *)
LEMMA BytePopped ==
  ASSUME NEW f \in CtlFifos, NEW b, AllAre(f.q, b), Len(f.q) > 0
  PROVE  /\ ~Ctl!IsEmpty(f) /\ Ctl!Front(f) = b
         /\ Ctl!Pop(f) \in CtlFifos
         /\ Len(Ctl!Pop(f).q) = Len(f.q) - 1 /\ AllAre(Ctl!Pop(f).q, b)
<1>1. f.q \in Seq(Bytes) /\ f.q # << >>
  BY DEF CtlFifos
<1>2. /\ Head(f.q) = f.q[1] /\ Tail(f.q) \in Seq(Bytes)
      /\ Len(Tail(f.q)) = Len(f.q) - 1
      /\ \A i \in 1 .. Len(Tail(f.q)) : Tail(f.q)[i] = f.q[i + 1]
  BY <1>1, HeadTailProperties
<1>3. Ctl!Pop(f) = [q |-> Tail(f.q), full |-> FALSE]
  BY DEF Ctl!Pop
<1>4. Len(f.q) \in Nat
  BY <1>1
<1> QED
  BY <1>1, <1>2, <1>3, <1>4 DEF CtlFifos, AllAre, Ctl!IsEmpty, Ctl!Front

LEMMA BytePushed ==
  ASSUME NEW f \in CtlFifos, NEW b \in Bytes, AllAre(f.q, b), ~f.full,
         Len(f.q) < CtlSize
  PROVE  /\ Ctl!Push(f, b) \in CtlFifos
         /\ Len(Ctl!Push(f, b).q) = Len(f.q) + 1
         /\ Ctl!Push(f, b).full <=> Len(f.q) + 1 = CtlSize
         /\ AllAre(Ctl!Push(f, b).q, b)
<1>1. f.q \in Seq(Bytes) /\ Len(f.q) \in Nat
  BY DEF CtlFifos
<1>2. Ctl!Push(f, b) = [q |-> Append(f.q, b),
                        full |-> f.full \/ Len(f.q) + 1 = CtlSize]
  BY DEF Ctl!Push
<1>3. /\ Append(f.q, b) \in Seq(Bytes) /\ Len(Append(f.q, b)) = Len(f.q) + 1
      /\ \A i \in 1 .. Len(f.q) + 1 : Append(f.q, b)[i] = b
  BY <1>1 DEF AllAre
<1>4. Ctl!Push(f, b).q = Append(f.q, b)
      /\ (Ctl!Push(f, b).full <=> Len(f.q) + 1 = CtlSize)
  <2>1. PICK x, y : x = Append(f.q, b) /\ y = (f.full \/ Len(f.q) + 1 = CtlSize)
    OBVIOUS
  <2>2. Ctl!Push(f, b) = [q |-> x, full |-> y]
    BY <1>2, <2>1, Zenon
  <2>3. Ctl!Push(f, b).q = x /\ (Ctl!Push(f, b).full <=> y)
    BY ONLY <2>2
  <2>4. y <=> Len(f.q) + 1 = CtlSize
    BY <2>1 DEF CtlFifos
  <2> QED
    BY <2>1, <2>3, <2>4, Zenon
<1>5. (f.full \/ Len(f.q) + 1 = CtlSize) \in BOOLEAN
  OBVIOUS
<1> QED
  BY <1>2, <1>3, <1>4, <1>5 DEF CtlFifos, AllAre

(* What empties the FIFO.                                                  *)
LEMMA AllDrained ==
  ASSUME NEW f \in CtlFifos, ~Ctl!IsEmpty(f)
  PROVE  Drained(f) = Ctl!EmptyFifo
<1>1. f.q \in Seq(Bytes) /\ Len(f.q) \in Nat /\ Len(f.q) # 0
  BY EmptySeq DEF CtlFifos, Ctl!IsEmpty
<1>2. SubSeq(f.q, Len(f.q) + 1, Len(f.q)) = << >>
  BY <1>1
<1> QED
  BY <1>1, <1>2 DEF Drained, Drop, Ctl!EmptyFifo

-----------------------------------------------------------------------------
(* The steps of the firmware that move nothing but itself. *)

deviceVars == <<ctl, enable, event, mask, setupRecv, enumer>>
requestVars == <<listed, server, host, in, urb, reply>>

LEMMA ConstantsAreNumbers ==
  /\ CtlSize \in Nat /\ CtlSize > 0 /\ NoSeq \notin Seqs /\ NoSeq = 0
  /\ DevDescLen \in Nat /\ DevDescLen > 0
  /\ CfgHeadLen \in Nat /\ CfgHeadLen > 0
  /\ CfgLen \in Nat /\ CfgLen > 0
  /\ LenStart \in Nat /\ LenEnd \in Nat /\ LenEnd <= CtlSize
  /\ LenEnd <= CfgHeadLen /\ GarbageLens \subseteq Nat
  /\ 0 \in InEps /\ 0 \in Fifos
BY UsbAssumption DEF NoSeq, InEps, Fifos

LEMMA FreeUrbType == FreeUrb \in [st : {"free", "waiting", "spurious"}, ep : InEps]
BY DEF FreeUrb, InEps

LEMMA NoInType ==
  /\ NoIn \in [seq : Seqs \cup {NoSeq}, len : Nat, data : Seq({Data})]
  /\ NoIn.seq = NoSeq
BY EmptySeq DEF NoIn

LEMMA NoBytes == Len(<< >>) = 0 /\ << >> \in Seq(Bytes) /\ \A b : AllAre(<< >>, b)
BY EmptySeq DEF AllAre

(* What only depends on the requests and the enumeration. *)
LEMMA RequestsKept ==
  ASSUME IInv, UNCHANGED <<requestVars, enumer>>,
         pc' \notin {"reset", "masks"}
  PROVE  Hosted' /\ Offsets' /\ ReplyOK'
BY DEF IInv, Hosted, Offsets, ReplyOK, Busy, Waiting, requestVars

LEMMA InitIInv == SystemInit => IInv
<1> SUFFICES ASSUME SystemInit PROVE IInv
  OBVIOUS
<1> USE DEF SystemInit, Init, Quiet
<1>1. in[0] = NoIn /\ ~Busy
  BY ConstantsAreNumbers, NoInType DEF Busy
<1>2. Shapes
  <2>1. /\ enable \in [tx : SUBSET Fifos, rx : SUBSET Fifos]
        /\ event \in [tx : SUBSET Fifos, rx : SUBSET Fifos, nak : BOOLEAN]
        /\ mask.tx \subseteq {0} /\ mask.rx \subseteq {0}
    BY DEF NothingEnabled, NoEvents, NoMasks
  <2>2. enumer \in [state : States, devOff : Nat, cfgLen : Nat, cfgOff : Nat,
                    clean : BOOLEAN]
    BY DEF States
  <2>3. pc \in Steps /\ room \in 0 .. CtlSize
    BY ConstantsAreNumbers DEF Steps
  <2> QED
    BY <1>1, <2>1, <2>2, <2>3, EmptyCtl, NoBytes, FreeUrbType, NoInType DEF Shapes
<1>3. Hosted /\ Offsets
  BY <1>1, ConstantsAreNumbers DEF Hosted, Offsets
<1>4. PacketOK /\ ReplyOK
  BY NoBytes, ConstantsAreNumbers DEF PacketOK, ReplyOK
<1>5. Silent
  BY DEF Silent, NoEvents
<1> QED
  BY <1>2, <1>3, <1>4, <1>5 DEF IInv, OnePhase

LEMMA Reset ==
  ASSUME IInv, pc = "reset", reset, Goto("masks")
  PROVE  IInv'
<1> USE DEF Goto
<1>1. in'[0] = NoIn /\ ~Busy' /\ DOMAIN in' = InEps /\ DOMAIN reply' = InEps
  BY ConstantsAreNumbers, NoInType DEF reset, Busy
<1>2. /\ enumer.state = "RequestDeviceDesc" /\ enumer.devOff <= DevDescLen
      /\ enumer \in [state : States, devOff : Nat, cfgLen : Nat, cfgOff : Nat,
                     clean : BOOLEAN]
  BY DEF IInv, Hosted, Offsets, Shapes
<1>3. /\ enumer' \in [state : States, devOff : Nat, cfgLen : Nat, cfgOff : Nat,
                      clean : BOOLEAN]
      /\ enumer'.state = "RequestDeviceDesc" /\ enumer'.clean
      /\ enumer'.devOff = enumer.devOff
  BY <1>2 DEF reset, States
<1>4. Silent /\ ~listed
  BY DEF IInv, OnePhase, Posted, Reading, Deciding, Filling, Sent, Hosted
<1>5. Shapes'
  <2>1. /\ enable' \in [tx : SUBSET Fifos, rx : SUBSET Fifos]
        /\ event' \in [tx : SUBSET Fifos, rx : SUBSET Fifos, nak : BOOLEAN]
        /\ mask'.tx \subseteq {0} /\ mask'.rx \subseteq {0}
    BY DEF reset, NothingEnabled, NoEvents, NoMasks
  <2>2. urb' \in [Seqs -> [st : {"free", "waiting", "spurious"}, ep : InEps]]
    BY FreeUrbType DEF reset
  <2>3. UNCHANGED <<packet, left, room, short, setupRecv, listed>>
        /\ pc' \in Steps /\ server' \in BOOLEAN /\ host' \in BOOLEAN
        /\ ctl' \in CtlFifos
    BY EmptyCtl DEF reset, Steps
  <2> QED
    BY <1>1, <1>3, <2>1, <2>2, <2>3, NoInType DEF IInv, Shapes
<1>6. Hosted'
  BY <1>1, <1>3, <1>4 DEF Hosted, reset
<1>7. Offsets'
  BY <1>2, <1>3 DEF Offsets
<1>8. PacketOK' /\ ReplyOK'
  <2>1. reply'[0] = << >>
    BY ConstantsAreNumbers DEF reset
  <2> QED
    BY <2>1 DEF IInv, PacketOK, ReplyOK
<1>9. Silent'
  BY <1>3, <1>4 DEF Silent, reset, NoEvents
<1> QED
  BY <1>5, <1>6, <1>7, <1>8, <1>9 DEF IInv, OnePhase

LEMMA Masks ==
  ASSUME IInv, pc = "masks", WriteMasks(FirmwareMasks), Goto("listen")
  PROVE  IInv'
<1>1. /\ UNCHANGED <<ctl, enable, event, setupRecv, enumer, requestVars,
                     packet, left, room, short>>
      /\ pc' = "listen" /\ mask' = FirmwareMasks
  BY DEF WriteMasks, Goto, requestVars, fifoVars, usbipVars
<1>2. Silent
  BY DEF IInv, OnePhase, Posted, Reading, Deciding, Filling, Sent
<1>3. Shapes'
  BY <1>1 DEF IInv, Shapes, FirmwareMasks, Steps, requestVars
<1>4. Silent'
  BY <1>1, <1>2 DEF Silent, Busy, requestVars
<1>5. PacketOK'
  BY <1>1 DEF IInv, PacketOK
<1> QED
  BY <1>1, <1>3, <1>4, <1>5, RequestsKept DEF IInv, OnePhase

(* The firmware goes to another step and leaves the device as it was. *)
LEMMA Gone ==
  ASSUME IInv, UNCHANGED <<deviceVars, requestVars, packet, left, room, short>>,
         pc' \in Steps \ {"reset", "masks"}, OnePhase'
  PROVE  IInv'
<1>1. Shapes' /\ PacketOK'
  BY DEF IInv, Shapes, PacketOK, deviceVars, requestVars
<1> QED
  BY <1>1, RequestsKept DEF IInv, deviceVars

LEMMA Interrupted ==
  ASSUME IInv, Interrupt
  PROVE  IInv'
<1>1. /\ UNCHANGED <<deviceVars, requestVars, packet, left, room, short>>
      /\ pc = "idle" /\ pc' = "handler"
  BY DEF Interrupt, ServiceInterrupt, Goto, deviceVars, requestVars, fifoVars,
         controlVars, usbipVars
<1>2. /\ Silent => Silent'
      /\ Posted => Posted'
      /\ Sent => Sent'
  BY <1>1 DEF Silent, Posted, Sent, Busy, Fresh, Owed, AllAre, Current,
              deviceVars, requestVars
<1>3. OnePhase'
  BY <1>1, <1>2 DEF IInv, OnePhase, Reading, Deciding, Filling
<1> QED
  BY <1>1, <1>3, Gone DEF Steps

(* While a setup packet is in the FIFO and the device is being enumerated, *)
(* no transmission is served. *)
LEMMA Dispatched ==
  ASSUME IInv, Dispatch
  PROVE  IInv'
<1>1. /\ UNCHANGED <<deviceVars, requestVars, packet, left, room, short>>
      /\ pc = "handler"
      /\ \/ pc' = "idle"
         \/ pc' = "rx" /\ "RX" \in Pending
         \/ pc' = "tx" /\ "TX" \in Pending
  BY DEF Dispatch, Goto, vars, devVars, hostVars, deviceVars, requestVars
<1>2. /\ "RX" \in Pending => 0 \in event.rx
      /\ "TX" \in Pending => 0 \in event.tx
  BY DEF Pending, MAEV, IInv, Shapes
<1>3. ASSUME pc' = "idle"
      PROVE  OnePhase'
  <2>1. /\ Silent => Silent'
        /\ Posted => Posted'
        /\ Sent => Sent'
    BY <1>1, <1>3 DEF Silent, Posted, Sent, Busy, Fresh, Owed, AllAre, Current,
                      deviceVars, requestVars
  <2> QED
    BY <1>1, <2>1 DEF IInv, OnePhase, Reading, Deciding, Filling
<1>4. ASSUME pc' = "rx" /\ 0 \in event.rx
      PROVE  OnePhase'
  <2>1. Posted
    BY <1>1, <1>4 DEF IInv, OnePhase, Silent, Reading, Deciding, Filling, Sent
  <2>2. Posted'
    BY <1>1, <1>4, <2>1 DEF Posted, Busy, Fresh, AllAre, Current,
                            deviceVars, requestVars
  <2> QED
    BY <2>2 DEF OnePhase
<1>5. ASSUME pc' = "tx" /\ 0 \in event.tx
      PROVE  OnePhase'
  <2>1. /\ Silent => Silent'
        /\ Posted => Posted'
        /\ Sent => Sent'
    BY <1>1, <1>5 DEF Silent, Posted, Sent, Busy, Fresh, Owed, AllAre, Current,
                      deviceVars, requestVars
  <2> QED
    BY <1>1, <2>1 DEF IInv, OnePhase, Reading, Deciding, Filling
<1>6. pc' \in Steps \ {"reset", "masks"}
  BY <1>1 DEF Steps
<1> QED
  BY <1>1, <1>2, <1>3, <1>4, <1>5, <1>6, Gone

-----------------------------------------------------------------------------
(* Reading a setup packet and deciding on its answer. *)

LEMMA ReceivedStep ==
  ASSUME IInv, Received
  PROVE  IInv'
<1>1. Posted /\ pc = "rx"
  BY DEF Received, IInv, OnePhase, Silent, Reading, Deciding, Filling, Sent
<1>2. /\ UNCHANGED <<ctl, enable, mask, enumer, requestVars, left, room, short>>
      /\ event' = [event EXCEPT !.rx = @ \ {0}]
      /\ setupRecv' = FALSE
      /\ pc' = "setup" /\ packet' = << >>
  BY <1>1 DEF Received, ReadRXS0, ReadRXS, Posted, requestVars, fifoVars,
              controlVars, usbipVars
<1>3. event \in [tx : SUBSET Fifos, rx : SUBSET Fifos, nak : BOOLEAN]
  BY DEF IInv, Shapes
<1>4. /\ event' \in [tx : SUBSET Fifos, rx : SUBSET Fifos, nak : BOOLEAN]
      /\ 0 \notin event'.rx
  BY <1>2, <1>3
<1>5. Shapes'
  BY <1>2, <1>4, NoBytes DEF IInv, Shapes, Steps, requestVars
<1>6. PacketOK'
  BY <1>2, NoBytes DEF PacketOK
<1>7. Reading'
  <2>1. Len(ctl.q) = CtlSize /\ Len(packet') + Len(ctl.q) = CtlSize
    BY <1>1, <1>2, NoBytes, ConstantsAreNumbers DEF Posted
  <2>2. AllAre(packet', Current') /\ AllAre(ctl.q, Current')
    BY <1>1, <1>2, NoBytes DEF Posted, Current, AllAre, requestVars
  <2>3. Fresh'
    BY <1>1, <1>2 DEF Posted, Fresh, Busy, requestVars
  <2> QED
    BY <1>2, <1>4, <2>1, <2>2, <2>3 DEF Reading, AllAre
<1> QED
  BY <1>2, <1>5, <1>6, <1>7, RequestsKept DEF IInv, OnePhase

LEMMA CurrentIsKind == Current \in Kinds
BY DEF Current, Kinds

LEMMA ReadSetupStep ==
  ASSUME IInv, ReadSetup
  PROVE  IInv'
<1>1. Reading /\ pc = "setup" /\ Len(packet) < CtlSize
  BY DEF ReadSetup, IInv, OnePhase, Silent, Posted, Deciding, Filling, Sent
<1>2. ctl \in CtlFifos /\ AllAre(ctl.q, Current) /\ Len(ctl.q) \in Nat
      /\ packet \in Seq(Bytes) /\ Len(packet) \in Nat /\ AllAre(packet, Current)
      /\ Len(packet) + Len(ctl.q) = CtlSize
  BY <1>1 DEF IInv, Shapes, Reading, CtlFifos
<1>3. Len(ctl.q) > 0
  BY <1>1, <1>2, ConstantsAreNumbers
<1>4. /\ UNCHANGED <<enable, event, mask, setupRecv, enumer, requestVars, pc,
                     left, room, short>>
      /\ ctl' = Ctl!Pop(ctl)
      /\ packet' = Append(packet, Current)
  BY <1>2, <1>3, BytePopped DEF ReadSetup, ReadRXD0, requestVars, controlVars, usbipVars
<1>5. /\ ctl' \in CtlFifos /\ Len(ctl'.q) = Len(ctl.q) - 1
      /\ AllAre(ctl'.q, Current)
  BY <1>2, <1>3, <1>4, BytePopped
<1>6. /\ packet' \in Seq(Bytes) /\ Len(packet') = Len(packet) + 1
      /\ AllAre(packet', Current)
  BY <1>2, <1>4, CurrentIsKind DEF AllAre, Bytes
<1>7. Shapes'
  BY <1>4, <1>5, <1>6 DEF IInv, Shapes, requestVars
<1>8. PacketOK'
  BY <1>6, CurrentIsKind DEF PacketOK, AllAre
<1>9. Reading'
  <2>1. Current' = Current /\ Fresh' = Fresh
    BY <1>4 DEF Current, Fresh, Busy, requestVars
  <2>2. Len(packet') + Len(ctl'.q) = CtlSize
    <3>1. \A x, y \in Nat : (x + 1) + (y - 1) = x + y
      OBVIOUS
    <3> QED
      BY <1>2, <1>5, <1>6, <3>1
  <2> QED
    BY <1>1, <1>4, <1>5, <1>6, <2>1, <2>2 DEF Reading, AllAre
<1> QED
  BY <1>1, <1>4, <1>7, <1>8, <1>9, RequestsKept DEF IInv, OnePhase

LEMMA EnabledType ==
  ASSUME IInv, NEW dir \in {"tx", "rx"}, NEW en \in BOOLEAN
  PROVE  Enabled(dir, 0, en) \in [tx : SUBSET Fifos, rx : SUBSET Fifos]
BY ConstantsAreNumbers DEF IInv, Shapes, Enabled

LEMMA FlushTxStep ==
  ASSUME IInv, FlushTx
  PROVE  IInv'
<1>1. Reading /\ pc = "setup" /\ Len(packet) = CtlSize
  BY DEF FlushTx, IInv, OnePhase, Silent, Posted, Deciding, Filling, Sent
<1>2. /\ UNCHANGED <<event, mask, setupRecv, enumer, requestVars, packet, left,
                     room, short>>
      /\ enable' = Enabled("tx", 0, FALSE)
      /\ ctl' = Ctl!EmptyFifo
      /\ pc' = "flush"
  BY EmptyCtl DEF FlushTx, Goto, WriteTXC0, KeepUnsent, requestVars
<1>3. Shapes'
  BY <1>2, EmptyCtl, EnabledType DEF IInv, Shapes, Steps, requestVars
<1>4. Deciding'
  BY <1>1, <1>2 DEF Reading, Deciding, Current, Fresh, Busy, AllAre, requestVars
<1>5. PacketOK'
  BY <1>2 DEF IInv, PacketOK
<1> QED
  BY <1>2, <1>3, <1>4, <1>5, RequestsKept DEF IInv, OnePhase

LEMMA FlushRxStep ==
  ASSUME IInv, FlushRx
  PROVE  IInv'
<1>1. Deciding /\ pc = "flush"
  BY DEF FlushRx, IInv, OnePhase, Silent, Posted, Reading, Filling, Sent
<1>2. /\ UNCHANGED <<event, mask, setupRecv, enumer, requestVars, packet, left,
                     room, short>>
      /\ enable' = Enabled("rx", 0, FALSE)
      /\ ctl' = Ctl!EmptyFifo
      /\ pc' = "answer"
  BY DEF FlushRx, Goto, WriteRXC0, requestVars
<1>3. Shapes'
  BY <1>2, EmptyCtl, EnabledType DEF IInv, Shapes, Steps, requestVars
<1>4. Deciding'
  BY <1>1, <1>2 DEF Deciding, Current, Fresh, Busy, AllAre, requestVars
<1>5. PacketOK'
  BY <1>2 DEF IInv, PacketOK
<1> QED
  BY <1>2, <1>3, <1>4, <1>5, RequestsKept DEF IInv, OnePhase

(* The firmware has all of each descriptor, and no more than a host asks   *)
(* for. *)
LEMMA DecideAnswerStep ==
  ASSUME IInv, DecideAnswer
  PROVE  IInv'
<1>1. Deciding /\ pc = "answer"
  BY DEF DecideAnswer, IInv, OnePhase, Silent, Posted, Reading, Filling, Sent
<1>2. packet[1] = Current
  BY <1>1, ConstantsAreNumbers DEF Deciding, AllAre
<1> DEFINE some(n) == n \in 1 .. Asked - 1
<1>3. PICK n \in Available : left' = n /\ short' = some(n)
  BY DEF DecideAnswer
<1> HIDE DEF some
<1>4. /\ UNCHANGED <<deviceVars, requestVars, packet>>
      /\ room' = CtlSize /\ pc' = "fill"
  BY DEF DecideAnswer, vars, devVars, hostVars, deviceVars, requestVars
<1>5. n \in Nat /\ Owed(n)'
  <2>1. CASE enumer.state = "ReadDeviceDesc"
    <3>1. packet[1] = "device" /\ enumer.devOff = 0
      BY <1>1, <1>2, <2>1 DEF Current, Deciding, Fresh
    <3>2. Available = {DevDescLen} /\ Asked = DevDescLen
      BY <3>1 DEF Available, Asked
    <3>3. n = DevDescLen /\ ~some(n)
      BY <1>3, <3>2, ConstantsAreNumbers DEF some
    <3>4. ~short'
      BY <1>3, <3>3
    <3> QED
      BY <1>4, <2>1, <3>1, <3>3, <3>4, ConstantsAreNumbers DEF Owed, deviceVars
  <2>2. CASE enumer.state = "RequestConfigDesc"
    <3>1. packet[1] = "address"
      BY <1>2, <2>2 DEF Current
    <3>2. Available = {0}
      BY <3>1 DEF Available
    <3>3. n = 0 /\ ~some(n)
      BY <1>3, <3>2 DEF some
    <3>4. ~short'
      BY <1>3, <3>3
    <3> QED
      BY <1>4, <2>2, <3>3, <3>4 DEF Owed, deviceVars
  <2>3. CASE enumer.state = "RequestFullConfigDesc"
    <3>1. packet[1] = "header" /\ enumer.cfgOff = 0
      BY <1>1, <1>2, <2>3 DEF Current, Deciding, Fresh
    <3>2. Available = {CfgHeadLen} /\ Asked = CfgHeadLen
      BY <3>1 DEF Available, Asked
    <3>3. n = CfgHeadLen /\ ~some(n)
      BY <1>3, <3>2, ConstantsAreNumbers DEF some
    <3>4. ~short'
      BY <1>3, <3>3
    <3> QED
      BY <1>4, <2>3, <3>1, <3>3, <3>4, ConstantsAreNumbers DEF Owed, deviceVars
  <2>4. CASE enumer.state = "ReadConfigDesc"
    <3>1. packet[1] = "config" /\ enumer.cfgOff = 0 /\ enumer.cfgLen = CfgLen
      BY <1>1, <1>2, <2>4 DEF Current, Deciding, Fresh, IInv, Offsets
    <3>2. Available = {CfgLen} /\ Asked = CfgLen
      BY <3>1, ConstantsAreNumbers DEF Available, Asked, Least
    <3>3. n = CfgLen /\ ~some(n)
      BY <1>3, <3>2, ConstantsAreNumbers DEF some
    <3>4. ~short'
      BY <1>3, <3>3
    <3> QED
      BY <1>4, <2>4, <3>1, <3>3, <3>4, ConstantsAreNumbers DEF Owed, deviceVars
  <2>5. CASE enumer.state = "Done"
    <3>1. Busy /\ in[0].data = << >> /\ in[0].len \in Nat
      BY <1>1, <2>5 DEF Deciding, Fresh, IInv, Shapes
    <3>2. CASE in[0].len = 0
      <4>1. packet[1] = "set"
        BY <1>2, <2>5, <3>2 DEF Current
      <4>2. n = 0 /\ ~some(n)
        BY <1>3, <4>1 DEF Available, some
      <4>3. ~short'
        BY <1>3, <4>2
      <4> QED
        BY <1>4, <2>5, <3>1, <3>2, <4>2, <4>3, NoBytes
           DEF Owed, Busy, deviceVars, requestVars
    <3>3. CASE in[0].len # 0
      <4>1. packet[1] = "get"
        BY <1>2, <2>5, <3>3 DEF Current
      <4>2. Available = 0 .. in[0].len /\ Asked = in[0].len
        BY <4>1 DEF Available, Asked
      <4>3. n \in 0 .. in[0].len /\ (some(n) <=> n \in 1 .. in[0].len - 1)
        BY <1>3, <4>2 DEF some
      <4>4. short' <=> n \in 1 .. in[0].len - 1
        BY <1>3, <4>3
      <4> QED
        BY <1>4, <2>5, <3>1, <3>3, <4>3, <4>4, NoBytes
           DEF Owed, Busy, deviceVars, requestVars
    <3> QED
      BY <3>2, <3>3
  <2> QED
    BY <1>1, <2>1, <2>2, <2>3, <2>4, <2>5 DEF Deciding, Fresh
<1>6. /\ left' \in Nat /\ short' \in BOOLEAN
      /\ short' => left' > 0
  <2>1. left' \in Nat /\ (some(n) => left' > 0)
    BY <1>3, <1>5 DEF some
  <2>2. some(n) \in BOOLEAN
    BY DEF some
  <2> QED
    BY <1>3, <2>1, <2>2
<1>7. Shapes'
  BY <1>4, <1>6, ConstantsAreNumbers DEF IInv, Shapes, Steps, deviceVars, requestVars
<1>8. Filling'
  <2>1. ctl' = Ctl!EmptyFifo /\ Len(ctl'.q) = 0 /\ ~ctl'.full
    BY <1>1, <1>4, EmptyCtl, NoBytes DEF Deciding, deviceVars
  <2>2. left' \in Nat /\ CtlSize \in Nat
    BY <1>6, ConstantsAreNumbers
  <2>4. left' + 0 = left' /\ 0 + CtlSize = CtlSize /\ CtlSize # 0
    <3>1. \A x \in Nat : x + 0 = x /\ 0 + x = x
      OBVIOUS
    <3>2. left' + 0 = left'
      BY <2>2, <3>1
    <3>3. 0 + CtlSize = CtlSize
      BY <2>2, <3>1
    <3>4. CtlSize # 0
      BY ConstantsAreNumbers
    <3> QED
      BY <3>2, <3>3, <3>4
  <2>3. (Owed(left + Len(ctl.q)))'
    BY <1>3, <1>5, <2>1, <2>4
  <2>5. AllAre(ctl'.q, Data)
    BY <2>1 DEF AllAre
  <2>6. 0 \notin event'.rx
    BY <1>1, <1>4 DEF Deciding, deviceVars
  <2>7. short' => left' + Len(ctl'.q) > 0
    BY <1>6, <2>1, <2>4
  <2>8. /\ Len(ctl'.q) + room' = CtlSize
        /\ ctl'.full <=> room' = 0
    BY <1>4, <2>1, <2>4
  <2> QED
    BY <1>4, <2>3, <2>5, <2>6, <2>7, <2>8 DEF Filling, AllAre
<1>9. PacketOK'
  BY <1>4 DEF IInv, PacketOK
<1> QED
  BY <1>4, <1>7, <1>8, <1>9, RequestsKept DEF IInv, OnePhase, deviceVars

LEMMA FillStep ==
  ASSUME IInv, Fill
  PROVE  IInv'
<1>1. Filling /\ left > 0 /\ room > 0
  BY DEF Fill, IInv, OnePhase, Silent, Posted, Reading, Deciding, Sent
<1>2. /\ ctl \in CtlFifos /\ AllAre(ctl.q, Data) /\ ~ctl.full
      /\ Len(ctl.q) \in Nat /\ left \in Nat /\ room \in 0 .. CtlSize
      /\ Len(ctl.q) + room = CtlSize /\ Data \in Bytes
  BY <1>1 DEF IInv, Shapes, Filling, CtlFifos, Bytes
<1>3. Len(ctl.q) < CtlSize
  BY <1>1, <1>2, ConstantsAreNumbers
<1>4. /\ UNCHANGED <<enable, event, mask, setupRecv, enumer, requestVars, pc,
                     packet, short>>
      /\ ctl' = Ctl!Push(ctl, Data)
      /\ left' = left - 1 /\ room' = room - 1
  BY <1>2 DEF Fill, WriteTXD0, requestVars, controlVars, usbipVars
<1>5. /\ ctl' \in CtlFifos /\ Len(ctl'.q) = Len(ctl.q) + 1
      /\ AllAre(ctl'.q, Data)
      /\ ctl'.full <=> Len(ctl.q) + 1 = CtlSize
  BY <1>2, <1>3, <1>4, BytePushed
<1>6. /\ left' \in Nat /\ room' \in 0 .. CtlSize
      /\ left' + Len(ctl'.q) = left + Len(ctl.q)
      /\ Len(ctl'.q) + room' = CtlSize
      /\ Len(ctl.q) + 1 = CtlSize <=> room' = 0
  BY <1>1, <1>2, <1>4, <1>5, ConstantsAreNumbers
<1>7. Shapes'
  BY <1>4, <1>5, <1>6 DEF IInv, Shapes, requestVars
<1>8. Filling'
  <2>1. (Owed(left + Len(ctl.q)))'
    BY <1>1, <1>4, <1>6 DEF Filling, Owed, Busy, requestVars
  <2> QED
    BY <1>1, <1>4, <1>5, <1>6, <2>1 DEF Filling, AllAre
<1>9. PacketOK'
  BY <1>4 DEF IInv, PacketOK
<1> QED
  BY <1>1, <1>4, <1>7, <1>8, <1>9, RequestsKept DEF IInv, OnePhase, Filling

(* A transmission was reported while something of its answer is left, or   *)
(* nothing is. *)
LEMMA TransmittedStep ==
  ASSUME IInv, Transmitted
  PROVE  IInv'
<1>1. /\ UNCHANGED <<ctl, enable, mask, setupRecv, enumer, requestVars, packet,
                     left>>
      /\ event' = [event EXCEPT !.tx = @ \ {0}] /\ pc = "tx"
  BY DEF Transmitted, ReadTXS0, ReadTXS, requestVars, fifoVars, controlVars,
         usbipVars
<1>2. event \in [tx : SUBSET Fifos, rx : SUBSET Fifos, nak : BOOLEAN]
  BY DEF IInv, Shapes
<1>3. /\ event' \in [tx : SUBSET Fifos, rx : SUBSET Fifos, nak : BOOLEAN]
      /\ event'.rx = event.rx /\ 0 \notin event'.tx
  BY <1>1, <1>2
<1>4. PacketOK'
  BY <1>1 DEF IInv, PacketOK
<1>5. CASE /\ left > 0 \/ short
           /\ pc' = "fill" /\ room' = CtlSize
           /\ short' = (short /\ left > 0)
  <2>1. Sent
    BY <1>1, <1>5 DEF IInv, OnePhase, Silent, Posted, Reading, Deciding, Filling
  <2>2. /\ left \in Nat /\ short' \in BOOLEAN /\ short \in BOOLEAN
        /\ Len(ctl.q) = 0 /\ ~ctl.full
        /\ left + Len(ctl.q) = left
        /\ CtlSize \in Nat /\ CtlSize # 0 /\ 0 + CtlSize = CtlSize
    BY <1>5, <2>1, EmptyCtl, NoBytes, ConstantsAreNumbers DEF IInv, Shapes, Sent
  <2>3. Shapes'
    <3>1. room' \in 0 .. CtlSize
      BY <1>5, <2>2
    <3> QED
      BY <1>1, <1>3, <1>5, <2>2, <3>1 DEF IInv, Shapes, Steps, requestVars
  <2>4. (Owed(left + Len(ctl.q)))'
    <3>1. Owed(left) /\ left = left' /\ (short' => short) /\ (left > 0 => short' = short)
      BY <1>1, <1>5, <2>1, <2>2 DEF Sent
    <3>2. Owed(left)'
      BY <1>1, <3>1 DEF Owed, Busy, requestVars
    <3> QED
      BY <1>1, <2>2, <3>2
  <2>5. Filling'
    <3>1. /\ Len(ctl'.q) + room' = CtlSize
          /\ ctl'.full <=> room' = 0
      BY <1>1, <1>5, <2>2
    <3>2. AllAre(ctl'.q, Data) /\ 0 \notin event'.rx
      BY <1>1, <1>3, <2>1, <2>2 DEF AllAre, Sent
    <3>3. short' => left' + Len(ctl'.q) > 0
      BY <1>1, <1>5, <2>2
    <3> QED
      BY <1>5, <2>4, <3>1, <3>2, <3>3 DEF Filling, AllAre
  <2> QED
    BY <1>1, <1>4, <1>5, <2>3, <2>5, RequestsKept DEF IInv, OnePhase
<1>6. CASE left = 0 /\ ~short /\ pc' = "listen" /\ UNCHANGED <<room, short>>
  <2>1. Silent \/ (Posted /\ enumer.state = "Done")
    BY <1>1, <1>6 DEF IInv, OnePhase, Posted, Reading, Deciding, Filling, Sent
  <2>2. Shapes'
    BY <1>1, <1>3, <1>6 DEF IInv, Shapes, Steps, requestVars
  <2>3. Silent => Silent'
    BY <1>1, <1>3, <1>6 DEF Silent, Busy, requestVars
  <2>4. Posted /\ enumer.state = "Done" => Posted'
    BY <1>1, <1>3, <1>6 DEF Posted, Fresh, Current, AllAre, Busy, requestVars
  <2> QED
    BY <1>1, <1>4, <1>6, <2>1, <2>2, <2>3, <2>4, RequestsKept DEF IInv, OnePhase
<1> QED
  BY <1>5, <1>6 DEF Transmitted

-----------------------------------------------------------------------------
(* What updateEnumeration() does in each of its states.                    *)

LEMMA WhenAnswered ==
  ASSUME IInv, NEW c, NEW ev, NEW en, 0 \in en.tx
  PROVE  /\ enumer.state = "ReadDeviceDesc" =>
              UpdateEnumeration(c, ev, en) = ReadDeviceDesc(c)
         /\ enumer.state = "RequestFullConfigDesc"
              /\ enumer.cfgOff < CfgHeadLen =>
              UpdateEnumeration(c, ev, en)
                = IF enumer.cfgOff < CtlSize THEN ReadHeader(c)
                  ELSE DiscardHeader(c)
         /\ enumer.state = "ReadConfigDesc" =>
              UpdateEnumeration(c, ev, en) = ReadConfigDesc(c)
<1>1. ASSUME enumer.state = "ReadDeviceDesc"
      PROVE  UpdateEnumeration(c, ev, en) = ReadDeviceDesc(c)
  BY <1>1 DEF UpdateEnumeration
<1>2. ASSUME enumer.state = "RequestFullConfigDesc", enumer.cfgOff < CfgHeadLen
      PROVE  UpdateEnumeration(c, ev, en)
               = IF enumer.cfgOff < CtlSize THEN ReadHeader(c)
                 ELSE DiscardHeader(c)
  <2>1. ~(enumer.cfgOff >= CfgHeadLen)
    BY <1>2, ConstantsAreNumbers DEF IInv, Shapes
  <2> QED
    BY <1>2, <2>1 DEF UpdateEnumeration
<1>3. ASSUME enumer.state = "ReadConfigDesc"
      PROVE  UpdateEnumeration(c, ev, en) = ReadConfigDesc(c)
  BY <1>3 DEF UpdateEnumeration
<1> QED
  BY <1>1, <1>2, <1>3

LEMMA WhenEnabled ==
  ASSUME IInv, NEW c, NEW ev, NEW en
  PROVE  /\ enumer.state = "RequestDeviceDesc" =>
              UpdateEnumeration(c, ev, en)
                = IF CanSend(c, ev, en)
                  THEN Request(c, "device",
                         [enumer EXCEPT !.state = "ReadDeviceDesc", !.devOff = 0])
                  ELSE Unmoved(c)
         /\ enumer.state = "SetAddress" =>
              UpdateEnumeration(c, ev, en)
                = IF CanSend(c, ev, en)
                  THEN Request(c, "address",
                         [enumer EXCEPT !.state = "RequestConfigDesc"])
                  ELSE Unmoved(c)
         /\ enumer.state = "RequestConfigDesc" =>
              UpdateEnumeration(c, ev, en)
                = IF CanSend(c, ev, en)
                  THEN Request(c, "header",
                         [enumer EXCEPT !.state = "RequestFullConfigDesc",
                                        !.cfgOff = 0])
                  ELSE Unmoved(c)
         /\ enumer.state = "RequestFullConfigDesc"
              /\ enumer.cfgOff >= CfgHeadLen =>
              UpdateEnumeration(c, ev, en)
                = IF CanSend(c, ev, en)
                  THEN Request(c, "config",
                         [enumer EXCEPT !.state = "ReadConfigDesc",
                                        !.cfgOff = 0])
                  ELSE Unmoved(c)
         /\ enumer.state = "Done" => UpdateEnumeration(c, ev, en) = Unmoved(c)
<1>1. enumer.state = "RequestFullConfigDesc" /\ enumer.cfgOff >= CfgHeadLen =>
        ~(enumer.cfgOff < CfgHeadLen)
  BY ConstantsAreNumbers DEF IInv, Shapes
<1> QED
  BY <1>1 DEF UpdateEnumeration

EnumerationRecords == [state : States, devOff : Nat, cfgLen : Nat,
                       cfgOff : Nat, clean : BOOLEAN]

(* The firmware's bytes, all of them, are what was written for the answer. *)
LEMMA FirmwareBytes ==
  ASSUME IInv, AllAre(ctl.q, Data)
  PROVE  /\ FromFirmware(ctl.q)
         /\ Taken(ctl, Len(ctl.q))
<1>1. ctl.q \in Seq(Bytes) /\ DOMAIN ctl.q = 1 .. Len(ctl.q)
  BY DEF IInv, Shapes, CtlFifos
<1>2. SubSeq(ctl.q, 1, Len(ctl.q)) = ctl.q
  BY <1>1
<1>3. FromFirmware(ctl.q)
  BY <1>1 DEF FromFirmware, AllAre
<1> QED
  BY <1>2, <1>3 DEF Taken, IInv, Offsets

(* A packet of a descriptor: the device takes all of it, and knows whether *)
(* it has the whole descriptor. *)
LEMMA PacketTaken ==
  ASSUME IInv, Filling, enumer.state # "Done", ~Ctl!IsEmpty(ctl),
         left = 0 \/ room = 0,
         NEW en, 0 \in en.tx, NEW o \in UpdateEnumeration(ctl, event, en),
         enumer' = o.e, UNCHANGED <<in, left, short>>
  PROVE  /\ o.ctl = Ctl!EmptyFifo
         /\ enumer' \in EnumerationRecords
         /\ Offsets'
         /\ left > 0 => Owed(left)'
         /\ left = 0 =>
              \/ enumer'.state \in {"SetAddress", "Done"}
              \/ enumer'.state = "RequestFullConfigDesc"
                   /\ enumer'.cfgOff >= CfgHeadLen
<1> DEFINE k == Len(ctl.q)
<1>1. /\ ctl \in CtlFifos /\ k \in Nat /\ k > 0 /\ k <= CtlSize
      /\ left \in Nat /\ (left = 0 \/ k = CtlSize)
  <2>1. ctl \in CtlFifos /\ k \in Nat /\ k # 0 /\ left \in Nat
    BY EmptySeq DEF IInv, Shapes, CtlFifos, Ctl!IsEmpty
  <2>2. k + room = CtlSize /\ room \in 0 .. CtlSize
    BY DEF Filling, IInv, Shapes
  <2> HIDE DEF k
  <2> QED
    BY <2>1, <2>2, ConstantsAreNumbers
<1>2. /\ FromFirmware(ctl.q) /\ Taken(ctl, k)
      /\ Drained(ctl) = Ctl!EmptyFifo
      /\ Owed(left + k)
  BY <1>1, AllDrained, FirmwareBytes DEF Filling
<1>3. enumer \in EnumerationRecords
  BY DEF IInv, Shapes, EnumerationRecords
<1> HIDE DEF k
<1>4. CASE enumer.state = "ReadDeviceDesc"
  <2>1. /\ enumer.devOff + (left + k) = DevDescLen /\ ~short
        /\ enumer.devOff \in Nat
    BY <1>2, <1>3, <1>4 DEF Owed, EnumerationRecords
  <2>2. Least(k, DevDescLen - enumer.devOff) = k
    BY <1>1, <2>1, ConstantsAreNumbers DEF Least
  <2>3. o = Outcome(Drained(ctl), FALSE,
              [enumer EXCEPT !.devOff = enumer.devOff + k, !.clean = TRUE,
                 !.state = IF enumer.devOff + k = DevDescLen THEN "SetAddress"
                           ELSE @])
    BY <1>2, <1>4, <2>2, WhenAnswered DEF ReadDeviceDesc, Drained, k, Taken
  <2>4. /\ o.ctl = Ctl!EmptyFifo
        /\ enumer' \in EnumerationRecords
        /\ enumer'.devOff = enumer.devOff + k /\ enumer'.clean
        /\ enumer'.state = IF enumer.devOff + k = DevDescLen THEN "SetAddress"
                           ELSE "ReadDeviceDesc"
    <3> DEFINE s == IF enumer.devOff + k = DevDescLen THEN "SetAddress"
                    ELSE "ReadDeviceDesc"
               d == enumer.devOff + k
    <3>1. s \in States /\ d \in Nat
      BY <1>1, <2>1 DEF States
    <3>2. /\ o.ctl = Drained(ctl)
          /\ o.e = [enumer EXCEPT !.devOff = d, !.clean = TRUE, !.state = s]
      BY <1>4, <2>3 DEF Outcome
    <3> HIDE DEF s, d
    <3>3. /\ enumer' \in EnumerationRecords
          /\ enumer'.devOff = d /\ enumer'.clean /\ enumer'.state = s
      BY <1>3, <3>1, <3>2 DEF EnumerationRecords
    <3> QED
      BY <1>2, <3>2, <3>3 DEF s, d
  <2>5. enumer.devOff + k = DevDescLen <=> left = 0
    BY <1>1, <2>1, ConstantsAreNumbers
  <2>6. enumer'.devOff <= DevDescLen /\ (left > 0 => enumer'.devOff < DevDescLen)
        /\ enumer'.devOff + left = DevDescLen
    BY <1>1, <2>1, <2>4, ConstantsAreNumbers
  <2>10. Offsets'
    BY <1>1, <2>1, <2>4, <2>5, <2>6, ConstantsAreNumbers DEF Offsets
  <2>11. left > 0 => Owed(left)'
    BY <1>1, <2>1, <2>4, <2>5, <2>6 DEF Owed
  <2> QED
    BY <1>1, <2>1, <2>4, <2>5, <2>6, <2>10, <2>11
<1>5. CASE enumer.state = "RequestConfigDesc"
  <2>1. left + k = 0
    BY <1>2, <1>5 DEF Owed
  <2> QED
    BY <1>1, <2>1
<1>6. CASE enumer.state = "RequestFullConfigDesc"
  <2>1. /\ enumer.cfgOff + (left + k) = CfgHeadLen /\ ~short
        /\ enumer.cfgOff \in Nat /\ enumer.cfgOff < CfgHeadLen
        /\ enumer.devOff <= DevDescLen
    BY <1>2, <1>3, <1>6 DEF Owed, EnumerationRecords, IInv, Offsets
  <2>2. /\ enumer.cfgOff + k \in Nat
        /\ enumer.cfgOff + k >= CfgHeadLen <=> left = 0
        /\ enumer.cfgOff + k # 0
        /\ enumer.cfgOff + k >= CtlSize \/ enumer.cfgOff + k >= CfgHeadLen
        /\ left > 0 => enumer.cfgOff + k < CfgHeadLen
        /\ (enumer.cfgOff + k) + left = CfgHeadLen
    BY <1>1, <2>1, ConstantsAreNumbers
  <2>3. /\ o.ctl = Ctl!EmptyFifo
        /\ enumer' \in EnumerationRecords
        /\ enumer'.cfgOff = enumer.cfgOff + k /\ enumer'.clean
        /\ enumer'.devOff = enumer.devOff
        /\ enumer'.state = "RequestFullConfigDesc"
        /\ enumer'.cfgLen = CfgLen
    <3>1. CASE enumer.cfgOff < CtlSize
      <4>1. enumer.cfgOff = 0
        BY <1>6, <2>1, <3>1, ConstantsAreNumbers DEF IInv, Offsets
      <4>2. k >= LenEnd
        BY <1>1, <2>1, <4>1, ConstantsAreNumbers
      <4>3. LengthsRead(ctl) = {CfgLen}
        BY <1>1, <1>2, <4>1, <4>2, ConstantsAreNumbers DEF LengthsRead, k
      <4>4. o = Outcome(Drained(ctl), FALSE,
                  [enumer EXCEPT !.cfgOff = enumer.cfgOff + k,
                                 !.cfgLen = CfgLen, !.clean = TRUE])
        BY <1>2, <1>6, <2>1, <3>1, <4>3, WhenAnswered DEF ReadHeader, k, Taken
      <4> QED
        BY <1>2, <1>3, <1>6, <2>2, <4>4, ConstantsAreNumbers
           DEF Outcome, EnumerationRecords, States
    <3>2. CASE ~(enumer.cfgOff < CtlSize)
      <4>1. enumer.cfgLen = CfgLen
        BY <1>6, <2>1, <3>2, ConstantsAreNumbers DEF IInv, Offsets
      <4>2. o = Outcome(Drained(ctl), FALSE,
                  [enumer EXCEPT !.cfgOff = enumer.cfgOff + k,
                                 !.clean = TRUE])
        BY <1>2, <1>6, <2>1, <3>2, WhenAnswered DEF DiscardHeader, k, Taken
      <4> QED
        BY <1>2, <1>3, <1>6, <2>2, <4>1, <4>2
           DEF Outcome, EnumerationRecords, States
    <3> QED
      BY <3>1, <3>2
  <2>10. Offsets'
    BY <1>1, <2>1, <2>2, <2>3, ConstantsAreNumbers DEF Offsets
  <2>11. left > 0 => Owed(left)'
    BY <1>1, <2>1, <2>2, <2>3 DEF Owed
  <2> QED
    BY <1>1, <2>1, <2>2, <2>3, <2>10, <2>11
<1>7. CASE enumer.state = "ReadConfigDesc"
  <2>1. /\ enumer.cfgOff + (left + k) = CfgLen /\ ~short
        /\ enumer.cfgOff \in Nat /\ enumer.cfgLen = CfgLen
        /\ enumer.devOff <= DevDescLen
    BY <1>2, <1>3, <1>7 DEF Owed, EnumerationRecords, IInv, Offsets
  <2>2. /\ enumer.cfgOff + k \in Nat
        /\ enumer.cfgOff + k = CfgLen <=> left = 0
        /\ left > 0 => enumer.cfgOff + k < CfgLen
        /\ (enumer.cfgOff + k) + left = CfgLen
    BY <1>1, <2>1, ConstantsAreNumbers
  <2>3. o = Outcome(Drained(ctl), FALSE,
              [enumer EXCEPT !.cfgOff = enumer.cfgOff + k, !.clean = TRUE,
                 !.state = IF enumer.cfgOff + k = enumer.cfgLen THEN "Done"
                           ELSE @])
    BY <1>2, <1>7, WhenAnswered DEF ReadConfigDesc, k, Taken
  <2>4. /\ o.ctl = Ctl!EmptyFifo
        /\ enumer' \in EnumerationRecords
        /\ enumer'.cfgOff = enumer.cfgOff + k /\ enumer'.clean
        /\ enumer'.devOff = enumer.devOff /\ enumer'.cfgLen = CfgLen
        /\ enumer'.state = IF left = 0 THEN "Done" ELSE "ReadConfigDesc"
    BY <1>2, <1>3, <1>7, <2>1, <2>2, <2>3
       DEF Outcome, EnumerationRecords, States
  <2>10. Offsets'
    BY <1>1, <2>1, <2>2, <2>4, ConstantsAreNumbers DEF Offsets
  <2>11. left > 0 => Owed(left)'
    BY <1>1, <2>1, <2>2, <2>4 DEF Owed
  <2> QED
    BY <1>1, <2>1, <2>2, <2>4, <2>10, <2>11
<1> QED
  BY <1>2, <1>4, <1>5, <1>6, <1>7 DEF Owed

-----------------------------------------------------------------------------
(* Sending a packet. *)

Events == [tx : SUBSET Fifos, rx : SUBSET Fifos, nak : BOOLEAN]

LEMMA AddedEvent ==
  ASSUME IInv
  PROVE  /\ Added("tx", 0) \in Events /\ Added("tx", 0).rx = event.rx
         /\ Added("rx", 0) \in Events /\ 0 \in Added("rx", 0).rx
         /\ Added("rx", 0).tx = event.tx
         /\ [Added("tx", 0) EXCEPT !.nak = TRUE] \in Events
         /\ [Added("tx", 0) EXCEPT !.nak = TRUE].rx = event.rx
<1>1. event \in Events /\ {0} \subseteq Fifos
  BY ConstantsAreNumbers DEF IInv, Shapes, Events
<1>2. Added("tx", 0) \in Events /\ Added("tx", 0).rx = event.rx
  BY <1>1 DEF Added, Events
<1>3. /\ Added("rx", 0) \in Events /\ 0 \in Added("rx", 0).rx
      /\ Added("rx", 0).tx = event.tx
  BY <1>1 DEF Added, Events
<1> HIDE DEF Added
<1> QED
  BY <1>2, <1>3 DEF Events

(* The host gets the answer to the request it waits for on endpoint 0.     *)
LEMMA HostAnswered ==
  ASSUME IInv, Busy, NEW bytes, \A i \in DOMAIN bytes : bytes[i] \in {Data, Unset},
         in' = [in EXCEPT ![0] = NoIn], Answer(in[0].seq, 0, bytes),
         UNCHANGED <<listed, server, host>>, pc' \notin {"reset", "masks"},
         listed => enumer'.state = "Done"
  PROVE  /\ ~Busy' /\ DOMAIN in' = InEps
         /\ in'[0] \in [seq : Seqs \cup {NoSeq}, len : Nat, data : Seq({Data})]
         /\ urb' \in [Seqs -> [st : {"free", "waiting", "spurious"}, ep : InEps]]
         /\ DOMAIN reply' = InEps /\ ReplyOK' /\ Hosted'
<1>1. /\ in'[0] = NoIn /\ DOMAIN in' = InEps
      /\ DOMAIN reply' = InEps /\ reply'[0] = bytes
  BY ConstantsAreNumbers DEF IInv, Shapes, Answer
<1>2. Waiting(in[0].seq) /\ in[0].seq \in Seqs
  BY ConstantsAreNumbers DEF IInv, Shapes, Hosted, Busy
<1>3. urb' = [urb EXCEPT ![in[0].seq] = FreeUrb]
  BY <1>2 DEF Answer, Answered, Waiting
<1>4. urb' \in [Seqs -> [st : {"free", "waiting", "spurious"}, ep : InEps]]
  BY <1>3, FreeUrbType DEF IInv, Shapes
<1>5. ~Busy'
  BY <1>1, NoInType DEF Busy
<1>6. ReplyOK'
  BY <1>1 DEF ReplyOK
<1>7. Hosted'
  BY <1>5 DEF IInv, Hosted
<1> QED
  BY <1>1, <1>4, <1>5, <1>6, <1>7, NoInType

LEMMA PaddedBytes ==
  ASSUME IInv
  PROVE  \A i \in DOMAIN Padded(in[0]) : Padded(in[0])[i] \in {Data, Unset}
<1>1. in[0].data \in Seq({Data}) /\ in[0].len \in Nat
  BY DEF IInv, Shapes
<1>2. CASE in[0].data = << >>
  BY <1>2 DEF Padded
<1>3. CASE in[0].data # << >>
  <2>1. Padded(in[0]) = [i \in 1 .. in[0].len |->
                           IF i <= Len(in[0].data) THEN in[0].data[i] ELSE Unset]
    BY <1>3 DEF Padded
  <2>2. \A i \in 1 .. Len(in[0].data) : in[0].data[i] = Data
    BY <1>1
  <2> QED
    BY <1>1, <2>1, <2>2
<1> QED
  BY <1>2, <1>3

LEMMA SendPacketStep ==
  ASSUME IInv, SendPacket
  PROVE  IInv'
<1> DEFINE c == ctl
           on == Enabled("tx", 0, TRUE)
<1>1. Filling /\ pc = "fill" /\ (left = 0 \/ room = 0) /\ WriteTXC0(TRUE, FALSE)
  BY DEF SendPacket, IInv, OnePhase, Silent, Posted, Reading, Deciding, Sent
<1>2. /\ UNCHANGED <<mask, server, host, packet, left, room, short>>
      /\ enable' = on /\ pc' = "idle"
      /\ \/ Ctl!IsEmpty(ctl) /\ SendEmptyPacket
         \/ /\ ~Ctl!IsEmpty(ctl) /\ enumer.state # "Done"
            /\ SendToEnumeration(ctl, on)
         \/ /\ ~Ctl!IsEmpty(ctl) /\ enumer.state = "Done"
            /\ server /\ in[0].seq # NoSeq
            /\ SendToHost(ctl)
         \/ /\ ~Ctl!IsEmpty(ctl) /\ enumer.state = "Done"
            /\ ~(server /\ in[0].seq # NoSeq)
            /\ KeepUnsent(ctl)
  BY <1>1 DEF SendPacket, Goto, WriteTXC0
<1>3. on \in [tx : SUBSET Fifos, rx : SUBSET Fifos] /\ 0 \in on.tx
  BY ConstantsAreNumbers DEF IInv, Shapes, Enabled
<1> HIDE DEF on
<1>4. PacketOK'
  BY <1>2 DEF IInv, PacketOK
<1>5. /\ left \in Nat /\ Len(ctl.q) \in Nat /\ ctl \in CtlFifos
      /\ 0 \notin event.rx
      /\ Owed(left + Len(ctl.q))
  BY <1>1 DEF IInv, Shapes, CtlFifos, Filling
<1>6. CASE Ctl!IsEmpty(ctl) /\ SendEmptyPacket
  <2>1. /\ UNCHANGED <<setupRecv, enumer, listed>>
        /\ ctl' = Ctl!EmptyFifo
        /\ event' = [Added("tx", 0) EXCEPT !.nak = TRUE]
    BY <1>6 DEF SendEmptyPacket, Signal
  <2>2. event' \in Events /\ 0 \notin event'.rx
    BY <1>5, <2>1, AddedEvent
  <2>3. Len(ctl.q) = 0 /\ left + Len(ctl.q) = left
    BY <1>5, <1>6, NoBytes DEF Ctl!IsEmpty
  <2>4. left = 0
    BY <1>1, <2>3, ConstantsAreNumbers DEF Filling
  <2>5. ~short
    BY <1>1, <2>3, <2>4 DEF Filling
  <2>6. \/ enumer.state = "RequestConfigDesc"
        \/ enumer.state = "Done" /\ Busy
    BY <1>5, <2>3, <2>4, ConstantsAreNumbers DEF Owed, IInv, Offsets, Shapes
  <2>7. CASE enumer.state = "Done" /\ Busy
    <3>1. /\ Answer(in[0].seq, 0, Padded(in[0]))
          /\ in' = [in EXCEPT ![0] = NoIn]
      BY <1>6, <2>7 DEF SendEmptyPacket, IInv, Hosted, Busy
    <3>2. /\ ~Busy' /\ DOMAIN in' = InEps
          /\ in'[0] \in [seq : Seqs \cup {NoSeq}, len : Nat, data : Seq({Data})]
          /\ urb' \in [Seqs -> [st : {"free", "waiting", "spurious"}, ep : InEps]]
          /\ DOMAIN reply' = InEps /\ ReplyOK' /\ Hosted'
      BY <1>2, <2>1, <2>7, <3>1, PaddedBytes, HostAnswered
    <3>3. Shapes'
      BY <1>2, <1>3, <2>1, <2>2, <3>2, EmptyCtl DEF IInv, Shapes, Steps, Events
    <3>4. Offsets'
      BY <2>1 DEF IInv, Offsets
    <3>5. Silent'
      BY <1>2, <2>1, <2>2, <2>4, <2>5, <2>7, <3>2 DEF Silent
    <3> QED
      BY <1>4, <3>2, <3>3, <3>4, <3>5 DEF IInv, OnePhase
  <2>8. CASE enumer.state = "RequestConfigDesc"
    <3>1. ~Busy /\ UNCHANGED <<in, urb, reply>>
      BY <1>6, <2>8 DEF SendEmptyPacket, IInv, Hosted, Busy
    <3>2. Shapes'
      BY <1>2, <1>3, <2>1, <2>2, <3>1, EmptyCtl DEF IInv, Shapes, Steps, Events
    <3>3. Silent'
      BY <1>2, <2>1, <2>2, <2>4, <2>5, <2>8 DEF Silent
    <3> QED
      BY <1>2, <1>4, <2>1, <3>1, <3>2, <3>3, RequestsKept
         DEF IInv, OnePhase, requestVars
  <2> QED
    BY <2>6, <2>7, <2>8
<1>7. CASE /\ ~Ctl!IsEmpty(ctl) /\ enumer.state # "Done"
           /\ SendToEnumeration(ctl, on)
  <2>1. PICK o \in UpdateEnumeration(ctl, event, on) :
          /\ Enumerated(o)
          /\ Signal(Ctl!IsEmpty(o.ctl),
                    IF Ctl!IsEmpty(o.ctl) THEN Added("tx", 0) ELSE event)
          /\ UNCHANGED <<in, urb, reply>>
    BY <1>7 DEF SendToEnumeration
  <2>2. /\ ctl' = o.ctl /\ enumer' = o.e
        /\ setupRecv' = (setupRecv \/ o.sent)
        /\ listed' = (listed \/ (o.e.state = "Done" /\ enumer.state # "Done"))
    BY <2>1 DEF Enumerated
  <2>3. /\ o.ctl = Ctl!EmptyFifo
        /\ enumer' \in EnumerationRecords
        /\ Offsets'
        /\ left > 0 => Owed(left)'
        /\ left = 0 =>
             \/ enumer'.state \in {"SetAddress", "Done"}
             \/ enumer'.state = "RequestFullConfigDesc"
                  /\ enumer'.cfgOff >= CfgHeadLen
    BY <1>1, <1>2, <1>3, <1>7, <2>1, <2>2, PacketTaken
  <2>4. event' \in Events /\ 0 \notin event'.rx
    BY <1>5, <2>1, <2>3, EmptyCtl, AddedEvent DEF Signal
  <2>5. ~Busy /\ ~listed /\ ~host /\ listed \in BOOLEAN
    BY <1>7 DEF IInv, Hosted, Shapes
  <2>6. listed' \in BOOLEAN /\ (listed' => enumer'.state = "Done")
    BY <2>2, <2>5
  <2>7. Hosted' /\ ~Busy'
    BY <1>2, <2>1, <2>5, <2>6 DEF Hosted, Busy
  <2>8. Shapes'
    <3>1. setupRecv' \in BOOLEAN
      BY <2>2 DEF IInv, Shapes
    <3> QED
      BY <1>2, <1>3, <2>1, <2>2, <2>3, <2>4, <2>6, <3>1, EmptyCtl
         DEF IInv, Shapes, Steps, Events, EnumerationRecords
  <2>9. ReplyOK'
    BY <2>1 DEF IInv, ReplyOK
  <2>10. CASE left = 0
    <3>1. ~short
      <4>1. left + Len(ctl.q) > 0
        BY <1>5, <1>7, EmptySeq DEF CtlFifos, Ctl!IsEmpty
      <4> QED
        BY <1>5, <1>7 DEF Owed
    <3>2. Silent'
      BY <1>2, <2>2, <2>3, <2>4, <2>7, <2>10, <3>1 DEF Silent
    <3> QED
      BY <1>4, <2>3, <2>7, <2>8, <2>9, <3>2 DEF IInv, OnePhase
  <2>11. CASE left # 0
    <3>1. left > 0
      BY <1>5, <2>11
    <3>2. Sent'
      BY <1>2, <2>2, <2>3, <2>4, <3>1 DEF Sent
    <3> QED
      BY <1>4, <2>3, <2>7, <2>8, <2>9, <3>2 DEF IInv, OnePhase
  <2> QED
    BY <2>10, <2>11
<1>8. CASE /\ ~Ctl!IsEmpty(ctl) /\ enumer.state = "Done"
           /\ server /\ in[0].seq # NoSeq
           /\ SendToHost(ctl)
  <2> DEFINE data == in[0].data \o ctl.q
             got == [in[0] EXCEPT !.data = data]
             k == Len(ctl.q)
  <2>1. Busy /\ in[0] \in [seq : Seqs \cup {NoSeq}, len : Nat, data : Seq({Data})]
    BY <1>8 DEF Busy, IInv, Shapes
  <2>2. k > 0
    BY <1>5, <1>8, EmptySeq DEF CtlFifos, Ctl!IsEmpty
  <2>3. ctl.q \in Seq({Data})
    BY <1>1, <1>5 DEF CtlFifos, Filling, AllAre
  <2>4. /\ data \in Seq({Data}) /\ Len(data) = Len(in[0].data) + k
        /\ Len(in[0].data) \in Nat
    BY <2>1, <2>3
  <2>5. /\ got \in [seq : Seqs \cup {NoSeq}, len : Nat, data : Seq({Data})]
        /\ got.data = data /\ got.len = in[0].len /\ got.seq = in[0].seq
    BY <2>1, <2>4
  <2>6. /\ Len(in[0].data) + (left + k) <= in[0].len
        /\ short => Len(in[0].data) + (left + k) < in[0].len
        /\ left + k > 0 /\ ~short => Len(in[0].data) + (left + k) = in[0].len
    BY <1>5, <1>8 DEF Owed
  <2>7. /\ UNCHANGED <<setupRecv, enumer, listed>>
        /\ ctl' = Ctl!EmptyFifo
        /\ event' = Added("tx", 0)
        /\ in' = [in EXCEPT ![0] = IF Len(data) = in[0].len THEN NoIn ELSE got]
        /\ IF Len(data) = in[0].len THEN Answer(in[0].seq, 0, data)
           ELSE UNCHANGED <<urb, reply>>
    BY <1>5, <1>8, <2>5, AllDrained DEF SendToHost, Signal
  <2>8. event' \in Events /\ 0 \notin event'.rx
    BY <1>5, <2>7, AddedEvent
  <2>9. Offsets'
    BY <2>7 DEF IInv, Offsets
  <2>12. left \in Nat /\ k \in Nat /\ in[0].len \in Nat
    BY <1>5, <2>1
  <2> HIDE DEF data, got, k
  <2>13. /\ \A a, l, n, m \in Nat :
              n > 0 /\ a + (l + n) <= m /\ a + n = m =>
                l = 0 /\ ~(a + (l + n) < m)
         /\ \A a, l, n, m \in Nat :
              n > 0 /\ a + (l + n) <= m /\ a + n # m =>
                /\ a + n < m /\ (a + n) + l = a + (l + n) /\ l + n > 0
                /\ a + (l + n) = m => l > 0
    OBVIOUS
  <2>10. CASE Len(data) = in[0].len
    <3>1. left = 0 /\ ~short
      <4> DEFINE a == Len(in[0].data)
                 m == in[0].len
      <4>1. /\ a \in Nat /\ m \in Nat /\ a + k = m /\ a + (left + k) <= m
            /\ short => a + (left + k) < m
        BY <2>4, <2>6, <2>10, <2>12
      <4> HIDE DEF a, m
      <4>2. left = 0 /\ ~(a + (left + k) < m)
        BY <2>2, <2>12, <2>13, <4>1
      <4> QED
        BY <4>1, <4>2
    <3>2. /\ in' = [in EXCEPT ![0] = NoIn]
          /\ Answer(in[0].seq, 0, data)
      BY <2>7, <2>10
    <3>3. \A i \in DOMAIN data : data[i] \in {Data, Unset}
      BY <2>4
    <3>4. /\ ~Busy' /\ DOMAIN in' = InEps
          /\ in'[0] \in [seq : Seqs \cup {NoSeq}, len : Nat, data : Seq({Data})]
          /\ urb' \in [Seqs -> [st : {"free", "waiting", "spurious"}, ep : InEps]]
          /\ DOMAIN reply' = InEps /\ ReplyOK' /\ Hosted'
      BY <1>2, <1>8, <2>1, <2>7, <3>2, <3>3, HostAnswered
    <3>5. Shapes'
      BY <1>2, <1>3, <2>7, <2>8, <3>4, EmptyCtl DEF IInv, Shapes, Steps, Events
    <3>6. Silent'
      BY <1>2, <1>8, <2>7, <2>8, <3>1, <3>4 DEF Silent
    <3> QED
      BY <1>4, <2>9, <3>4, <3>5, <3>6 DEF IInv, OnePhase
  <2>11. CASE Len(data) # in[0].len
    <3>1. /\ in'[0] = got /\ DOMAIN in' = InEps /\ UNCHANGED <<urb, reply>>
      BY <2>7, <2>11, ConstantsAreNumbers DEF IInv, Shapes
    <3>2. /\ Len(data) < in[0].len
          /\ Len(data) + left = Len(in[0].data) + (left + k)
          /\ left > 0 \/ short
      <4> DEFINE a == Len(in[0].data)
                 m == in[0].len
      <4>1. /\ a \in Nat /\ m \in Nat /\ a + k # m /\ a + (left + k) <= m
            /\ Len(data) = a + k
        BY <2>4, <2>6, <2>11, <2>12
      <4>2. left + k > 0 /\ ~short => a + (left + k) = m
        BY <2>6
      <4> HIDE DEF a, m
      <4>3. /\ a + k < m /\ (a + k) + left = a + (left + k) /\ left + k > 0
            /\ a + (left + k) = m => left > 0
        BY <2>2, <2>12, <2>13, <4>1
      <4> QED
        BY <4>1, <4>2, <4>3 DEF a, m
    <3>3. Busy'
      BY <2>1, <2>5, <3>1 DEF Busy
    <3>4. Shapes'
      BY <1>2, <1>3, <2>5, <2>7, <2>8, <3>1, EmptyCtl
         DEF IInv, Shapes, Steps, Events
    <3>5. Hosted'
      BY <1>2, <2>1, <2>5, <2>4, <2>7, <3>1, <3>2
         DEF IInv, Hosted, Busy, Waiting
    <3>6. ReplyOK'
      BY <3>1 DEF IInv, ReplyOK
    <3>7. Owed(left)'
      <4>1. left + k > 0
        BY <1>5, <2>2 DEF k
      <4> QED
        BY <1>2, <1>8, <2>5, <2>6, <2>7, <3>1, <3>2, <3>3, <4>1 DEF Owed
    <3>8. Sent'
      BY <1>2, <2>7, <2>8, <3>2, <3>7 DEF Sent
    <3> QED
      BY <1>4, <2>9, <3>4, <3>5, <3>6, <3>8 DEF IInv, OnePhase
  <2> QED
    BY <2>10, <2>11
<1>9. ~(/\ ~Ctl!IsEmpty(ctl) /\ enumer.state = "Done"
        /\ ~(server /\ in[0].seq # NoSeq))
  BY <1>5 DEF Owed, IInv, Hosted, Busy
<1> QED
  BY <1>2, <1>6, <1>7, <1>8, <1>9

-----------------------------------------------------------------------------
(* Enabling reception, and the host. *)

(* The enumeration asks when nothing else is under way, or does nothing.   *)
LEMMA AsksOrWaits ==
  ASSUME IInv, Silent, NEW en, NEW o \in UpdateEnumeration(ctl, event, en),
         ctl' = o.ctl, enumer' = o.e, UNCHANGED in
  PROVE  \/ ~o.sent /\ UNCHANGED <<ctl, enumer>>
         \/ /\ o.sent /\ 0 \notin event.tx
            /\ enumer.state # "Done" /\ enumer'.state # "Done"
            /\ enumer' \in EnumerationRecords
            /\ ctl' = SetupPushed(Ctl!EmptyFifo, Current')
            /\ Fresh' /\ Offsets'
<1>1. enumer \in EnumerationRecords /\ ctl = Ctl!EmptyFifo
  BY DEF IInv, Shapes, EnumerationRecords, Silent
<1>2. enumer.clean /\ enumer.devOff <= DevDescLen
  BY DEF IInv, Offsets
<1>3. \A e : Unmoved(ctl) = {Outcome(ctl, FALSE, enumer)}
  BY DEF Unmoved
<1>4. CASE o = Outcome(ctl, FALSE, enumer)
  BY <1>4 DEF Outcome
<1>5. ASSUME CanSend(ctl, event, en), NEW b, NEW e,
             UpdateEnumeration(ctl, event, en) = Request(ctl, b, e)
      PROVE  /\ o.sent /\ 0 \notin event.tx /\ enumer' = e
             /\ ctl' = SetupPushed(Ctl!EmptyFifo, b)
  BY <1>1, <1>5 DEF CanSend, Request, Outcome
<1>6. ASSUME CanSend(ctl, event, en), enumer.state = "RequestDeviceDesc"
      PROVE  /\ o.sent /\ 0 \notin event.tx
             /\ enumer.state # "Done" /\ enumer'.state # "Done"
             /\ enumer' \in EnumerationRecords
             /\ ctl' = SetupPushed(Ctl!EmptyFifo, Current')
             /\ Fresh' /\ Offsets'
  <2> DEFINE e == [enumer EXCEPT !.state = "ReadDeviceDesc", !.devOff = 0]
  <2>1. UpdateEnumeration(ctl, event, en) = Request(ctl, "device", e)
    BY <1>6, WhenEnabled
  <2>2. /\ e \in EnumerationRecords /\ e.state = "ReadDeviceDesc"
        /\ e.devOff = 0 /\ e.clean
    BY <1>1, <1>2 DEF EnumerationRecords, States
  <2> HIDE DEF e
  <2>3. /\ o.sent /\ 0 \notin event.tx /\ enumer' = e
        /\ ctl' = SetupPushed(Ctl!EmptyFifo, "device")
    BY <1>5, <1>6, <2>1
  <2>4. Current' = "device"
    BY <2>2, <2>3 DEF Current
  <2> QED
    BY <1>6, <2>2, <2>3, <2>4, ConstantsAreNumbers DEF Fresh, Offsets
<1>7. ASSUME CanSend(ctl, event, en), enumer.state = "SetAddress"
      PROVE  /\ o.sent /\ 0 \notin event.tx
             /\ enumer.state # "Done" /\ enumer'.state # "Done"
             /\ enumer' \in EnumerationRecords
             /\ ctl' = SetupPushed(Ctl!EmptyFifo, Current')
             /\ Fresh' /\ Offsets'
  <2> DEFINE e == [enumer EXCEPT !.state = "RequestConfigDesc"]
  <2>1. UpdateEnumeration(ctl, event, en) = Request(ctl, "address", e)
    BY <1>7, WhenEnabled
  <2>2. /\ e \in EnumerationRecords /\ e.state = "RequestConfigDesc"
        /\ e.devOff <= DevDescLen /\ e.clean
    BY <1>1, <1>2 DEF EnumerationRecords, States
  <2> HIDE DEF e
  <2>3. /\ o.sent /\ 0 \notin event.tx /\ enumer' = e
        /\ ctl' = SetupPushed(Ctl!EmptyFifo, "address")
    BY <1>5, <1>7, <2>1
  <2>4. Current' = "address"
    BY <2>2, <2>3 DEF Current
  <2> QED
    BY <1>7, <2>2, <2>3, <2>4 DEF Fresh, Offsets
<1>8. ASSUME CanSend(ctl, event, en), enumer.state = "RequestConfigDesc"
      PROVE  /\ o.sent /\ 0 \notin event.tx
             /\ enumer.state # "Done" /\ enumer'.state # "Done"
             /\ enumer' \in EnumerationRecords
             /\ ctl' = SetupPushed(Ctl!EmptyFifo, Current')
             /\ Fresh' /\ Offsets'
  <2> DEFINE e == [enumer EXCEPT !.state = "RequestFullConfigDesc",
                                 !.cfgOff = 0]
  <2>1. UpdateEnumeration(ctl, event, en) = Request(ctl, "header", e)
    BY <1>8, WhenEnabled
  <2>2. /\ e \in EnumerationRecords /\ e.state = "RequestFullConfigDesc"
        /\ e.devOff <= DevDescLen /\ e.clean /\ e.cfgOff = 0
    BY <1>1, <1>2 DEF EnumerationRecords, States
  <2> HIDE DEF e
  <2>3. /\ o.sent /\ 0 \notin event.tx /\ enumer' = e
        /\ ctl' = SetupPushed(Ctl!EmptyFifo, "header")
    BY <1>5, <1>8, <2>1
  <2>4. Current' = "header"
    BY <2>2, <2>3 DEF Current
  <2> QED
    BY <1>8, <2>2, <2>3, <2>4 DEF Fresh, Offsets
<1>9. ASSUME CanSend(ctl, event, en), enumer.state = "RequestFullConfigDesc"
      PROVE  /\ o.sent /\ 0 \notin event.tx
             /\ enumer.state # "Done" /\ enumer'.state # "Done"
             /\ enumer' \in EnumerationRecords
             /\ ctl' = SetupPushed(Ctl!EmptyFifo, Current')
             /\ Fresh' /\ Offsets'
  <2> DEFINE e == [enumer EXCEPT !.state = "ReadConfigDesc", !.cfgOff = 0]
  <2>1. enumer.cfgOff >= CfgHeadLen /\ enumer.cfgOff # 0
    BY <1>1, <1>9, ConstantsAreNumbers DEF Silent, EnumerationRecords
  <2>2. UpdateEnumeration(ctl, event, en) = Request(ctl, "config", e)
    BY <1>9, <2>1, WhenEnabled
  <2>3. enumer.cfgLen = CfgLen
    BY <1>9, <2>1 DEF IInv, Offsets
  <2>4. /\ e \in EnumerationRecords /\ e.state = "ReadConfigDesc"
        /\ e.devOff <= DevDescLen /\ e.clean /\ e.cfgOff = 0
        /\ e.cfgLen = CfgLen
    BY <1>1, <1>2, <2>3 DEF EnumerationRecords, States
  <2> HIDE DEF e
  <2>5. /\ o.sent /\ 0 \notin event.tx /\ enumer' = e
        /\ ctl' = SetupPushed(Ctl!EmptyFifo, "config")
    BY <1>5, <1>9, <2>2
  <2>6. Current' = "config"
    BY <2>4, <2>5 DEF Current
  <2> QED
    BY <1>9, <2>4, <2>5, <2>6, ConstantsAreNumbers DEF Fresh, Offsets
<1>10. ~CanSend(ctl, event, en) \/ enumer.state = "Done" =>
         o = Outcome(ctl, FALSE, enumer)
  BY <1>3, WhenEnabled DEF Silent
<1> QED
  BY <1>4, <1>6, <1>7, <1>8, <1>9, <1>10 DEF Silent

LEMMA ListenStep ==
  ASSUME IInv, pc = "listen", WriteRXC0(TRUE, FALSE), Goto("idle")
  PROVE  IInv'
<1> DEFINE on == Enabled("rx", 0, TRUE)
<1>1. /\ UNCHANGED <<mask, server, host, in, urb, reply, packet, left, room,
                     short>>
      /\ enable' = on /\ pc' = "idle"
  BY DEF WriteRXC0, Goto
<1>2. PICK o \in UpdateEnumeration(ctl, event, on) :
        /\ Enumerated(o)
        /\ Signal(o.sent, IF o.sent THEN Added("rx", 0) ELSE event)
  BY DEF WriteRXC0
<1>3. /\ ctl' = o.ctl /\ enumer' = o.e
      /\ setupRecv' = (setupRecv \/ o.sent)
      /\ listed' = (listed \/ (o.e.state = "Done" /\ enumer.state # "Done"))
      /\ event' = IF o.sent THEN Added("rx", 0) ELSE event
  BY <1>2 DEF Enumerated, Signal
<1>4. on \in [tx : SUBSET Fifos, rx : SUBSET Fifos]
  BY EnabledType
<1> HIDE DEF on
<1>5. PacketOK'
  BY <1>1 DEF IInv, PacketOK
<1>6. Silent \/ (Posted /\ enumer.state = "Done")
  BY DEF IInv, OnePhase, Posted, Reading, Deciding, Filling, Sent
<1>7. ASSUME ~o.sent, UNCHANGED <<ctl, enumer>>
      PROVE  IInv'
  <2>1. UNCHANGED <<event, setupRecv, listed>>
    <3>2. setupRecv' = setupRecv
      BY <1>3, <1>7 DEF IInv, Shapes
    <3>3. listed' = listed
      BY <1>3, <1>7 DEF IInv, Shapes
    <3> QED
      BY <1>3, <1>7, <3>2, <3>3
  <2>2. Shapes'
    BY <1>1, <1>4, <1>7, <2>1 DEF IInv, Shapes, Steps
  <2>3. Silent => Silent'
    BY <1>1, <1>7, <2>1 DEF Silent, Busy
  <2>4. Posted => Posted'
    BY <1>1, <1>7, <2>1 DEF Posted, Fresh, Current, AllAre, Busy
  <2> QED
    BY <1>1, <1>5, <1>6, <1>7, <2>1, <2>2, <2>3, <2>4, RequestsKept
       DEF IInv, OnePhase, requestVars
<1>8. CASE Posted /\ enumer.state = "Done"
  <2>1. o = Outcome(ctl, FALSE, enumer)
    BY <1>8, WhenEnabled DEF Unmoved
  <2> QED
    BY <1>3, <1>7, <2>1 DEF Outcome
<1>9. CASE Silent
  <2>1. CASE ~o.sent /\ UNCHANGED <<ctl, enumer>>
    BY <1>7, <2>1
  <2>2. CASE /\ o.sent /\ 0 \notin event.tx
             /\ enumer.state # "Done" /\ enumer'.state # "Done"
             /\ enumer' \in EnumerationRecords
             /\ ctl' = SetupPushed(Ctl!EmptyFifo, Current')
             /\ Fresh' /\ Offsets'
    <3>1. Current' \in Kinds
      BY DEF Current, Kinds
    <3>2. /\ ctl' \in CtlFifos /\ Len(ctl'.q) = CtlSize
          /\ AllAre(ctl'.q, Current')
      BY <2>2, <3>1, PacketPushed
    <3>3. /\ event' \in Events /\ 0 \in event'.rx /\ 0 \notin event'.tx
          /\ setupRecv'
      BY <1>3, <2>2, AddedEvent
    <3>4. ~listed /\ ~host /\ ~Busy /\ ~listed'
      BY <1>3, <2>2 DEF IInv, Hosted
    <3>5. Hosted'
      BY <1>1, <3>4 DEF Hosted, Busy
    <3>6. Shapes'
      <4>1. setupRecv' \in BOOLEAN /\ listed' \in BOOLEAN
        BY <1>3 DEF IInv, Shapes
      <4> QED
        BY <1>1, <1>4, <2>2, <3>2, <3>3, <4>1
           DEF IInv, Shapes, Steps, Events, EnumerationRecords
    <3>7. Posted'
      <4>1. AllAre(ctl.q, Current)'
        BY <3>2 DEF AllAre
      <4> QED
        BY <1>1, <1>9, <2>2, <3>2, <3>3, <4>1 DEF Posted, Silent
    <3>8. ReplyOK'
      BY <1>1 DEF IInv, ReplyOK
    <3> QED
      BY <1>5, <2>2, <3>5, <3>6, <3>7, <3>8 DEF IInv, OnePhase
  <2>3. \/ ~o.sent /\ UNCHANGED <<ctl, enumer>>
        \/ /\ o.sent /\ 0 \notin event.tx
           /\ enumer.state # "Done" /\ enumer'.state # "Done"
           /\ enumer' \in EnumerationRecords
           /\ ctl' = SetupPushed(Ctl!EmptyFifo, Current')
           /\ Fresh' /\ Offsets'
    BY <1>1, <1>3, <1>9, AsksOrWaits
  <2> QED
    BY <2>1, <2>2, <2>3
<1> QED
  BY <1>6, <1>8, <1>9

LEMMA BootStep ==
  ASSUME IInv, Boot
  PROVE  IInv'
BY Reset, Masks, ListenStep DEF Boot

LEMMA FirmwareStep ==
  ASSUME IInv, Firmware
  PROVE  IInv'
BY BootStep, Interrupted, Dispatched, ReceivedStep, ReadSetupStep, FlushTxStep,
   FlushRxStep, DecideAnswerStep, FillStep, SendPacketStep, TransmittedStep
   DEF Firmware

(* No phase depends on whether a host has imported the device. *)
LEMMA PhaseKept ==
  ASSUME IInv, UNCHANGED <<deviceVars, fwVars, in>>
  PROVE  OnePhase'
<1> USE DEF deviceVars, fwVars, Busy, Fresh, Owed, AllAre, Current
<1>1. /\ Silent => Silent'
      /\ Posted => Posted'
  BY DEF Silent, Posted
<1>2. /\ Reading => Reading'
      /\ Deciding => Deciding'
  BY DEF Reading, Deciding
<1>3. /\ Filling => Filling'
      /\ Sent => Sent'
  BY DEF Filling, Sent
<1> QED
  BY <1>1, <1>2, <1>3 DEF IInv, OnePhase

LEMMA AttachStep ==
  ASSUME IInv, Attach \/ Detach, UNCHANGED fwVars
  PROVE  IInv'
<1>1. UNCHANGED <<deviceVars, fwVars, in, listed, server, urb, reply>>
  BY DEF Attach, Detach, devVars, deviceVars
<1>2. OnePhase'
  BY <1>1, PhaseKept
<1>3. Shapes'
  BY <1>1 DEF IInv, Shapes, Attach, Detach, deviceVars, fwVars
<1>4. Busy => in[0].seq \in Seqs
  BY DEF IInv, Shapes, Busy
<1>5. Hosted'
  BY <1>1, <1>4 DEF IInv, Hosted, Busy, Waiting, Attach, Detach, deviceVars, fwVars
<1>6. Offsets' /\ PacketOK' /\ ReplyOK'
  BY <1>1 DEF IInv, Offsets, PacketOK, ReplyOK, deviceVars, fwVars
<1> QED
  BY <1>2, <1>3, <1>5, <1>6 DEF IInv

(* A host that may submit a request finds endpoint 0 silent: its request   *)
(* goes into an empty FIFO. *)
LEMMA SilentForHost ==
  ASSUME IInv, NEW n \in Seqs, MaySubmit(n, 0)
  PROVE  /\ Silent /\ ~Busy /\ enumer.state = "Done" /\ listed /\ server /\ host
         /\ pc \notin {"reset", "masks"}
<1>1. ~Busy
  BY DEF MaySubmit, IInv, Hosted, Shapes, Busy
<1>2. host /\ listed /\ server /\ enumer.state = "Done"
  BY DEF MaySubmit, IInv, Hosted
<1>3. ~Posted /\ ~Reading /\ ~Deciding
  BY <1>1, <1>2 DEF Posted, Reading, Deciding, Fresh
<1>4. ~Filling /\ ~Sent
  BY <1>1, <1>2 DEF Filling, Sent, Owed
<1> QED
  BY <1>1, <1>2, <1>3, <1>4 DEF IInv, OnePhase, Hosted

LEMMA SetupFromHost ==
  ASSUME IInv, NEW n \in Seqs, NEW request \in {"get", "set"}, NEW len \in Nat,
         MaySubmit(n, 0), SetupArrives(request),
         request = "set" <=> len = 0,
         in' = [in EXCEPT ![0] = NewIn(n, len)],
         urb' = Submitted(n, 0),
         UNCHANGED fwVars
  PROVE  IInv'
<1>1. /\ Silent /\ ~Busy /\ enumer.state = "Done" /\ listed /\ server /\ host
      /\ pc \notin {"reset", "masks"}
  BY SilentForHost
<1>2. /\ UNCHANGED <<enable, mask, enumer, server, listed, host, reply>>
      /\ ctl' = SetupPushed(Ctl!EmptyFifo, request)
      /\ setupRecv' = TRUE /\ event' = Added("rx", 0)
  BY <1>1 DEF SetupArrives, Silent, Signal, controlVars
<1>3. /\ ctl' \in CtlFifos /\ Len(ctl'.q) = CtlSize /\ AllAre(ctl'.q, request)
  BY <1>2, PacketPushed DEF Kinds
<1>4. /\ in'[0] = [seq |-> n, len |-> len, data |-> << >>]
      /\ DOMAIN in' = InEps
  BY ConstantsAreNumbers DEF IInv, Shapes, NewIn
<1>5. /\ in'[0] \in [seq : Seqs \cup {NoSeq}, len : Nat, data : Seq({Data})]
      /\ in'[0].seq = n /\ in'[0].len = len /\ in'[0].data = << >>
      /\ n # NoSeq
  <2>1. << >> \in Seq({Data}) /\ n # NoSeq
    BY EmptySeq, ConstantsAreNumbers
  <2>2. /\ in'[0].seq = n /\ in'[0].len = len /\ in'[0].data = << >>
    BY <1>4
  <2>3. n \in Seqs \cup {NoSeq} /\ len \in Nat
    OBVIOUS
  <2>4. \A d \in Seq({Data}) :
          [seq |-> n, len |-> len, data |-> d]
            \in [seq : Seqs \cup {NoSeq}, len : Nat, data : Seq({Data})]
    BY <2>3
  <2> QED
    BY <1>4, <2>1, <2>2, <2>4
<1>6. /\ urb' \in [Seqs -> [st : {"free", "waiting", "spurious"}, ep : InEps]]
      /\ urb'[n] = [st |-> "waiting", ep |-> 0]
  BY ConstantsAreNumbers DEF Submitted, IInv, Shapes
<1>7. Busy'
  BY <1>5 DEF Busy
<1>8. Hosted'
  <2>1. Len(<< >>) = 0 /\ (0 < len \/ len = 0) /\ 0 <= len
    BY NoBytes
  <2> QED
    BY <1>1, <1>2, <1>5, <1>6, <2>1 DEF Hosted, Waiting, fwVars
<1>9. Shapes'
  BY <1>2, <1>3, <1>4, <1>5, <1>6, AddedEvent DEF IInv, Shapes, Events, fwVars
<1>10. Offsets' /\ PacketOK' /\ ReplyOK'
  BY <1>2 DEF IInv, Offsets, PacketOK, ReplyOK, fwVars
<1>11. Posted'
  <2>1. Current' = request
    BY <1>1, <1>2, <1>5 DEF Current
  <2>2. AllAre(ctl.q, Current)'
    BY <1>3, <2>1 DEF AllAre
  <2>3. Fresh'
    BY <1>1, <1>2, <1>5, <1>7 DEF Fresh
  <2>4. /\ left' = 0 /\ ~short' /\ pc' = pc
        /\ pc \in {"listen", "idle", "handler", "tx"}
    BY <1>1 DEF Silent, fwVars
  <2>5. 0 \in event'.rx
    BY <1>2, AddedEvent
  <2> QED
    BY <1>1, <1>2, <1>3, <2>2, <2>3, <2>4, <2>5 DEF Posted
<1> QED
  BY <1>8, <1>9, <1>10, <1>11 DEF IInv, OnePhase

LEMMA HostStep ==
  ASSUME IInv, Host
  PROVE  IInv'
<1>1. UNCHANGED fwVars
  BY DEF Host
<1>2. CASE Attach \/ Detach
  BY <1>1, <1>2, AttachStep
<1>3. Lengths \subseteq Nat \ {0}
  BY ControlAssumption
<1>4. ASSUME NEW n \in Seqs, NEW len \in Lengths, usbipGetDescriptor(n, len)
      PROVE  IInv'
  <2>1. /\ MaySubmit(n, 0) /\ SetupArrives("get")
        /\ in' = [in EXCEPT ![0] = NewIn(n, len)]
        /\ urb' = Submitted(n, 0)
        /\ len \in Nat /\ len # 0
    BY <1>3, <1>4 DEF usbipGetDescriptor
  <2> QED
    BY <1>1, <2>1, SetupFromHost
<1>5. ASSUME NEW n \in Seqs, NEW len \in Lengths,
             usbipControlRequest(n, "get", len)
      PROVE  IInv'
  <2>1. /\ MaySubmit(n, 0) /\ SetupArrives("get")
        /\ in' = [in EXCEPT ![0] = NewIn(n, len)]
        /\ urb' = Submitted(n, 0)
        /\ len \in Nat /\ len # 0
    BY <1>3, <1>5 DEF usbipControlRequest
  <2> QED
    BY <1>1, <2>1, SetupFromHost
<1>6. ASSUME NEW n \in Seqs, usbipControlRequest(n, "set", 0)
      PROVE  IInv'
  <2>1. /\ MaySubmit(n, 0) /\ SetupArrives("set")
        /\ in' = [in EXCEPT ![0] = NewIn(n, 0)]
        /\ urb' = Submitted(n, 0)
    BY <1>6 DEF usbipControlRequest
  <2> QED
    BY <1>1, <2>1, SetupFromHost
<1> QED
  BY <1>2, <1>4, <1>5, <1>6 DEF Host

LEMMA Inductive == IInv /\ [SystemNext]_systemVars => IInv'
<1> SUFFICES ASSUME IInv, [SystemNext]_systemVars PROVE IInv'
  OBVIOUS
<1>1. CASE Firmware
  BY <1>1, FirmwareStep
<1>2. CASE Host
  BY <1>2, HostStep
<1>3. CASE UNCHANGED systemVars
  <2>1. UNCHANGED <<deviceVars, fwVars, requestVars>>
    BY <1>3 DEF systemVars, vars, devVars, hostVars, deviceVars, requestVars
  <2>2. OnePhase'
    BY <2>1, PhaseKept DEF requestVars
  <2>3. Shapes' /\ PacketOK'
    BY <2>1 DEF IInv, Shapes, PacketOK, deviceVars, requestVars, fwVars
  <2>4. Hosted' /\ Offsets' /\ ReplyOK'
    BY <2>1 DEF IInv, Hosted, Offsets, ReplyOK, Busy, Waiting, deviceVars,
                requestVars, fwVars
  <2> QED
    BY <2>2, <2>3, <2>4 DEF IInv
<1> QED
  BY <1>1, <1>2, <1>3 DEF SystemNext

LEMMA AlwaysOnePhase == SystemSpec => []IInv
BY InitIInv, Inductive, PTL DEF SystemSpec

-----------------------------------------------------------------------------
(* With firmware that flushes the FIFO before it answers and enables       *)
(* reception when nothing is left to send, the one FIFO of endpoint 0      *)
(* never mixes the two directions, nor the enumeration with a host. *)
THEOREM FifoIsNeverMixed == SystemSpec => []FifoNotMixed
<1>1. IInv => FifoNotMixed
  <2> SUFFICES ASSUME IInv PROVE FifoNotMixed
    OBVIOUS
  <2>1. enumer.clean
    BY DEF IInv, Offsets
  <2>2. \A i \in DOMAIN packet : packet[i] = packet[1] /\ packet[i] \notin {Data, Unset}
    <3>1. DOMAIN packet = 1 .. Len(packet)
      BY DEF IInv, Shapes
    <3>2. \A b \in Kinds : b \notin {Data, Unset}
      BY DEF Kinds, Data, Unset
    <3> QED
      BY <3>1, <3>2 DEF IInv, PacketOK
  <2>3. \A i \in DOMAIN in[0].data : in[0].data[i] = Data
    <3>1. in[0].data \in Seq({Data})
      BY DEF IInv, Shapes
    <3> QED
      BY <3>1
  <2> QED
    BY <2>1, <2>2, <2>3 DEF FifoNotMixed, IInv, ReplyOK
<1> QED
  BY <1>1, AlwaysOnePhase, PTL

(* Descriptors of every length are collected to their last byte and no     *)
(* further, in however many packets they come, and a host is never given   *)
(* more than it asked for. *)
THEOREM LengthsAreRespected == SystemSpec => []LengthsRespected
<1>1. IInv => LengthsRespected
  BY DEF IInv, Offsets, Hosted, LengthsRespected, Busy
<1> QED
  BY <1>1, AlwaysOnePhase, PTL
=============================================================================
