---------------------------- MODULE DataTransfer ----------------------------
(***************************************************************************)
(* The two units of the emulated processor that move data without it: the  *)
(* DMA controller (H8CPU::DMAChannel, channel 1 in short address mode) and *)
(* the data transfer controller (H8CPU::updateDTC).  Both are started by   *)
(* interrupt requests.  A world (see Sci) also has                         *)
(*   mem: RAM, dma: the sub-channels, dtc: the enables and descriptors.    *)
(* An address is a number; the port's data registers are at TDR and RDR.   *)
(***************************************************************************)
EXTENDS Sci, FiniteSets

CONSTANTS TDR, RDR   \* addresses outside RAM

-----------------------------------------------------------------------------
(* The bus: an access to a register of the port updates it first. *)

BusRead(w, a) == IF a \in {TDR, RDR} THEN update(w) ELSE w

BusValue(w, a) == CASE a = RDR -> w.sci.rdr
                    [] a = TDR -> w.sci.tdr
                    [] OTHER -> w.mem[a]

BusWrite(w, a, v) == CASE a = TDR -> SetTDR(update(w), v)
                       [] a = RDR -> Idle(update(w))
                       [] OTHER -> [w EXCEPT !.mem[a] = v]

Delivered(w, src, dst) == BusWrite(w, dst, BusValue(w, src))
BusCopy(w, src, dst) == Delivered(BusRead(w, src), src, dst)

-----------------------------------------------------------------------------
(* DMAChannel::transfer() *)

SubChannels == {"A", "B"}
End(s) == IF s = "A" THEN "DEND1A" ELSE "DEND1B"

NoChannel == [dte |-> FALSE, dta |-> FALSE, dtie |-> FALSE, rpe |-> FALSE,
              dtid |-> FALSE, toMem |-> FALSE, trigger |-> "none",
              mem |-> 0, io |-> 0, count |-> 0]

Disabled(w, s) == [w EXCEPT !.dma[s].dte = FALSE]

Withdrawn(w, s) == IF w.dma[s].dta
                   THEN [w EXCEPT !.req = @ \ {w.dma[s].trigger}] ELSE w

Source(c) == IF c.toMem THEN c.io ELSE c.mem
Destination(c) == IF c.toMem THEN c.mem ELSE c.io

CountedDown(w, s) == [w EXCEPT !.dma[s].count = @ - 1]

EndedIfDone(w, s) ==
  IF w.dma[s].count > 0 THEN w
  ELSE interrupt(Disabled(w, s), IF w.dma[s].dtie THEN {End(s)} ELSE {})

Stepped(w, s) ==
  IF w.dma[s].rpe THEN w
  ELSE [w EXCEPT !.dma[s].mem = IF w.dma[s].dtid THEN @ - 1 ELSE @ + 1]

(* The flag the request came from is cleared for the register served.      *)
Acknowledged(w, c) ==
  IF Destination(c) = TDR /\ c.trigger = "TXI" THEN Clear(w, "TDRE")
  ELSE IF Source(c) = RDR /\ c.trigger = "RXI" THEN Clear(w, "RDRF")
  ELSE w

(* One unit, its request withdrawn if DTA says so. *)
MoveUnit(w, s) ==
  LET c == w.dma[s]
  IN  Acknowledged(
        Stepped(EndedIfDone(CountedDown(
          BusCopy(Withdrawn(w, s), Source(c), Destination(c)), s), s), s), c)

SubChannelUnchecked(w, s) ==
  LET c == w.dma[s]
  IN  IF c.dte /\ c.count > 0 THEN MoveUnit(w, s) ELSE w

(* A channel with nothing left to count, or with a trigger the emulator    *)
(* does not know, is disabled.  Repeat mode (RPE without DTIE) is not      *)
(* implemented: nothing happens. *)
doSubChannel(w, s) ==
  LET c == w.dma[s]
  IN  IF ~c.dte THEN w
      ELSE IF c.count = 0 THEN Disabled(w, s)
      ELSE IF c.rpe /\ ~c.dtie THEN w
      ELSE IF c.trigger \notin {"TXI", "RXI"} THEN Disabled(w, s)
      ELSE IF c.trigger \notin w.req THEN w
      ELSE MoveUnit(w, s)

transfer(w) == doSubChannel(doSubChannel(w, "A"), "B")

-----------------------------------------------------------------------------
(* updateDTC() *)

(* The requests of this model in the order of the DTC's enable bits, their *)
(* numbers, and the 64-bit word of requestedInterrupts they are in.        *)
Sources == {"IRQ0", "TXI", "RXI", "TEI", "DEND1A", "DEND1B"}
DtcOrder == <<"IRQ0", "TXI", "RXI", "DEND1B", "DEND1A">>
Number == [IRQ0 |-> 16, DEND1A |-> 74, DEND1B |-> 75,
           RXI |-> 85, TXI |-> 86, TEI |-> 87]
Before(s, t) == Number[s] < Number[t] /\ Number[s] \div 64 = Number[t] \div 64

Bytes == 256
Words == 65536

(* d.hi and d.lo are the bytes of countA.  Repeat mode is left out.        *)
CountA(d) == d.hi * Bytes + d.lo
Units(d) == IF d.mode = "normal" THEN CountA(d) ELSE d.lo

(* One unit in normal mode, the entire block in block mode. *)
Moved(w, d) ==
  LET turns == IF d.mode = "block" THEN d.lo ELSE 1
      turn[k \in 0 .. turns] ==
        IF k = 0 THEN [w |-> w, src |-> d.src, dst |-> d.dst]
        ELSE LET t == turn[k - 1]
             IN  [w |-> BusCopy(t.w, t.src, t.dst),
                  src |-> t.src + d.srcStep, dst |-> t.dst + d.dstStep]
  IN  turn[turns]

(* What is written back to the descriptor, the addresses after the move.   *)
Counted(d, src, dst) ==
  LET left == Units(d) - 1
  IN  IF d.mode = "normal"
      THEN [d EXCEPT !.hi = left \div Bytes, !.lo = left % Bytes,
                     !.src = src, !.dst = dst]
      ELSE [d EXCEPT !.lo = d.hi, !.countB = (@ - 1) % Words,
                     !.src = IF d.srcBlock THEN src - d.hi * d.srcStep ELSE src,
                     !.dst = IF d.srcBlock THEN dst ELSE dst - d.hi * d.dstStep]

Ends(d) == IF d.mode = "normal" THEN CountA(d) = 0 ELSE d.countB = 0

Stored(m, n, d) == [m.w EXCEPT !.dtc.descs[n] = Counted(d, m.src, m.dst)]

(* The descriptor at index v and those chained to it. *)
Last(w, v) ==
  CHOOSE n \in v .. Len(w.dtc.descs) :
    ~w.dtc.descs[n].chain /\ \A k \in v .. n - 1 : w.dtc.descs[k].chain

Chained(w, v) ==
  LET run[n \in v - 1 .. Last(w, v)] ==
        IF n = v - 1 THEN w
        ELSE LET d == run[n - 1].dtc.descs[n]
             IN  Stored(Moved(run[n - 1], d), n, d)
  IN  run[Last(w, v)]

(* "DISEL or count is 0": the enable is cleared, else the request.         *)
Settled(w, d, s) == IF d.disel \/ Ends(d)
                    THEN [w EXCEPT !.dtc.enabled = @ \ {s}]
                    ELSE [w EXCEPT !.req = @ \ {s}]

(* After the last unit the request, and the flag, are the processor's.  Of *)
(* a chain, only the last descriptor says what was served. *)
Concluded(w, d, s) ==
  IF Ends(d) THEN [w |-> w, triggered |-> FALSE]
  ELSE LET fed == IF d.dst = TDR THEN Clear(w, "TDRE") ELSE w
       IN  [w |-> IF d.src = RDR THEN Clear(fed, "RDRF") ELSE fed,
            triggered |-> TRUE]

Served(w, d, s) == Concluded(Settled(w, d, s), d, s)

Activated(w, s, v) ==
  LET Serve(u) == Served(u, u.dtc.descs[Last(u, v)], s) IN Serve(Chained(w, v))

(* The first enabled request, unless one with a lower number is pending in *)
(* the same word, whoever that one is for. *)
updateDTC(w) ==
  LET asked == {i \in DOMAIN DtcOrder : DtcOrder[i] \in w.dtc.enabled \cap w.req}
      first == CHOOSE i \in asked : \A k \in asked : i <= k
      s == DtcOrder[first]
  IN  IF asked = {} \/ \E t \in w.req : Before(t, s)
      THEN [w |-> w, triggered |-> FALSE]
      ELSE Activated(w, s, w.dtc.vec[s])
=============================================================================
