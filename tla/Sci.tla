-------------------------------- MODULE Sci --------------------------------
(***************************************************************************)
(* H8CPU::Serial: one serial port of the emulated processor, and the       *)
(* device attached to it.  Its registers are read and written by the       *)
(* processor, the DMAC and the DTC, so the operations are operators on a   *)
(* world w, a record with at least                                         *)
(*   sci: the port, dev: its device, req: requestedInterrupts.             *)
(*                                                                         *)
(* Time is relative to lastUpdateCycle: sci.since is what update() calls   *)
(* elapsed, and sci.next is nextUpdateCycle - lastUpdateCycle.             *)
(***************************************************************************)
EXTENDS Integers, Sequences

CONSTANTS CharCycles,  \* cyclesPerChar
          Junk         \* what is sent while only receiving (0xFF)

ASSUME SciAssumption == CharCycles \in Nat \ {0}

Flags == {"TDRE", "RDRF", "ORER", "TEND"}                  \* SSR
InterruptEnables == {"TIE", "RIE", "TEIE", "MPIE"}

On(w, bit) == bit \in w.sci.scr
Flag(w, f) == f \in w.sci.ssr

(* status is initialised to 0x84, everything else to 0. *)
IdleSci(sync) ==
  [sync |-> sync, scr |-> {}, ssr |-> {"TDRE", "TEND"}, tdr |-> 0, rdr |-> 0,
   tx |-> 0, rx |-> 0, since |-> 0, next |-> 0, delayed |-> {}]

-----------------------------------------------------------------------------
(* The device.  One that answers has a byte to read for every one written; *)
(* its k-th answer is the byte k. *)

canRead(w) == w.dev.out # << >>

DevWrite(w, b) ==
  [w EXCEPT !.dev.wrote = Append(@, b),
            !.dev.out = IF w.dev.answers THEN Append(@, w.dev.made + 1) ELSE @,
            !.dev.made = IF w.dev.answers THEN @ + 1 ELSE @]

-----------------------------------------------------------------------------
interrupt(w, sources) == [w EXCEPT !.req = @ \cup sources]

Earlier(a, b) == IF b > 0 /\ b < a THEN b ELSE a

NextIgnoringTX(w) ==
  IF \/ w.sci.delayed # {}
     \/ w.sci.rx = 0 /\ ~w.sci.sync /\ canRead(w)
  THEN 0 ELSE Earlier(CharCycles, w.sci.rx)

NextUpdate(w) ==
  IF \/ w.sci.delayed # {}
     \/ w.sci.rx = 0 /\ ~w.sci.sync /\ canRead(w)
  THEN 0 ELSE Earlier(Earlier(CharCycles, w.sci.tx), w.sci.rx)

calcNextUpdate(w) == [w EXCEPT !.sci.next = NextUpdate(w)]

Delayed(w, enable, source) ==
  IF On(w, enable) THEN w.sci.delayed \cup {source} ELSE w.sci.delayed

(* Receiving only, something is sent for the device to answer. *)
Asked(w) == IF w.sci.sync /\ ~On(w, "TE") THEN DevWrite(w, Junk) ELSE w

Fetched(w) ==
  calcNextUpdate(
    [w EXCEPT !.sci.rdr = IF canRead(w) THEN Head(w.dev.out) ELSE @,
              !.dev.out = IF canRead(w) THEN Tail(@) ELSE @,
              !.sci.ssr = @ \cup {"RDRF"},
              !.sci.delayed = Delayed(w, "RIE", "RXI"),
              !.sci.rx = IF w.sci.sync THEN @ ELSE CharCycles])

Received(w) == Fetched(Asked(w))

(* The next byte of the device, unless the last one has not been fetched.  *)
doRX(w) == IF Flag(w, "RDRF") THEN [w EXCEPT !.sci.ssr = @ \cup {"ORER"}]
           ELSE Received(w)

AlsoReceived(w) == IF w.sci.sync /\ On(w, "RE") THEN doRX(w) ELSE w

Started(w) == calcNextUpdate([w EXCEPT !.sci.ssr = @ \cup {"TDRE"},
                                       !.sci.delayed = Delayed(w, "TIE", "TXI"),
                                       !.sci.tx = CharCycles])

doTXRaising(w) ==
  AlsoReceived(Started(interrupt(DevWrite(w, w.sci.tdr),
                                 IF On(w, "TIE") THEN {"TXI"} ELSE {})))

(* The byte in TDR goes to the device at once, and its time starts now.    *)
(* The interrupt is put off: the DMAC may be calling. *)
doTX(w) == AlsoReceived(Started(DevWrite(w, w.sci.tdr)))

-----------------------------------------------------------------------------
(* update(): what happened since lastUpdateCycle. *)

(* A character has gone out: the next one goes, or that was the end.       *)
NextOrEnd(w) ==
  IF ~On(w, "TE") THEN w
  ELSE IF ~Flag(w, "TDRE") THEN doTX(w)
  ELSE interrupt([w EXCEPT !.sci.ssr = @ \cup {"TEND"}],
                 IF On(w, "TEIE") THEN {"TEI"} ELSE {})

(* "keep going anyway if rx-only sync" *)
KeptClocked(w) == IF On(w, "RE") /\ ~On(w, "TE") /\ w.sci.sync
                  THEN [doRX(w) EXCEPT !.sci.tx = CharCycles] ELSE w

Transmitting(w, step) ==
  IF w.sci.tx = 0 THEN w
  ELSE IF w.sci.tx > step THEN [w EXCEPT !.sci.tx = @ - step]
  ELSE KeptClocked(NextOrEnd([w EXCEPT !.sci.tx = 0]))

Receiving(w, step) ==
  IF w.sci.rx = 0 THEN w ELSE [w EXCEPT !.sci.rx = @ - step]

ReceivedIfReady(w) ==
  IF /\ w.sci.rx = 0 /\ ~w.sci.sync /\ On(w, "RE") /\ ~Flag(w, "RDRF")
     /\ canRead(w)
  THEN doRX(w) ELSE w

Step(w, left) == Earlier(Earlier(left, w.sci.tx), w.sci.rx)

(* One turn of its loop, for at most left cycles. *)
UpdateStep(l) ==
  LET step == Step(l.w, l.left)
  IN  [w |-> calcNextUpdate(ReceivedIfReady(
                              Receiving(Transmitting(l.w, step), step))),
       left |-> l.left - step]

update(w) ==
  LET raised == [interrupt(w, w.sci.delayed) EXCEPT !.sci.delayed = {},
                                                    !.sci.since = 0]
      turn[i \in 0 .. w.sci.since] ==
        IF i = 0 THEN [w |-> raised, left |-> w.sci.since]
        ELSE LET l == turn[i - 1]
             IN  IF l.left = 0 THEN l ELSE UpdateStep(l)
  IN  turn[w.sci.since].w

updateForInterrupts(w) ==
  IF w.sci.scr \cap InterruptEnables # {} /\ w.sci.since >= w.sci.next
  THEN update(w) ELSE w

-----------------------------------------------------------------------------
(* setReg(), after the update() of writeIOReg(). *)

(* "set to 1 if disabled" *)
Idle(w) == IF On(w, "TE") THEN w
           ELSE [w EXCEPT !.sci.ssr = @ \cup {"TDRE", "TEND"}]

SetSCRQuietly(w, val) ==
  LET clocked == IF /\ "RE" \in val \ w.sci.scr /\ "TE" \notin val
                    /\ w.sci.sync /\ w.sci.tx = 0
                 THEN [w EXCEPT !.sci.tx = CharCycles] ELSE w
  IN  Idle([clocked EXCEPT !.sci.scr = val])

SetSCR(w, val) ==
  LET set == val \ w.sci.scr
      asked == IF "TIE" \in set /\ "TE" \in val /\ Flag(w, "TDRE")
               THEN interrupt(w, {"TXI"}) ELSE w
      clocked == IF "RE" \in set /\ "TE" \notin val /\ w.sci.sync /\ w.sci.tx = 0
                 THEN [asked EXCEPT !.sci.tx = CharCycles] ELSE asked
  IN  Idle([clocked EXCEPT !.sci.scr = val])

SetTDR(w, val) == Idle([w EXCEPT !.sci.tdr = val])

(* Flags can only be cleared, TEND not even that.  Clearing TDRE sends.    *)
SetSSR(w, val) ==
  LET kept == [w EXCEPT !.sci.ssr = (@ \cap val) \cup (@ \cap {"TEND"})]
      sends == Flag(w, "TDRE") /\ "TDRE" \notin val /\ On(w, "TE")
      begun == [kept EXCEPT !.sci.ssr = @ \ {"TEND"}]
  IN  Idle(IF ~sends THEN kept
           ELSE IF w.sci.tx = 0 THEN doTX(begun) ELSE begun)

Clear(w, f) == SetSSR(w, w.sci.ssr \ {f})
=============================================================================
