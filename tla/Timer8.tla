------------------------------ MODULE Timer8 -------------------------------
(***************************************************************************)
(* H8CPU::Timer: an 8-bit timer.  It is looked at after each instruction   *)
(* and counts at most once each time, however many of its clocks went by;  *)
(* the rest stays in frac for the next time.  Operators on a world w with  *)
(*   t8: the timer, req: requestedInterrupts.                              *)
(* Time is relative: since is clock minus lastUpdateCycle.                 *)
(***************************************************************************)
EXTENDS Integers

CONSTANTS Wrap8   \* the counter is modulo Wrap8 (0x100)

ASSUME Timer8Assumption == Wrap8 \in Nat \ {0}

Taken8(t) == [t EXCEPT !.since = 0, !.frac = @ + t.since]

(* A mutant: "frac = clockDiv". *)
FracAssigned(t) ==
  [t EXCEPT !.frac = t.div,
            !.counter = (@ + 1) % Wrap8,
            !.ovf = @ \/ t.counter = Wrap8 - 1]

Counted8(t) ==
  [t EXCEPT !.frac = @ - t.div,
            !.counter = (@ + 1) % Wrap8,
            !.ovf = @ \/ t.counter = Wrap8 - 1]

Overflows8(t) == t.counter = Wrap8 - 1 /\ t.irq   \* control & 0x20

Count8(w) ==
  [w EXCEPT !.t8 = Counted8(@),
            !.req = IF Overflows8(w.t8) THEN @ \cup {"OVI"} ELSE @]

CountIfDue8(w) == IF w.t8.frac < w.t8.div THEN w ELSE Count8(w)

update8(w) ==
  IF w.t8.div = 0 THEN [w EXCEPT !.t8.since = 0]
  ELSE CountIfDue8([w EXCEPT !.t8 = Taken8(@)])

updateForInterrupts8(w) ==
  IF w.t8.since >= w.t8.div - w.t8.frac THEN update8(w) ELSE w

(* Register accesses: each one brings the timer up to date first. *)
WriteTCR8(w, irq) == [update8(w) EXCEPT !.t8.irq = irq]
WriteTCSR8(w, ovf) == [update8(w) EXCEPT !.t8.ovf = ovf]
WriteTCNT8(w, v) == [update8(w) EXCEPT !.t8.counter = v]

PassTime8(w, n) == [w EXCEPT !.t8.since = @ + n]
=============================================================================
