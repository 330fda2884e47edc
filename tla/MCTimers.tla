------------------------------ MODULE MCTimers -----------------------------
(* Counters modulo 6 and 4, one or two clocks to a count (three for the   *)
(* 8-bit timer), slices of 5 cycles: a counter goes round in a few slices, *)
(* and an instruction may take longer than the distance of two matches and *)
(* than a clock of the 8-bit timer.                                        *)
EXTENDS TimerSystem

Pins1 == {NoPin, Pin("toggle", FALSE)}
=============================================================================
