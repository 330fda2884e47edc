---------------------------- MODULE IdealTimers ----------------------------
(***************************************************************************)
(* What a timer promises the program: counters that are clocked, one count *)
(* for every div cycles of the processor, and flags that are set at the    *)
(* count at which they are due.  Nothing is lazy here: n cycles are n      *)
(* clocks.  The emulated timers are an optimisation of this one.           *)
(*                                                                         *)
(* tpu[ch] is a channel of the pulse unit, t8 the 8-bit timer.             *)
(***************************************************************************)
EXTENDS Integers, Sequences

CONSTANTS Wrap, Wrap8,
          Divs,    \* the clock divisors, 0 for none
          Values   \* what is written to counters and general registers

VARIABLES tpu, t8

idealVars == <<tpu, t8>>

Order(g) == CASE g = "A" -> 1 [] g = "B" -> 2 [] g = "C" -> 3 [] g = "D" -> 4

(* The registers are compared in order, and one that comes after the one   *)
(* that clears the counter is compared with 0.                             *)
ClearedAt(c, v) == c.clearOn \in DOMAIN c.general /\ c.general[c.clearOn] = v

ValueSeenBy(c, g, v) ==
  IF ClearedAt(c, v) /\ Order(g) > Order(c.clearOn) THEN 0 ELSE v

MatchesAt(c, v) == {g \in DOMAIN c.general : c.general[g] = ValueSeenBy(c, g, v)}

FlagsAt(c, v) == MatchesAt(c, v) \cup IF v = 0 THEN {"V"} ELSE {}

Arrive(c, v) ==
  [c EXCEPT !.phase = 0,
            !.counter = IF ClearedAt(c, v) THEN 0 ELSE v,
            !.tsr = @ \cup FlagsAt(c, v)]

Clock(c) ==
  IF ~c.on \/ c.div = 0 THEN c
  ELSE IF c.phase + 1 < c.div THEN [c EXCEPT !.phase = @ + 1]
  ELSE Arrive(c, (c.counter + 1) % Wrap)

Clock8(t) ==
  IF t.div = 0 THEN t
  ELSE IF t.phase + 1 < t.div THEN [t EXCEPT !.phase = @ + 1]
  ELSE [t EXCEPT !.phase = 0, !.counter = (@ + 1) % Wrap8,
                 !.ovf = @ \/ t.counter = Wrap8 - 1]

Tick ==
  /\ tpu' = [ch \in DOMAIN tpu |-> Clock(tpu[ch])]
  /\ t8' = Clock8(t8)

-----------------------------------------------------------------------------
(* What the program may write between two cycles.  When the clock is       *)
(* changed, a cycle that has passed since the last count is clocked again  *)
(* with the new one. *)
SetClock(c, div) ==
  LET new == [c EXCEPT !.div = div, !.phase = 0]
  IN IF c.phase = 0 THEN new ELSE Clock(new)

Switch(c) == [c EXCEPT !.on = ~@, !.phase = 0]

Written(c) ==
  {SetClock(c, div) : div \in Divs} \cup {Switch(c)}
  \cup {[c EXCEPT !.tsr = @ \ {flag}] : flag \in c.tsr}
  \cup {[c EXCEPT !.counter = v] : v \in Values}
  \cup {[c EXCEPT !.general[g] = v] : g \in DOMAIN c.general, v \in Values}

Write(ch) ==
  /\ tpu' \in {[tpu EXCEPT ![ch] = c] : c \in Written(tpu[ch])}
  /\ UNCHANGED t8

(* The 8-bit timer may be some counts behind when it is written: what is   *)
(* written counts on from there, and that decides whether an overflow that *)
(* was outstanding comes. *)
WriteTCNT8 ==
  /\ \E v \in 0..Wrap8 - 1, ovf \in BOOLEAN :
       t8' = [t8 EXCEPT !.counter = v, !.ovf = ovf]
  /\ UNCHANGED tpu

ClearTCSR8 == t8' = [t8 EXCEPT !.ovf = FALSE] /\ UNCHANGED tpu

Next == Tick \/ (\E ch \in DOMAIN tpu : Write(ch)) \/ WriteTCNT8 \/ ClearTCSR8

Init ==
  /\ \A ch \in DOMAIN tpu : tpu[ch].tsr = {} /\ tpu[ch].phase = 0
  /\ ~t8.ovf /\ t8.phase = 0

Spec == Init /\ [][Next]_idealVars
=============================================================================
