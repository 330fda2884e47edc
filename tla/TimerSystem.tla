---------------------------- MODULE TimerSystem ----------------------------
(***************************************************************************)
(* The timers under the processor: executeCycles runs an instruction,      *)
(* which may access a timer register, lets its cycles pass and looks at    *)
(* the timers; at the end of a slice it brings the TPU up to date.  How    *)
(* long an instruction takes depends on the memory it is fetched from and  *)
(* accesses, on wait states and on the transfers it waits for: it may be   *)
(* longer than the clock of a timer.                                       *)
(***************************************************************************)
EXTENDS Tpu, Timer8

CONSTANTS Setups,      \* names of how the firmware has set the timers up
          InstrCycles, \* cycles of an instruction, with what it waits for
          Slice,       \* cycles in a call of executeCycles
          Divs,        \* clock divisors the firmware selects
          Values,      \* what it writes to TCNT and TGR
          PortLevels,  \* what it writes to the speaker's bit of the port
          PinsB,       \* what it writes to TIOR for output B
          MaxLag,      \* bound: counts the 8-bit timer is behind
          MaxWrites    \* bound: register writes after the set-up

VARIABLES cpu,    \* the world of Tpu and Timer8
          seen,   \* the timers as reading them now would show them
          setup,  \* the way the firmware uses the timers
          left,   \* cycles of the present instruction still to pass
          run,    \* cycles of the slice executed so far
          writes, \* register writes so far
          late    \* history: cycles for which a channel has owed an interrupt

vars == <<cpu, seen, setup, left, run, writes, late>>

NoPin == [act |-> "none", initial |-> FALSE, input |-> FALSE]
Pin(act, initial) == [act |-> act, initial |-> initial, input |-> FALSE]

Quiet(ch) ==
  [div |-> 0, clearOn |-> "none", pwm |-> FALSE,
   pins |-> [p \in Pins |-> NoPin], out |-> {}, tier |-> {}, tsr |-> {},
   counter |-> 0, general |-> [g \in Gens(ch) |-> IF g = "A" THEN Wrap - 1 ELSE 0],
   next |-> 0, since |-> 0, toNext |-> 0, from |-> 0]

World ==
  [tpu |-> [ch \in Channels |-> Quiet(ch)], start |-> {}, irqOn |-> {},
   t8 |-> [div |-> 0, counter |-> 0, frac |-> 0, since |-> 0, ovf |-> FALSE, irq |-> FALSE],
   req |-> {}, data |-> FALSE,
   sound |-> [level |-> FALSE, since |-> 0, wrapped |-> FALSE]]

-----------------------------------------------------------------------------
(* What the firmware has set up when it starts the timers.                 *)

(* A channel with all its registers. *)
FourMatches(div, clearOn) ==
  WriteTCR(WriteTIER([World EXCEPT !.tpu[0].general =
                        [A |-> 4, B |-> 2, C |-> 4, D |-> 0]],
                     0, {"B", "V"}), 0, div, clearOn)

(* A tone: TPU1 in PWM mode, with TPU0 running beside it. *)
Tone ==
  WriteTCR(
    WriteTCR([World EXCEPT !.tpu[1].pwm = TRUE,
                           !.tpu[1].general = [A |-> 3, B |-> 2],
                           !.tpu[1].pins = [A |-> NoPin, B |-> Pin("high", FALSE)],
                           !.tpu[0].pins = [A |-> Pin("toggle", TRUE), B |-> NoPin],
                           !.tpu[0].general = [A |-> 2, B |-> 0, C |-> 0, D |-> 0]],
             1, 2, "A"), 0, 1, "A")

Toggled ==
  WriteTCR([World EXCEPT !.tpu[1].general = [A |-> 0, B |-> 1],
                         !.tpu[1].pins = [A |-> NoPin, B |-> Pin("toggle", TRUE)]],
           1, 1, "none")

Timing(div) ==
  [World EXCEPT !.t8.div = div, !.t8.irq = TRUE]

Configured(s) ==
  CASE s = "free" -> WriteTSTR(FourMatches(1, "none"), {0})
    [] s = "clearA" -> WriteTSTR(FourMatches(2, "A"), {0})
    [] s = "clearC" -> WriteTSTR(FourMatches(1, "C"), {0})
    [] s = "tone" -> WriteTSTR(Tone, {0, 1})
    [] s = "toggle" -> WriteTSTR(Toggled, {1})
    [] s = "timer8" -> Timing(3)

(* The channel the firmware goes on to use, and the registers it writes. *)
Used(s) == IF s \in {"tone", "toggle"} THEN 1 ELSE 0

Registers(s) ==
  CASE s = "free" -> {"TIER", "TSR"}
    [] s = "clearA" -> {"TCR", "TSTR"}
    [] s = "clearC" -> {"TIER", "TCNT", "DR"}
    [] s = "tone" -> {"TSTR", "TCR"}
    [] s = "toggle" -> {"TGRB", "TIOR"}
    [] s = "timer8" -> {"TCR8", "TCSR8", "TCNT8"}

-----------------------------------------------------------------------------
(* What reading the timers now would show: the channels as update() would  *)
(* leave them, the 8-bit timer with the counts that are outstanding.       *)
Lag(t) == IF t.div = 0 THEN 0 ELSE (t.frac + t.since) \div t.div

SeenChannel(c, on) ==
  [on |-> on, div |-> c.div, clearOn |-> c.clearOn, general |-> c.general,
   counter |-> c.counter, tsr |-> c.tsr, phase |-> c.since]

SeenTimer(t) ==
  [div |-> t.div,
   counter |-> (t.counter + Lag(t)) % Wrap8,
   phase |-> IF t.div = 0 THEN 0 ELSE (t.frac + t.since) % t.div,
   ovf |-> t.ovf \/ t.counter + Lag(t) >= Wrap8]

Seen(w) ==
  [tpu |-> [ch \in Channels |-> SeenChannel(update(w, ch).tpu[ch], ch \in w.start)],
   t8 |-> SeenTimer(w.t8)]

(* The interrupts a channel would have requested by now if it were clocked. *)
OwedIn(w, shown, ch) == (shown.tpu[ch].tsr \ w.tpu[ch].tsr) \cap w.tpu[ch].tier

Owed(ch) == OwedIn(cpu, seen, ch)

Init ==
  /\ setup \in Setups
  /\ cpu = Configured(setup)
  /\ seen = Seen(cpu)
  /\ left = 0
  /\ run = 0
  /\ writes = 0
  /\ late = [ch \in Channels |-> 0]

-----------------------------------------------------------------------------
(* The processor goes on with the world w, so many cycles later. *)
Become(w, cycles) ==
  /\ cpu' = w
  /\ seen' = Seen(w)
  /\ late' = [ch \in Channels |->
                IF OwedIn(w, Seen(w), ch) = {} \/ Owed(ch) = {} THEN 0
                ELSE late[ch] + cycles]

(* executeCycles: an instruction leaves the world w and then takes n       *)
(* cycles; nothing looks at the timers until the last of them has passed.  *)
Begin(w, n) ==
  /\ left = 0
  /\ w.t8.div # 0 => Lag(w.t8) + n \div w.t8.div < MaxLag
  /\ Become(w, 0)
  /\ left' = n
  /\ UNCHANGED <<setup, run>>

OneCycle(w) == PassTime8(PassTime(w, 1), 1)

Looked(w) == updateForInterrupts8(UpdateTPUs(w))

EndOfTurn(w) ==
  IF run + 1 < Slice THEN Looked(w) ELSE PlaySound(SyncTPUs(Looked(w)))

Tick ==
  /\ left > 0
  /\ \E w \in {IF left > 1 THEN OneCycle(cpu) ELSE EndOfTurn(OneCycle(cpu))} :
       Become(w, 1)
  /\ left' = left - 1
  /\ run' = IF left = 1 /\ run + 1 >= Slice THEN 0 ELSE run + 1
  /\ UNCHANGED <<setup, writes>>

(* An instruction that writes no register of a timer. *)
Look(w) == UNCHANGED writes /\ \E n \in InstrCycles : Begin(w, n)

Compute == Look(cpu)

(* serviceInterrupt takes a request. *)
ServiceInterrupt == \E i \in cpu.req : Look([cpu EXCEPT !.req = @ \ {i}])

UsesTpu == setup # "timer8"
Ch == Used(setup)

ReadTCNT == UsesTpu /\ Look(update(cpu, Ch))

(* One that does. *)
Write(reg, w) ==
  /\ reg \in Registers(setup)
  /\ writes < MaxWrites /\ writes' = writes + 1
  /\ \E n \in InstrCycles : Begin(w, n)

SetTCR ==
  \E div \in Divs : Write("TCR", WriteTCR(cpu, Ch, div, cpu.tpu[Ch].clearOn))

SetTIOR ==
  \E pin \in PinsB :
    Write("TIOR", WriteTIOR(cpu, Ch, [cpu.tpu[Ch].pins EXCEPT !["B"] = pin]))

SetTIER ==
  \E enables \in {{}, {"A", "V"}} : Write("TIER", WriteTIER(cpu, Ch, enables))

ClearTSR ==
  \E flag \in cpu.tpu[Ch].tsr :
    Write("TSR", WriteTSR(cpu, Ch, Flags(Ch) \ {flag}))

SetTCNT == \E v \in Values : Write("TCNT", WriteTCNT(cpu, Ch, v))

SetTGR == \E v \in Values : Write("TGRB", WriteTGR(cpu, Ch, "B", v))

SetTSTR ==
  Write("TSTR", WriteTSTR(cpu, IF Ch \in cpu.start THEN cpu.start \ {Ch}
                                  ELSE cpu.start \cup {Ch}))

SetPort == \E level \in PortLevels : Write("DR", WriteDR(cpu, level))

ReadTCNT8 == ~UsesTpu /\ Look(update8(cpu))
SetTCR8 == \E irq \in BOOLEAN : Write("TCR8", WriteTCR8(cpu, irq))
ClearTCSR8 == Write("TCSR8", WriteTCSR8(cpu, FALSE))
SetTCNT8 == Write("TCNT8", WriteTCNT8(cpu, 0))

Next ==
  \/ Tick
  \/ Compute \/ ServiceInterrupt
  \/ ReadTCNT \/ SetTCR \/ SetTIOR \/ SetTIER \/ ClearTSR \/ SetTCNT \/ SetTGR
  \/ SetTSTR \/ SetPort
  \/ ReadTCNT8 \/ SetTCR8 \/ ClearTCSR8 \/ SetTCNT8

(* The processor goes on executing. *)
Spec == Init /\ [][Next]_vars /\ []<><<Next>>_vars

-----------------------------------------------------------------------------
Ideal == INSTANCE IdealTimers WITH tpu <- seen.tpu, t8 <- seen.t8

(* Looking at a timer late, in jumps from match to match or one count at a *)
(* time, whenever an instruction, an interrupt or the end of a slice       *)
(* happens to look, gives the counters and flags of one that is clocked in *)
(* every cycle: no match or overflow is missed, made twice or made early.  *)
TimersAreClocked == Ideal!Spec

(* The time of the next look is computed as if the counter were 0.  So an  *)
(* interrupt the clocked timer would have requested may be late, but at    *)
(* the end of an instruction it is outstanding for less than the counter   *)
(* when the look was predicted explains, in clocks of the timer: never, if *)
(* the counter was 0, whatever was read, written or stopped since then.    *)
InterruptsInTime ==
  \A ch \in cpu.start :
    left = 0 /\ Owed(ch) # {} => late[ch] < cpu.tpu[ch].from * cpu.tpu[ch].div

(* The speaker is never told a time before the one it was told last: the   *)
(* unsigned difference of the two would be played as samples. *)
SoundGoesForward == ~cpu.sound.wrapped

(* The 8-bit timer counts at most once for each instruction.  It works off *)
(* its backlog again and again, unless the processor goes on executing     *)
(* instructions that take as long as the timer's clock, from slow memory   *)
(* or waiting for transfers; an instruction that does adds to it.          *)
TakesAClock == cpu.t8.div # 0 /\ left >= cpu.t8.div

Timer8CatchesUp == []<>(Lag(cpu.t8) = 0) \/ []<>TakesAClock
=============================================================================
