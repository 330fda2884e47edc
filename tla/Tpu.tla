-------------------------------- MODULE Tpu --------------------------------
(***************************************************************************)
(* H8CPU::TPU: the channels of the timer pulse unit, and the port pin that *)
(* drives the speaker.  A channel is not clocked: its counter, flags and   *)
(* outputs are brought up to date when something looks at them, in jumps   *)
(* to the next value that matters.  An update raises interrupts and writes *)
(* the port, so the operations are operators on a world w with at least    *)
(*   tpu: the channels, start: tpuStart, irqOn: tpuInterruptEnable,        *)
(*   req: requestedInterrupts, data: the speaker's bit of the port's data, *)
(*   sound: the speaker.                                                   *)
(*                                                                         *)
(* Time is relative to the present clock: since is clock minus             *)
(* lastUpdateCycle, toNext is nextUpdateCycle minus lastUpdateCycle.  from *)
(* is a history the code does not keep: the counter when next was chosen.  *)
(***************************************************************************)
EXTENDS Integers, Sequences, SequencesExt

CONSTANTS Wrap,      \* the counter is modulo Wrap (0x10000)
          MaxAge     \* times further back than this are not told apart

ASSUME TpuAssumption == Wrap \in Nat \ {0} /\ MaxAge \in Nat

Channels == {0, 1}
Generals == <<"A", "B", "C", "D">>
Gens(ch) == IF ch = 0 THEN {"A", "B", "C", "D"} ELSE {"A", "B"}
Pins == {"A", "B"}                 \* the outputs update() drives
Flags(ch) == Gens(ch) \cup {"V"}   \* TGFA to TGFD and TCFV
Drives(pin) == pin.act # "none"
Outputs(c) == {p \in Pins : Drives(c.pins[p]) /\ ~c.pins[p].input}   \* ioMask

AtLeast0(n) == IF n < 0 THEN 0 ELSE n
Capped(n) == IF n > MaxAge THEN MaxAge ELSE n

-----------------------------------------------------------------------------
(* The speaker: bit 5 of port 1, TPU1's output B.  The samples played are  *)
(* the unsigned difference of two times; wrapped says one was negative.    *)

updateAudio(w, ago) ==
  [w EXCEPT !.sound.wrapped = @ \/ ago > w.sound.since,
            !.sound.since = ago]

PortWrite(w, level, ago) ==
  IF level = w.sound.level THEN w
  ELSE [updateAudio(w, ago) EXCEPT !.sound.level = level]

updateTPUIO(w, ago) ==
  PortWrite(w, IF "B" \in Outputs(w.tpu[1]) THEN "B" \in w.tpu[1].out ELSE w.data,
            ago)

setIO(w, ch, pin, value) ==
  updateTPUIO([w EXCEPT !.tpu[ch].out = IF value THEN @ \cup {pin} ELSE @ \ {pin}],
              w.tpu[ch].since)

Restored(w, ch, pin) ==
  IF Drives(w.tpu[ch].pins[pin])
  THEN setIO(w, ch, pin, w.tpu[ch].pins[pin].initial) ELSE w

setEnabled(w, ch) == Restored(Restored(w, ch, "A"), ch, "B")

-----------------------------------------------------------------------------
(* The next general register above the counter, or the overflow; the time  *)
(* at which to look is computed as if the counter were 0. *)
NextMatch(c) ==
  LET above == {c.general[g] : g \in DOMAIN c.general} \cap (c.counter + 1 .. Wrap - 1)
  IN IF above = {} THEN Wrap ELSE CHOOSE v \in above : \A u \in above : v <= u

TimeToNextOff(c, next) == (next + 1) * c.div

TimeToNext(c, next) == next * c.div

Predicted(c, next) ==
  [c EXCEPT !.next = next, !.toNext = TimeToNext(c, next), !.from = c.counter]

calcNextUpdate(w, ch) == [w EXCEPT !.tpu[ch] = Predicted(@, NextMatch(@))]

Raised(w, ch, flag) ==
  [w EXCEPT !.tpu[ch].tsr = @ \cup {flag},
            !.req = IF flag \in w.tpu[ch].tier THEN @ \cup {<<ch, flag>>} ELSE @]

Clear(w, ch) ==
  LET zero == [w EXCEPT !.tpu[ch].counter = 0]
  IN IF w.tpu[ch].pwm THEN setEnabled(zero, ch) ELSE zero

Level(c, pin) ==
  CASE c.pins[pin].act = "low" -> FALSE
    [] c.pins[pin].act = "high" -> TRUE
    [] c.pins[pin].act = "toggle" -> pin \notin c.out

Driven(w, ch, g) ==
  IF g \in Outputs(w.tpu[ch]) THEN setIO(w, ch, g, Level(w.tpu[ch], g)) ELSE w

ClearedBy(w, ch, g) == IF w.tpu[ch].clearOn = g THEN Clear(w, ch) ELSE w

Compared(w, ch, g) ==
  IF g \in Gens(ch) /\ w.tpu[ch].counter = w.tpu[ch].general[g]
  THEN Driven(ClearedBy(Raised(w, ch, g), ch, g), ch, g) ELSE w

ComparedAll(w, ch) ==
  FoldLeft(LAMBDA v, g : Compared(v, ch, g), w, Generals)

Overflowed(w, ch) == IF w.tpu[ch].counter = 0 THEN Raised(w, ch, "V") ELSE w

-----------------------------------------------------------------------------
(* lastUpdateCycle moves on by n cycles. *)
Aged(c, n) == [c EXCEPT !.since = @ - n, !.toNext = AtLeast0(@ - n)]

Counted(c, n) == [Aged(c, n * c.div) EXCEPT !.counter = (@ + n) % Wrap]

StepTo(w, ch, n) ==
  calcNextUpdate(ComparedAll(Overflowed([w EXCEPT !.tpu[ch] = Counted(@, n)], ch), ch), ch)

Distance(c) == LET inc == c.since \div c.div IN
               IF inc < c.next - c.counter THEN inc ELSE c.next - c.counter

(* One turn of the while loop.  The body never shortens since by less than *)
(* a clock of the counter, so CatchUp makes no more turns than it has.     *)
Turn(w, ch) ==
  IF w.tpu[ch].since < w.tpu[ch].div THEN w
  ELSE StepTo(w, ch, Distance(w.tpu[ch]))

CatchUp(w, ch) ==
  FoldLeft(LAMBDA v, i : Turn(v, ch), w,
           [i \in 1..(w.tpu[ch].since \div w.tpu[ch].div) |-> i])

NotPassed(c) == c.counter + (c.since \div c.div) <= c.next

NotReached(c) == c.counter + (c.since \div c.div) < c.next

Idle(w, ch) == w.tpu[ch].div = 0 \/ ch \notin w.start

update(w, ch) ==
  CASE Idle(w, ch) -> [w EXCEPT !.tpu[ch] = Aged(@, @.since)]
    [] ~Idle(w, ch) /\ NotReached(w.tpu[ch]) ->
         [w EXCEPT !.tpu[ch] = Counted(@, @.since \div @.div)]
    [] OTHER -> CatchUp(w, ch)

Looks(c) == c.tier # {} /\ c.since >= c.toNext

updateForInterrupts(w, ch) == IF Looks(w.tpu[ch]) THEN update(w, ch) ELSE w

-----------------------------------------------------------------------------
(* Register accesses: each one brings the channel up to date first.        *)

WriteTCR(w, ch, div, clearOn) ==
  calcNextUpdate([update(w, ch) EXCEPT !.tpu[ch].div = div,
                                       !.tpu[ch].clearOn = clearOn], ch)

WriteTIOR(w, ch, pins) == [update(w, ch) EXCEPT !.tpu[ch].pins = pins]

WriteTIER(w, ch, enables) ==
  [update(w, ch) EXCEPT !.irqOn = IF enables # {} THEN @ \cup {ch} ELSE @ \ {ch},
                        !.tpu[ch].tier = enables]

WriteTSR(w, ch, flags) == [update(w, ch) EXCEPT !.tpu[ch].tsr = @ \cap flags]

WriteTCNT(w, ch, v) ==
  calcNextUpdate([update(w, ch) EXCEPT !.tpu[ch].counter = v], ch)

WriteTGR(w, ch, g, v) ==
  calcNextUpdate([update(w, ch) EXCEPT !.tpu[ch].general[g] = v], ch)

(* TSTR: the channels that start or stop are brought up to date and put    *)
(* their outputs back, in order, while tpuStart is still the old value.    *)
SwitchedOn(w, ch, channels) ==
  IF (ch \in channels) = (ch \in w.start) THEN w
  ELSE setEnabled(update([w EXCEPT !.start = channels], ch), ch)

Switched(w, ch, channels) ==
  IF (ch \in channels) = (ch \in w.start) THEN w ELSE setEnabled(update(w, ch), ch)

WriteTSTR(w, channels) ==
  [Switched(Switched(w, 0, channels), 1, channels) EXCEPT !.start = channels]

(* PxDR: the timers that might write the port come first. *)
WriteDR(w, level) ==
  [PortWrite(update(update(w, 0), 1), level, 0) EXCEPT !.data = level]

-----------------------------------------------------------------------------
(* executeCycles: n cycles pass. *)
ChannelAfter(w, ch, n) ==
  [w.tpu[ch] EXCEPT !.since = IF Idle(w, ch) THEN Capped(@ + n) ELSE @ + n]

PassTime(w, n) ==
  [w EXCEPT !.tpu = [ch \in Channels |-> ChannelAfter(w, ch, n)],
            !.sound.since = Capped(@ + n)]

IfLooked(w, ch) == IF ch \in w.irqOn \cap w.start THEN updateForInterrupts(w, ch) ELSE w

UpdateTPUs(w) == IfLooked(IfLooked(w, 0), 1)

Synced(w, ch) == IF ch \in w.start THEN update(w, ch) ELSE w

(* The end of a slice: for the sound, all that run are brought up to date; *)
(* if TPU1 is stopped the main loop moves the speaker on itself. *)
SyncTPUs(w) == Synced(Synced(w, 0), 1)

PlaySound(w) == IF 1 \in w.start THEN w ELSE updateAudio(w, 0)
=============================================================================
