-------------------------- MODULE CpuSerialSystem --------------------------
(***************************************************************************)
(* H8CPU::executeCycles(): the loop that serves the DMA controller, the    *)
(* data transfer controller and the interrupts, executes an instruction    *)
(* and brings the serial port up to date.  The instructions are those of   *)
(* firmware that moves a message through the port: polling, as the         *)
(* functions of lib/H8/Serial.hpp do, or with the DMAC or the DTC.         *)
(***************************************************************************)
EXTENDS DataTransfer

CONSTANTS
  Length,       \* bytes in the message, and bytes expected
  InstrCycles,  \* how long an instruction and a unit moved can take
  MaxSince,     \* bound: cycles since the last update count up to this
  MaxIrqs,      \* bound: external interrupts
  Programs,     \* the firmware programs to consider
  Split         \* those whose SSRx(i) &= ~flag is compiled to two accesses

ASSUME CpuAssumption ==
  /\ Length \in Nat \ {0} /\ MaxSince \in Nat /\ MaxIrqs \in Nat
  /\ InstrCycles \in SUBSET (Nat \ {0})
  /\ {TDR, RDR} \subseteq Int \ 1 .. (2 + Length) * Length /\ TDR # RDR

VARIABLES
  sci, dev, req, mem, dma, dtc,   \* the world
  irq,      \* irqEnable and irqStatus, of IRQ0
  phase,    \* what executeCycles() does next
  masked,   \* the I bit of ccr
  handler,  \* the interrupt being handled and what its handler does next
  fw,       \* the firmware: program, next instruction, SSR as read, ...
  raised    \* external interrupts so far

world == <<sci, dev, req, mem, dma, dtc>>
vars == <<world, irq, phase, masked, handler, fw, raised>>

World == [sci |-> sci, dev |-> dev, req |-> req, mem |-> mem, dma |-> dma,
          dtc |-> dtc]

Become(w) == /\ sci' = w.sci
             /\ dev' = w.dev
             /\ req' = w.req
             /\ mem' = w.mem
             /\ dma' = w.dma
             /\ dtc' = w.dtc

-----------------------------------------------------------------------------
(* The loop. *)

TransferByDma == /\ phase = "dma"
                 /\ Become(transfer(World))
                 /\ phase' = "requests"
                 /\ UNCHANGED <<irq, masked, handler, fw, raised>>

NoHandler == [source |-> "none", pc |-> "none"]

Lowest(S) == CHOOSE s \in S : \A t \in S : Number[s] <= Number[t]

(* serviceInterrupt(): requests are not withdrawn when their enable is     *)
(* cleared, and the number decides. *)
serviceInterrupt(w) ==
  IF w.req = {} \/ masked
  THEN Become(w) /\ UNCHANGED <<masked, handler>>
  ELSE LET s == Lowest(w.req)
       IN  /\ Become([w EXCEPT !.req = @ \ {s}])
           /\ masked' = TRUE
           /\ handler' = [source |-> s, pc |-> "enter"]

InterruptUnless(r) == IF r.triggered
                      THEN Become(r.w) /\ UNCHANGED <<masked, handler>>
                      ELSE serviceInterrupt(r.w)

ServeRequests == /\ phase = "requests"
                 /\ InterruptUnless(updateDTC(World))
                 /\ phase' = "instruction"
                 /\ UNCHANGED <<irq, fw, raised>>

(* What the instruction and the transfers took passes for the port.        *)
Elapsed(w, t) ==
  [w EXCEPT !.sci.since = IF @ + t < MaxSince THEN @ + t ELSE MaxSince]

UpdatePeripherals == /\ phase = "update"
                     /\ \E t \in InstrCycles :
                          Become(updateForInterrupts(Elapsed(World, t)))
                     /\ phase' = "dma"
                     /\ UNCHANGED <<irq, masked, handler, fw, raised>>

(* Between two calls of executeCycles(). *)
externalInterrupt ==
  /\ phase = "dma"
  /\ raised < MaxIrqs
  /\ raised' = raised + 1
  /\ irq' = [irq EXCEPT !.status = TRUE]
  /\ req' = IF irq.enable THEN req \cup {"IRQ0"} ELSE req
  /\ UNCHANGED <<sci, dev, mem, dma, dtc, phase, masked, handler, fw>>

(* The device has another byte, without having been asked.                 *)
DeviceInput ==
  /\ phase = "dma"
  /\ ~dev.answers /\ dev.made < Length
  /\ dev' = [dev EXCEPT !.out = Append(@, dev.made + 1), !.made = @ + 1]
  /\ UNCHANGED <<sci, req, mem, dma, dtc, irq, phase, masked, handler, fw,
                 raised>>

-----------------------------------------------------------------------------
(* Instructions.  An access of the processor to the port updates it first. *)

Accessed == update(World)

Instruct(from, f, w) == /\ phase = "instruction" /\ handler.source = "none"
                        /\ fw.pc = from
                        /\ phase' = "update"
                        /\ fw' = f
                        /\ Become(w)
                        /\ UNCHANGED <<masked, handler, raised>>

Go(to) == [fw EXCEPT !.pc = to]

Main(from, to, w) == Instruct(from, Go(to), w) /\ UNCHANGED irq

(* if(SSRx(i) & flag) *)
Branch(flag, from, set, clear) ==
  Main(from, IF flag \in Accessed.sci.ssr THEN set ELSE clear, Accessed)

(* while(!(SSRx(i) & flag)) {} *)
WaitFor(flag, from, to) == Branch(flag, from, to, from)

(* SSRx(i) &= ~flag is one BCLR, or a load, here, and a store.             *)
Splits == fw.program \in Split

ReadSSR(from, to) ==
  /\ Instruct(from, [Go(to) EXCEPT !.tmp = Accessed.sci.ssr], Accessed)
  /\ UNCHANGED irq

Cleared(flag) ==
  SetSSR(Accessed, (IF Splits THEN fw.tmp ELSE Accessed.sci.ssr) \ {flag})

-----------------------------------------------------------------------------
(* The programs. *)

Transmits == {"transfer", "write", "dma", "dmaAsync", "dtcTx", "dtcBoth"}
Receives == {"transfer", "read", "readSync", "dma", "dmaAsync", "dtcRx",
             "dtcLog", "dtcBoth"}
Synchronous == {"transfer", "readSync", "dma"}
Polls == {"transfer", "write", "read", "readSync"}

Directions == (IF fw.program \in Transmits THEN {"TE"} ELSE {}) \cup
              (IF fw.program \in Receives THEN {"RE"} ELSE {})
Enables == (IF fw.program \in Transmits THEN {"TIE"} ELSE {}) \cup
           (IF fw.program \in Receives THEN {"RIE"} ELSE {})

(* Where the next byte starts, for a program that polls. *)
FirstStep == IF fw.program \in {"transfer", "write"} THEN "tdre" ELSE "orer"

WriteIERQuietly(val) == World

WriteIER(val) ==
  [World EXCEPT !.req = IF val /\ irq.status THEN @ \cup {"IRQ0"} ELSE @]

(* ANDC: a reset leaves the I bit set. *)
Unmask == /\ phase = "instruction" /\ handler.source = "none"
          /\ fw.pc = "unmask"
          /\ phase' = "update"
          /\ fw' = Go(IF fw.program \in Polls THEN "enable" ELSE "setup")
          /\ masked' = FALSE
          /\ UNCHANGED <<world, irq, handler, raised>>

Start ==
  \/ /\ Instruct("ier", Go("unmask"), WriteIER(TRUE))
     /\ irq' = [irq EXCEPT !.enable = TRUE]
  \/ Unmask
  \/ Main("enable", FirstStep, SetSCR(Accessed, Directions))

CountByte(from, w) ==
  /\ Instruct(from, [Go(IF fw.n + 1 = Length THEN "done" ELSE FirstStep)
                       EXCEPT !.n = @ + 1], w)
  /\ UNCHANGED irq

(* sciWrite<i>(), and the first half of sciTransfer<i>() *)
sciWrite ==
  \/ WaitFor("TDRE", "tdre", "data")
  \/ Main("data", IF Splits THEN "txget" ELSE "txput",
          SetTDR(Accessed, fw.n + 1))
  \/ ReadSSR("txget", "txput")
  \/ Main("txput", IF fw.program = "transfer" THEN "rdrf" ELSE "sent",
          Cleared("TDRE"))
  \/ "TDRE" \in Accessed.sci.ssr /\ CountByte("sent", Accessed)
  \/ "TDRE" \notin Accessed.sci.ssr /\ Main("sent", "sent", Accessed)

(* sciRead<i>(), and the second half of sciTransfer<i>() *)
sciRead ==
  \/ Branch("ORER", "orer", IF Splits THEN "orget" ELSE "orput", "rdrf")
  \/ ReadSSR("orget", "orput")
  \/ Main("orput", "rdrf", Cleared("ORER"))
  \/ WaitFor("RDRF", "rdrf", "fetch")
  \/ /\ Instruct("fetch", [Go(IF Splits THEN "rxget" ELSE "rxput")
                             EXCEPT !.got = Append(@, Accessed.sci.rdr)],
                 Accessed)
     /\ UNCHANGED irq
  \/ ReadSSR("rxget", "rxput")
  \/ CountByte("rxput", Cleared("RDRF"))

(* RAM: the message, what is received, and the rows of dtcLog.             *)
Received1 == Length + 1
Log == 2 * Length
Ram == 1 .. Log + Length * Length

(* Not in the repository: firmware that has the message moved for it, and  *)
(* sees the last byte leave TDR, as sciWrite does.  dtcLog also has all     *)
(* that was received copied to a row of its log before each byte. *)
DmaSetup ==
  LET channel == [NoChannel EXCEPT !.dte = TRUE, !.dta = TRUE, !.dtie = TRUE,
                                   !.count = Length]
  IN  [World EXCEPT
         !.dma.A = [channel EXCEPT !.trigger = "TXI", !.mem = 1, !.io = TDR],
         !.dma.B = [channel EXCEPT !.trigger = "RXI", !.toMem = TRUE,
                                   !.mem = Received1, !.io = RDR]]

Descriptor(src, srcStep, dst, dstStep) ==
  [mode |-> "normal", src |-> src, srcStep |-> srcStep, dst |-> dst,
   dstStep |-> dstStep, hi |-> 0, lo |-> Length, countB |-> 0,
   chain |-> FALSE, disel |-> FALSE, srcBlock |-> FALSE]

DtcSetup ==
  [World EXCEPT
     !.dtc.enabled = (IF fw.program \in Transmits THEN {"TXI"} ELSE {}) \cup
                     (IF fw.program \in Receives THEN {"RXI"} ELSE {}),
     !.dtc.vec = [TXI |-> 1, RXI |-> IF fw.program = "dtcLog" THEN 2 ELSE 3],
     !.dtc.descs = <<Descriptor(1, 1, TDR, 0),
                     [Descriptor(Received1, 1, Log + 1, 1) EXCEPT
                        !.mode = "block", !.hi = Length, !.countB = Length,
                        !.chain = TRUE, !.srcBlock = TRUE],
                     Descriptor(RDR, 0, Received1, 1)>>]

HaveMoved ==
  \/ Main("setup", "go",
          IF fw.program \in {"dma", "dmaAsync"} THEN DmaSetup ELSE DtcSetup)
  \/ Main("go", "wait", SetSCR(Accessed, Directions \cup Enables))
  \/ /\ fw.ended = Directions
     /\ Main("wait", IF "TE" \in Directions THEN "drain" ELSE "done", World)
  \/ fw.ended # Directions /\ Main("wait", "wait", World)
  \/ WaitFor("TDRE", "drain", "done")

Finished == Main("done", "done", World)

-----------------------------------------------------------------------------
(* The handlers, which end with rte.  When the DTC has moved the last byte *)
(* its request comes here, with the flag still set. *)

Handle(from, to, f, w) ==
  /\ phase = "instruction" /\ handler.pc = from
  /\ phase' = "update"
  /\ handler' = [handler EXCEPT !.pc = to]
  /\ fw' = f
  /\ Become(w)
  /\ UNCHANGED <<masked, raised>>

Ended(d) == [fw EXCEPT !.ended = @ \cup d]
Direction == CASE handler.source \in {"TXI", "DEND1A"} -> {"TE"}
               [] handler.source \in {"RXI", "DEND1B"} -> {"RE"}
Flagged == IF Direction = {"TE"} THEN "TDRE" ELSE "RDRF"
Stopped == sci.scr \ IF Direction = {"TE"} THEN {"TIE"} ELSE {"RIE"}

IsDtc == fw.program \in {"dtcTx", "dtcRx", "dtcLog", "dtcBoth"}

HandleIrq == /\ handler.source = "IRQ0"
             /\ Handle("enter", "rte", fw, World)
             /\ irq' = [irq EXCEPT !.status = FALSE]

(* First the enable is cleared, then, after the DTC, the flag. *)
HandleEnd ==
  /\ handler.source \in {"TXI", "RXI", "DEND1A", "DEND1B"}
  /\ \/ Handle("enter", IF IsDtc THEN "get" ELSE "rte",
               IF handler.source \in {"DEND1A", "DEND1B"}
               THEN Ended(Direction) ELSE fw,
               SetSCR(Accessed, Stopped))
     \/ Handle("get", "put", [fw EXCEPT !.held = Accessed.sci.ssr], Accessed)
     \/ Handle("put", "rte", Ended(Direction),
               SetSSR(Accessed, fw.held \ {Flagged}))
  /\ UNCHANGED irq

Return == /\ phase = "instruction" /\ handler.pc = "rte"
          /\ phase' = "update"
          /\ handler' = NoHandler
          /\ masked' = FALSE
          /\ UNCHANGED <<world, irq, fw, raised>>

Instruction == \/ Start \/ sciWrite \/ sciRead \/ HaveMoved \/ Finished
               \/ HandleIrq \/ HandleEnd \/ Return

-----------------------------------------------------------------------------
Init ==
  /\ fw \in [program : Programs, pc : {"ier"}, n : {0}, tmp : {{}},
             got : {<< >>}, ended : {{}}, held : {{}}]
  /\ sci = IdleSci(fw.program \in Synchronous)
  /\ dev = [wrote |-> << >>, out |-> << >>, made |-> 0,
            answers |-> fw.program \in Synchronous]
  /\ req = {}
  /\ mem = [a \in Ram |-> IF a <= Length THEN a ELSE 0]
  /\ dma = [A |-> NoChannel, B |-> NoChannel]
  /\ dtc = [enabled |-> {}, vec |-> << >>, descs |-> << >>]
  /\ irq = [enable |-> FALSE, status |-> FALSE]
  /\ phase = "dma"
  /\ masked = TRUE
  /\ handler = NoHandler
  /\ raised = 0

Loop == TransferByDma \/ ServeRequests \/ Instruction \/ UpdatePeripherals

Next == Loop \/ externalInterrupt \/ DeviceInput

(* The main loop calls executeCycles() for ever, and one step of its loop  *)
(* or the other can always be taken, so this is weak fairness.             *)
Spec == Init /\ [][Next]_vars /\ []<><<Loop>>_vars

-----------------------------------------------------------------------------
(* The device is sent the bytes of the message in order and each once,     *)
(* whether they are polled out or moved by the DMAC or the DTC, and        *)
(* whenever the flags are read back, interrupts come in or time passes;    *)
(* and Junk by programs that only receive, and by no other. *)
SentInOrder == dev.wrote = [i \in 1 .. Len(dev.wrote) |->
                              IF fw.program \in Transmits THEN i ELSE Junk]

(* The bytes received so far, wherever they were moved to. *)
Arrived == IF fw.program \in Polls THEN fw.got
           ELSE SelectSeq([i \in 1 .. Length |-> mem[Length + i]],
                          LAMBDA b : b # 0)

Row(k) == [i \in 1 .. Length |-> mem[Log + (k - 1) * Length + i]]
LogKept ==
  \A k, i \in 1 .. Length :
    Row(k)[i] = IF fw.program = "dtcLog" /\ i < k /\ k <= Len(Arrived)
                THEN i ELSE 0

(* What is fetched are the device's bytes, in order and each once, and no  *)
(* byte it gave is missing but the one in RDR.  A row of the log has what   *)
(* had been received when it was written. *)
ReceivedInOrder ==
  /\ LogKept
  /\ Arrived = [i \in 1 .. Len(Arrived) |-> i]
  /\ fw.program \in Receives =>
       dev.made - Len(dev.out) <= Len(Arrived) + 1

(* calcNextUpdate() predicts no event too late: with interrupts enabled,   *)
(* after each instruction nothing is overdue that an interrupt waits for.  *)
UpdatedInTime ==
  phase = "dma" /\ sci.scr \cap InterruptEnables # {} =>
    /\ sci.tx > 0 => sci.since < sci.tx
    /\ sci.rx > 0 => sci.since < sci.rx
    /\ sci.delayed # {} => sci.since = 0

(* "DMAC/DTC can be activated by interrupts, so do these right before      *)
(* serviceInterrupt": no request goes to the processor while the DMAC or   *)
(* the DTC is set up to take it. *)
TransfersFirst ==
  [][handler'.pc = "enter" /\ handler.pc # "enter" =>
       LET s == handler'.source
       IN  /\ s \notin dtc'.enabled
           /\ \A c \in SubChannels :
                dma'[c].dte /\ dma'[c].dta => dma'[c].trigger # s]_vars

(* The transfer ends, by polling or by the interrupt that announces it,    *)
(* and the device has the whole message. *)
Completes == (fw.program \in Receives => dev.answers \/ dev.made = Length) ~>
               /\ fw.pc = "done"
               /\ fw.program \in Transmits => Len(dev.wrote) = Length
               /\ fw.program \in Receives => Len(Arrived) = Length

(* An external interrupt is served, also one that came before it was       *)
(* enabled, and its flag is cleared by nothing else. *)
IrqServed == irq.status ~> handler.source = "IRQ0"
=============================================================================
