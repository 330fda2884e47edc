--------------------------- MODULE TransferSystem ---------------------------
(***************************************************************************)
(* A host program sends a file to a device.  The device is firmware that   *)
(* is not in the repository; what is said of it here is what the programs  *)
(* expect: a console that answers commands, a boot loader that announces   *)
(* itself, and chunks asked for by number, one after the other, checked    *)
(* and, over the serial line, asked for again if they do not come.         *)
(*                                                                         *)
(* The serial line may spoil a chunk, a line or the number in it; answers  *)
(* may come after a read has given up; a device may ask again although the *)
(* answer is on its way, print something else, send an item twice, or be   *)
(* switched off.  Each of these counts as a fault.                         *)
(***************************************************************************)
EXTENDS Sercon, Usbcon

CONSTANTS Programs,   \* the host programs
          Sizes,      \* of the file
          AskedTwice, \* numbers of the chunks asked for twice over USB
          MaxFaults   \* bound: faults

LineChunks == 65536   \* chunk numbers on the serial line are two bytes

ASSUME TransferAssumption ==
  /\ Programs \subseteq {"serconSend", "serconBoot", "BootSerial", "usbconSend", "usbconBoot"}
  /\ \A s \in Sizes : s \in Nat /\ s <= LineChunks * ChunkSize
  /\ AskedTwice \subseteq Nat

VARIABLES dev,        \* the device
          faults      \* faults so far

vars == <<program, size, host, up, down, dev, faults>>

Serial == {"serconSend", "serconBoot", "BootSerial"}

NewDevice(mode) ==
  [mode |-> mode, got |-> << >>, want |-> 0, total |-> 0, asked |-> FALSE,
   pending |-> -1, commands |-> 0, outputs |-> 0, told |-> FALSE]

(* A device to boot has just been switched on, or its console is running.  *)
Modes(p) == CASE p = "serconSend" -> {"console", "off"}
              [] p = "serconBoot" -> {"console", "on", "off"}
              [] p = "BootSerial" -> {"on"}
              [] OTHER -> {"usb"}

Init ==
  /\ program \in Programs
  /\ size \in Sizes
  /\ host = Starting
  /\ up = << >>
  /\ down = IF program = "BootSerial" THEN BootCommand ELSE << >>
  /\ \E mode \in Modes(program) : dev = NewDevice(mode)
  /\ faults = 0

-----------------------------------------------------------------------------
(* The device. *)
Printed(messages) == up' = up \o messages
Becomes(mode) == dev' = [dev EXCEPT !.mode = mode]
Hears(type) == down # << >> /\ Head(down).type = type /\ down' = Tail(down)
HostUnchanged == UNCHANGED <<program, size, host, faults>>

Two == Plain("two")
Receiving == {"loading", "receiving", "usbLoading", "usbReceiving"}

(* BootSerial's buffer is not read before the loader's message. *)
Listens == program = "BootSerial" => host.prepared

ConsoleEmpty ==
  dev.mode = "console" /\ Hears("empty") /\ Printed(<<Two>>) /\ Becomes("prompting")

Prompt ==
  /\ dev.mode = "prompting"
  /\ Printed(<<Plain("ready")>>) /\ Becomes("console")
  /\ UNCHANGED down

ConsoleReboot ==
  dev.mode = "console" /\ Hears("reboot") /\ Printed(<<Two>>) /\ Becomes("on")

ConsoleRcv ==
  /\ dev.mode = "console" /\ Hears("rcv")
  /\ Printed(<<Two>>)
  /\ dev' = [dev EXCEPT !.mode = "receiving", !.total = Head(down).n]

Announce == dev.mode = "on" /\ Printed(<<Plain("prepare")>>) /\ Becomes("loader")
            /\ UNCHANGED down

LoaderRcv ==
  /\ dev.mode = "loader" /\ Listens /\ Hears("rcv")
  /\ dev' = [dev EXCEPT !.mode = "loading", !.total = Head(down).n]
  /\ UNCHANGED up

(* What does not belong to what the device is doing is dropped. *)
Expected(mode) == CASE mode \in {"console", "prompting"} -> {"empty", "reboot", "rcv"}
                    [] mode = "loader" -> {"rcv"}
                    [] mode \in Receiving -> {"chunk"}
                    [] OTHER -> {}

Ignore ==
  /\ program \in Serial /\ Listens /\ down # << >>
  /\ Head(down).type \notin Expected(dev.mode)
  /\ down' = Tail(down)
  /\ UNCHANGED <<up, dev>>

AskChunk ==
  /\ dev.mode \in {"loading", "receiving"} /\ ~dev.asked
  /\ Printed(<<Message("send", dev.want, << >>)>>)
  /\ dev' = [dev EXCEPT !.asked = TRUE]
  /\ UNCHANGED down

Stored(data) ==
  [dev EXCEPT !.got = @ \o data, !.want = @ + 1, !.asked = FALSE]

Complete(d) == Len(d.got) >= d.total

(* The number is checked, and the sum (see SpoilChunk). *)
TakeChunk ==
  /\ dev.mode \in {"loading", "receiving"} /\ Hears("chunk")
  /\ IF Head(down).n # dev.want THEN UNCHANGED <<dev, up>>
     ELSE \E d \in {Stored(Head(down).data)} :
            IF Complete(d)
            THEN dev' = [d EXCEPT !.mode = IF dev.mode = "loading" THEN "booted" ELSE "console"]
                 /\ Printed(<<Plain(IF dev.mode = "loading" THEN "done" ELSE "ready")>>)
            ELSE dev' = d /\ UNCHANGED up

(* Nothing is on its way any more: ask again. *)
AskAgain ==
  /\ dev.mode \in {"loading", "receiving"} /\ dev.asked
  /\ up = << >> /\ down = << >>
  /\ dev' = [dev EXCEPT !.asked = FALSE]
  /\ UNCHANGED <<up, down>>

SerialDevice ==
  HostUnchanged /\ (ConsoleEmpty \/ Prompt \/ ConsoleReboot \/ ConsoleRcv \/ Announce \/ LoaderRcv
                    \/ Ignore \/ AskChunk \/ TakeChunk \/ AskAgain)

-----------------------------------------------------------------------------
(* The boot loader on USB. *)
Nothing(messages) == {messages, <<Plain("nothing")>> \o messages}

UsbHello ==
  /\ dev.mode = "usb" /\ Hears("hello")
  /\ \E reply \in Nothing(<<Plain("info")>>) : Printed(reply)
  /\ UNCHANGED dev

UsbParams ==
  /\ dev.mode = "usb" /\ Hears("params")
  /\ dev' = [dev EXCEPT !.mode = "usbLoading", !.total = Head(down).n]
  /\ \E reply \in Nothing(<<Message("request", 0, << >>)>>) : Printed(reply)

UsbBootChunk ==
  /\ dev.mode = "usbLoading" /\ Hears("chunk")
  /\ \E d \in {Stored(Head(down).data)} :
       \E reply \in Nothing(IF Complete(d) THEN <<Plain("finished")>>
                            ELSE <<Message("request", d.want, << >>)>>) :
         dev' = d /\ Printed(reply)

(* CyOS: each packet of data is answered with a request for the next one,  *)
(* output is sent when it is there and has been asked for, and what is     *)
(* not there yet may be answered with a request as well. *)
Next2 == Message("request2", dev.commands, << >>)

UsbAsk ==
  /\ dev.mode \in {"usb", "usbReceiving"}
  /\ Hears("ask")
  /\ dev' = [dev EXCEPT !.pending = Head(down).n, !.told = FALSE]
  /\ UNCHANGED up

UsbInit == dev.mode = "usb" /\ Hears("init") /\ UNCHANGED <<dev, up>>

(* A command prints one or two items; it may be a while until they come. *)
UsbCommand ==
  /\ dev.mode \in {"usb", "usbReceiving"} /\ Hears("command")
  /\ \E reply \in {<< >>, <<Next2>>} : Printed(reply)
  /\ IF Head(down).n # dev.commands THEN UNCHANGED dev
     ELSE \E n \in 1..2 :
            dev' = [dev EXCEPT !.mode = "usbReceiving", !.total = size,
                               !.commands = @ + 1, !.outputs = n]

(* The prompt is the item after the file has come. *)
Item ==
  Message(IF dev.mode = "usb" /\ dev.pending = dev.outputs - 1 THEN "prompt" ELSE "output",
          dev.pending, << >>)

UsbOutput ==
  /\ dev.mode \in {"usb", "usbReceiving"}
  /\ dev.pending \in 0..dev.outputs - 1
  /\ Printed(<<Item>>)
  /\ dev' = [dev EXCEPT !.pending = -1]
  /\ UNCHANGED down

UsbNotReady ==
  /\ dev.mode = "usbReceiving" /\ dev.pending >= dev.outputs /\ ~dev.told
  /\ Printed(<<Next2>>)
  /\ dev' = [dev EXCEPT !.told = TRUE]
  /\ UNCHANGED down

(* The first request is repeated until the file comes, as the program does *)
(* not look at it before the command is done with. *)
UsbAskChunk ==
  /\ dev.mode = "usbReceiving"
  /\ ~dev.asked \/ (dev.want = 0 /\ up = << >> /\ down = << >>)
  /\ Printed(<<Message("request", dev.want, << >>)>>)
  /\ dev' = [dev EXCEPT !.asked = TRUE]
  /\ UNCHANGED down

(* The number in the packet is a byte: the device knows a chunk by that.   *)
Lacked(chunk) == chunk.n = dev.want % IndexWrap

UsbChunk ==
  /\ dev.mode = "usbReceiving" /\ Hears("chunk")
  /\ dev' = IF Lacked(Head(down)) THEN Stored(Head(down).data) ELSE dev
  /\ UNCHANGED up

UsbEnd ==
  /\ dev.mode = "usbReceiving" /\ Hears("end")
  /\ Printed(<<Message("request", 0, << >>)>>)
  /\ dev' = [dev EXCEPT !.outputs = @ + 1, !.mode = "usb"]

UsbDevice ==
  HostUnchanged /\ (UsbHello \/ UsbParams \/ UsbBootChunk \/ UsbAsk \/ UsbInit
                    \/ UsbCommand \/ UsbOutput \/ UsbNotReady \/ UsbAskChunk
                    \/ UsbChunk \/ UsbEnd)

-----------------------------------------------------------------------------
(* Faults. *)
Fault == faults < MaxFaults /\ faults' = faults + 1 /\ UNCHANGED <<program, size>>

Line1 == program \in {"serconSend", "serconBoot"}

(* Its sum is wrong, so the device drops it. *)
SpoilChunk ==
  /\ Line1 /\ down # << >> /\ Head(down).type = "chunk"
  /\ down' = Tail(down)
  /\ UNCHANGED <<host, up, dev>>

SpoilLine ==
  /\ Line1 /\ up # << >>
  /\ Head(up).type = "send"
  /\ up' \in {<<m>> \o Tail(up) : m \in {Other} \cup
                {Message("send", n, << >>) : n \in {dev.want + 1, dev.want - 1}}}
  /\ UNCHANGED <<host, down, dev>>

AskEarly ==
  /\ Line1 /\ dev.mode \in {"loading", "receiving"} /\ dev.asked
  /\ dev' = [dev EXCEPT !.asked = FALSE]
  /\ UNCHANGED <<host, up, down>>

GiveUpEarly == Line1 /\ ShortTimeout /\ UNCHANGED dev

Chatter == Line1 /\ up' = Append(up, Other) /\ UNCHANGED <<host, down, dev>>

SwitchOff == Line1 /\ Becomes("off") /\ UNCHANGED <<host, up, down>>

ItemTwice ==
  /\ program = "usbconSend" /\ dev.pending \in 0..dev.outputs - 1
  /\ Printed(<<Item>>)
  /\ UNCHANGED <<host, down, dev>>

(* The program can only send the first chunk again: see Position.          *)
AskTwice ==
  /\ program = "usbconSend" /\ dev.mode = "usbReceiving" /\ dev.want \in AskedTwice
  /\ Printed(<<Message("request", dev.want, << >>)>>)
  /\ UNCHANGED <<host, down, dev>>

Faults ==
  Fault /\ (SpoilChunk \/ SpoilLine \/ AskEarly \/ GiveUpEarly \/ Chatter \/ SwitchOff
            \/ ItemTwice \/ AskTwice)

-----------------------------------------------------------------------------
(* A read of ten seconds gives up only if the device has nothing to say.   *)
(* One of a second gives up on a device that has been switched on and has  *)
(* yet to announce itself. *)
Silent ==
  /\ up \in Seq({Two}) /\ down = << >>
  /\ dev.mode \notin {"on", "prompting", "loading", "receiving"}

HostOfDevice == SerconStep /\ program \in {"serconSend", "serconBoot"}

HostStep ==
  /\ HostOfDevice \/ BootLine \/ UsbconStep
  /\ UNCHANGED <<program, size, dev, faults>>

StartingUp == program = "serconBoot" /\ dev.mode = "on" /\ ConsoleAbsent

Timeout ==
  /\ Line1
  /\ (Silent /\ (LongTimeout \/ ShortTimeout)) \/ StartingUp
  /\ UNCHANGED <<program, size, dev, faults>>

Next == HostStep \/ Timeout \/ SerialDevice \/ UsbDevice \/ Faults

Fairness ==
  /\ WF_vars(HostStep) /\ WF_vars(Timeout) /\ WF_vars(SerialDevice)
  /\ WF_vars(HostUnchanged /\ UsbOutput)
  /\ WF_vars(UsbDevice)

Spec == Init /\ [][Next]_vars /\ Fairness

-----------------------------------------------------------------------------
(* What the device has is the beginning of the file, in order, whatever    *)
(* was asked for twice, answered twice or spoiled: each byte is where it   *)
(* belongs. *)
Wanted == IF program = "usbconBoot" THEN Encoded ELSE File

FileIntact == dev.got = SubSeq(Wanted, 1, Len(dev.got))

(* A program that says the file was sent is right: the device has all of   *)
(* it. *)
SuccessIsTrue == At("ok") => dev.got = Wanted

(* Every program comes to an end (BootSerial: the device is booted), and   *)
(* successfully if nothing went wrong and there is a device.  The one      *)
(* exception is sercon -b with a device that has just been switched on and *)
(* announces itself while the program still asks for a console: the first  *)
(* byte of the line is taken for the console's answer, and the loader for  *)
(* something else (sercon.c:412).  That of a device the program rebooted   *)
(* itself is not missed.                                                   *)
Succeeded == IF program = "BootSerial" THEN dev.mode = "booted" ELSE At("ok")

FirstByteLost == At("waitLoad") /\ up # << >> /\ Head(up) = Other

TransferEnds ==
  \/ <>(Succeeded \/ (At("failed") /\ (faults > 0 \/ dev.mode = "off")))
  \/ dev.mode = "on" /\ <>FirstByteLost /\ <>At("failed")
=============================================================================
