------------------------------- MODULE Usbcon -------------------------------
(***************************************************************************)
(* tools/usbcon.c: booting a device with a file (-b), over the boot        *)
(* loader's own packets, and sending a file to a running device (-s), over *)
(* the packets of CyOS.  Transfers are reliable and have no timeout.       *)
(***************************************************************************)
EXTENDS FileHost

CONSTANTS IndexWrap   \* the numbers in a CyOS packet are bytes (256)

ASSUME WrapAssumption == IndexWrap \in Nat \ {0}

HeaderSize == 12

Got(type) == up # << >> /\ Head(up).type = type

-----------------------------------------------------------------------------
(* bootDevice.  A plain image is encoded; what is sent then begins with a  *)
(* header.  encodeBoot gives every byte another value by its place: here   *)
(* its negation. *)
Header == [i \in 1..HeaderSize |-> 0]
Encoded == Header \o [i \in 1..size |-> -File[i]]
ImageSize == HeaderSize + size

BootChunkSize == 8 * ChunkSize   \* 4096

BootChunk(k) ==
  Message("chunk", k,
          SubSeq(Encoded, k * BootChunkSize + 1,
                 Smaller((k + 1) * BootChunkSize, ImageSize)))

BootHello ==
  /\ program = "usbconBoot" /\ At("start")
  /\ Say(Plain("hello"))
  /\ Goto("helloReply")
  /\ UNCHANGED up

(* Reads of nothing are repeated. *)
BootNothing == Got("nothing") /\ up' = Tail(up) /\ UNCHANGED <<host, down>>

BootParams ==
  /\ At("helloReply") /\ Got("info")
  /\ up' = Tail(up)
  /\ Say(Message("params", ImageSize, << >>))
  /\ Goto("bootLoop")

BootSend ==
  /\ At("bootLoop") /\ Got("request")
  /\ up' = Tail(up)
  /\ Say(BootChunk(Head(up).n))
  /\ UNCHANGED host

BootDone ==
  /\ At("bootLoop") /\ Got("finished")
  /\ up' = Tail(up)
  /\ Goto("ok")
  /\ UNCHANGED down

-----------------------------------------------------------------------------
(* CyOS packets: data, and requests for the item of a number.  IsData is   *)
(* a = 0x11. *)
Data == {"output", "prompt"}
GotData == up # << >> /\ Head(up).type \in Data
GotOther == up # << >> /\ Head(up).type \notin Data

Ask(n) == Message("ask", n, << >>)
Command == Message("command", host.sendNo, << >>)

(* initCyOSConsole, and the first request of sendCyOSCommand. *)
OpenConsole ==
  /\ program = "usbconSend" /\ At("start")
  /\ down' = down \o <<Plain("init"), Plain("init"), Ask(host.recvNo), Command>>
  /\ host' = [host EXCEPT !.pc = "command", !.recvNo = @ + 1]
  /\ UNCHANGED up

(* Anything but data: the command is sent again. *)
CommandAgain ==
  /\ At("command") /\ GotOther
  /\ up' = Tail(up)
  /\ Say(Command)
  /\ UNCHANGED host

CommandAnswered ==
  /\ At("command") /\ GotData
  /\ up' = Tail(up)
  /\ Say(Ask(host.recvNo))
  /\ host' = [host EXCEPT !.pc = "more", !.sendNo = @ + 1]

Awaited == GotData /\ Head(up).n = host.recvNo

NextOutput ==
  /\ At("more") /\ Awaited
  /\ up' = Tail(up)
  /\ Say(Ask(host.recvNo + 1))
  /\ host' = [host EXCEPT !.recvNo = @ + 1]

WrongOutput ==
  /\ At("more") /\ GotData /\ ~Awaited
  /\ up' = Tail(up)
  /\ Say(Ask(host.recvNo))
  /\ UNCHANGED host

(* "No more data": whatever it was, it is not looked at again. *)
NoOutput ==
  /\ At("more") /\ GotOther
  /\ up' = Tail(up)
  /\ host' = [host EXCEPT !.pc = "serve", !.recvNo = @ + 1]
  /\ UNCHANGED down

-----------------------------------------------------------------------------
(* sendFile's loop. *)
Offset == (Head(up).n % IndexWrap) * ChunkSize

(* A mutant: the last chunk is taken for the end. *)
OneShort == Offset + ChunkSize >= size

PastEnd == Offset >= size

(* A mutant: the file is only read on. *)
NoRewind == host.pos

(* fseek(f, SEEK_SET, offset): the offset is taken for the origin, which   *)
(* is valid for 0 only, where it means the start of the file. *)
Position == IF Offset = 0 THEN 0 ELSE host.pos

ServeChunk ==
  /\ At("serve") /\ Got("request")
  /\ ~(host.done /\ Offset = 0) /\ ~PastEnd
  /\ up' = Tail(up)
  /\ Say(Message("chunk", Head(up).n % IndexWrap, Bytes(Position, ChunkSize)))
  /\ host' = [host EXCEPT !.pos = Smaller(Position + ChunkSize, size)]

ServeEnd ==
  /\ At("serve") /\ Got("request")
  /\ ~(host.done /\ Offset = 0) /\ PastEnd
  /\ up' = Tail(up)
  /\ Say(Plain("end"))
  /\ host' = [host EXCEPT !.done = TRUE]

ServeDone ==
  /\ At("serve") /\ Got("request") /\ host.done /\ Offset = 0
  /\ up' = Tail(up)
  /\ UNCHANGED <<host, down>>

ServeOutput ==
  /\ At("serve") /\ Got("output")
  /\ up' = Tail(up)
  /\ Say(Ask(Head(up).n + 1))
  /\ UNCHANGED host

ServePrompt ==
  /\ At("serve") /\ Got("prompt")
  /\ up' = Tail(up)
  /\ Goto("ok")
  /\ UNCHANGED down

ServeOther ==
  /\ At("serve") /\ GotOther /\ ~Got("request")
  /\ up' = Tail(up)
  /\ UNCHANGED <<host, down>>

-----------------------------------------------------------------------------
UsbconStep ==
  \/ BootHello \/ BootNothing \/ BootParams \/ BootSend \/ BootDone
  \/ OpenConsole \/ CommandAgain \/ CommandAnswered
  \/ NextOutput \/ WrongOutput \/ NoOutput
  \/ ServeChunk \/ ServeEnd \/ ServeDone \/ ServeOutput \/ ServePrompt \/ ServeOther
=============================================================================
