------------------------------- MODULE Sercon -------------------------------
(***************************************************************************)
(* tools/sercon.c, sending a file to a running device (-s) or booting a    *)
(* device with one (-b), and BootSerial, the serial port of the emulator   *)
(* with a boot file.                                                       *)
(*                                                                         *)
(* The device's console answers a command with the byte 2 and then prints  *)
(* lines.  up holds the byte and the lines.  A byte that is not read when  *)
(* it is expected is found in front of the next line; a line of which a    *)
(* byte was taken for the answer is read without it.                       *)
(***************************************************************************)
EXTENDS FileHost

Other == Plain("other")          \* a line the program does not know

IsByte(m) == m.type = "two"

HasLine == \E i \in 1..Len(up) : ~IsByte(up[i])
LineEnd == CHOOSE i \in 1..Len(up) : ~IsByte(up[i]) /\ \A j \in 1..i - 1 : IsByte(up[j])

(* serialReadLine, when there is a line; and when there is none for ten    *)
(* seconds, with what there is of one. *)
Line == IF LineEnd = 1 THEN up[1] ELSE Other
ReadLine == HasLine /\ up' = SubSeq(up, LineEnd + 1, Len(up))
NoLine == ~HasLine /\ up = << >> /\ UNCHANGED up
PartOfLine == ~HasLine /\ up # << >> /\ up' = << >>

(* One byte: the answer, or the first of a line. *)
ReadTwo == up # << >> /\ IsByte(Head(up)) /\ up' = Tail(up)
ReadOfLine == up # << >> /\ ~IsByte(Head(up)) /\ up' = <<Other>> \o Tail(up)
NoByte == up = << >> /\ UNCHANGED up

(* Where a call returns to, and what the caller does with the result. *)
AfterCheck == IF program = "serconSend" THEN "failed" ELSE "waitLoad"
AfterReady == IF program = "serconSend" THEN "rcv" ELSE "reboot"
AfterRcv == IF program = "serconSend" THEN "rcvReply" ELSE "lines"
AfterReply == IF At("rcvReply") THEN "lines" ELSE "waitLoad"

-----------------------------------------------------------------------------
(* checkOSConsole *)
CheckConsole ==
  At("start") /\ Say(Plain("empty")) /\ Goto("check") /\ UNCHANGED up

ConsoleThere == At("check") /\ ReadTwo /\ Goto("waitReady") /\ UNCHANGED down

ConsoleBusy == At("check") /\ ReadOfLine /\ Goto(AfterCheck) /\ UNCHANGED down

ConsoleAbsent == At("check") /\ NoByte /\ Goto(AfterCheck) /\ UNCHANGED down

(* waitOSConsoleReady.  Whether it saw the line or gave up is ignored. *)
ReadyLine ==
  /\ At("waitReady")
  /\ ReadLine
  /\ Goto(IF Line.type = "ready" THEN AfterReady ELSE "waitReady")
  /\ UNCHANGED down

NoReadyLine == At("waitReady") /\ NoLine /\ Goto(AfterReady) /\ UNCHANGED down

(* sendCyOSCommand: an answer other than 2, and none within a second, are  *)
(* reported but not acted upon by these callers. *)
SendReboot ==
  At("reboot") /\ Say(Plain("reboot")) /\ Goto("rebootReply") /\ UNCHANGED up

SendRcv ==
  At("rcv") /\ Say(Message("rcv", size, << >>)) /\ Goto(AfterRcv) /\ UNCHANGED up

ReadReply ==
  /\ At("rcvReply") \/ At("rebootReply")
  /\ ReadTwo \/ ReadOfLine
  /\ Goto(AfterReply)
  /\ UNCHANGED down

NoReply ==
  /\ At("rcvReply") \/ At("rebootReply")
  /\ NoByte
  /\ Goto(AfterReply)
  /\ UNCHANGED down

(* bootDevice: the loader says when it is ready for a file. *)
LoadLine ==
  /\ At("waitLoad")
  /\ ReadLine
  /\ Goto(IF Line.type = "prepare" THEN "rcv" ELSE "waitLoad")
  /\ UNCHANGED down

NoLoadLine == At("waitLoad") /\ NoLine /\ Goto("failed") /\ UNCHANGED down

-----------------------------------------------------------------------------
(* sendFileData *)
ValidIndex(k) == k >= 0 /\ k * ChunkSize < size

ChunkOf(k) == Message("chunk", k, Bytes(k * ChunkSize, ChunkSize))

SendChunk ==
  /\ At("lines") /\ HasLine
  /\ Line.type = "send" /\ ValidIndex(Line.n)
  /\ ReadLine
  /\ Say(ChunkOf(Line.n))
  /\ UNCHANGED host

RefuseChunk ==
  /\ At("lines") /\ HasLine
  /\ Line.type = "send" /\ ~ValidIndex(Line.n)
  /\ ReadLine
  /\ Goto("failed")
  /\ UNCHANGED down

(* A mutant: only what the loader says is taken for the end. *)
DoneOnly == {"done"}

Success == {"done", "ready"}

FileSent ==
  /\ At("lines") /\ HasLine
  /\ Line.type \in Success
  /\ ReadLine
  /\ Goto("ok")
  /\ UNCHANGED down

OtherLine ==
  /\ At("lines") /\ HasLine
  /\ Line.type \notin Success \cup {"send"}
  /\ ReadLine
  /\ UNCHANGED <<host, down>>

NoMoreLines == At("lines") /\ NoLine /\ Goto("failed") /\ UNCHANGED down

(* Part of a line is taken for a line. *)
BrokenLine ==
  /\ host.pc \in {"waitReady", "waitLoad", "lines"}
  /\ PartOfLine
  /\ UNCHANGED <<host, down>>

-----------------------------------------------------------------------------
(* BootSerial: the line the processor has written is acted upon at once,   *)
(* and there is one buffer for what it reads: the command at first, and    *)
(* then the chunk asked for last, which replaces what is left of it.       *)
BootCommand == <<Message("rcv", size, << >>)>>

BootLine ==
  /\ program = "BootSerial"
  /\ up # << >>
  /\ up' = Tail(up)
  /\ host' = [host EXCEPT !.prepared = @ \/ Head(up).type = "prepare"]
  /\ down' = IF Head(up).type = "send" THEN <<ChunkOf(Head(up).n)>> ELSE down

-----------------------------------------------------------------------------
SerconStep ==
  \/ CheckConsole \/ ConsoleThere \/ ConsoleBusy \/ ReadyLine
  \/ SendReboot \/ SendRcv \/ ReadReply \/ LoadLine
  \/ SendChunk \/ RefuseChunk \/ FileSent \/ OtherLine

(* Nothing within a second, which a device may well need; and nothing      *)
(* within ten.  (sercon -s waits ten for the console to answer.)           *)
ShortTimeout == NoReply \/ (program = "serconBoot" /\ ConsoleAbsent)

LongTimeout ==
  NoReadyLine \/ NoLoadLine \/ NoMoreLines \/ BrokenLine \/ ConsoleAbsent
=============================================================================
