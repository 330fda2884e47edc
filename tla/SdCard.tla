------------------------------- MODULE SdCard -------------------------------
(***************************************************************************)
(* The SD card of the Xtreme (emu2/BootSerial.cpp: SDCard), as operators   *)
(* on a record c that has its fields and, as c.file, the file behind it: a *)
(* function from addresses to bytes.  A block has BlockSize bytes.         *)
(***************************************************************************)
EXTENDS Integers, Sequences

CONSTANTS
  BlockSize,  \* 512
  FileSize,   \* bytes of the file
  Register    \* what CMD9 and CMD10 answer with: 16 bytes

MaxInt == 2147483647   \* the addresses in the file are ints

ASSUME CardAssumption == /\ BlockSize \in Nat \ {0} /\ FileSize \in Nat
                         /\ FileSize + BlockSize <= MaxInt
                         /\ Register \in Seq(0 .. 255)

Empty == 255        \* an empty queue reads as this
StartToken == 254   \* before each block but those of CMD25
MultiToken == 252
StopToken == 253
Accepted == 5       \* the answer to a block written
Busy == 0

Blank(file) ==
  [didWrite |-> FALSE, idle |-> FALSE, appCmd |-> FALSE, multi |-> FALSE,
   reading |-> FALSE, writing |-> FALSE, gotToken |-> FALSE,
   readAddress |-> 0, writeAddress |-> 0, writeOffset |-> 0,
   writeBuf |-> [i \in 0 .. BlockSize - 1 |-> 0], cmd |-> << >>,
   readQueue |-> << >>, file |-> file]

Push(c, bytes) == [c EXCEPT !.readQueue = @ \o bytes]

R1(c) == IF c.idle THEN 1 ELSE 0

-----------------------------------------------------------------------------
(* Past its end the file gives nothing: what is sent was never written.    *)
ByteAt(c, a) == IF a < FileSize THEN c.file[a] ELSE 0

Block(c, a) == [i \in 1 .. BlockSize |-> ByteAt(c, a + i - 1)]

SentAgain(c) ==
  Push(c, <<Empty, StartToken>> \o Block(c, c.readAddress) \o <<Empty, Empty>>)

sendBlock(c) ==
  [SentAgain(c) EXCEPT !.readAddress = @ + BlockSize]

SentOnce(c) == c

(* "continue reading blocks" *)
SentOnDemand(c) ==
  IF c.reading /\ c.multi /\ c.readQueue = << >> THEN sendBlock(c) ELSE c

-----------------------------------------------------------------------------
(* Commands. *)

Arg(cmd) == ((cmd[2] * 256 + cmd[3]) * 256 + cmd[4]) * 256 + cmd[5]

AppCommand(c, n) ==
  LET d == [c EXCEPT !.appCmd = FALSE]
  IN  IF n = 41 THEN Push([d EXCEPT !.idle = FALSE], <<0>>) ELSE d

StoppedKeepingQueue(c) ==
  Push([c EXCEPT !.reading = FALSE, !.writing = FALSE, !.multi = FALSE],
       <<Empty, 0>>)

Stopped(c) ==
  [c EXCEPT !.reading = FALSE, !.writing = FALSE, !.multi = FALSE,
            !.readQueue = <<Empty, 0>>]

WritingFrom(c, arg, multi) ==
  [Push(c, <<0>>) EXCEPT !.writeAddress = arg, !.writing = TRUE,
                         !.multi = @ \/ multi, !.gotToken = FALSE,
                         !.writeOffset = 0]

ReadingFrom(c, arg) == [Push(c, <<0>>) EXCEPT !.readAddress = arg]

Command(c, n, arg) ==
  CASE n = 0 -> Push([c EXCEPT !.idle = TRUE], <<1>>)
    [] n \in {9, 10} ->
         Push(c, <<R1(c), StartToken>> \o Register \o <<Empty, Empty>>)
    [] n = 12 -> Stopped(c)
    [] n = 17 -> sendBlock(ReadingFrom(c, arg))
    [] n = 18 -> sendBlock([ReadingFrom(c, arg) EXCEPT !.reading = TRUE,
                                                       !.multi = TRUE])
    [] n \in {24, 25} -> WritingFrom(c, arg, n = 25)
    [] n = 55 -> Push([c EXCEPT !.appCmd = TRUE], <<R1(c)>>)
    [] OTHER -> Push(c, <<4 + R1(c)>>)

Executed(c) ==
  LET n == c.cmd[1] % 64
      d == IF c.appCmd THEN AppCommand(c, n) ELSE Command(c, n, Arg(c.cmd))
  IN  [d EXCEPT !.cmd = << >>]

CommandByte(c, val) ==
  LET more == [c EXCEPT !.cmd = Append(@, val)]
  IN  IF Len(more.cmd) = 6 THEN Executed(more) ELSE more

-----------------------------------------------------------------------------
(* Blocks written: data and two bytes that are ignored. *)

Committed(c) ==
  [c EXCEPT !.file = [a \in DOMAIN @ |->
                        IF (a - c.writeAddress) \in 0 .. BlockSize - 1
                        THEN c.writeBuf[a - c.writeAddress] ELSE @[a]],
            !.writeAddress = @ + BlockSize]

AfterBlockInPlace(c) ==
  IF c.multi THEN [c EXCEPT !.gotToken = FALSE]
  ELSE [c EXCEPT !.writing = FALSE]

AfterBlock(c) ==
  IF c.multi THEN [c EXCEPT !.writeOffset = 0, !.gotToken = FALSE]
  ELSE [c EXCEPT !.writing = FALSE]

DataByte(c, val) ==
  IF c.writeOffset = BlockSize + 1
  THEN Committed(AfterBlock(Push(c, <<Accepted, Busy>>)))
  ELSE [c EXCEPT !.writeBuf = IF c.writeOffset < BlockSize
                              THEN [@ EXCEPT ![c.writeOffset] = val] ELSE @,
                 !.writeOffset = @ + 1]

WriteByte(c, val) ==
  IF c.gotToken THEN DataByte(c, val)
  ELSE IF val = (IF c.multi THEN MultiToken ELSE StartToken)
  THEN [c EXCEPT !.gotToken = TRUE]
  ELSE IF c.multi /\ val = StopToken
  THEN [c EXCEPT !.writing = FALSE, !.multi = FALSE]
  ELSE c

-----------------------------------------------------------------------------
Taken(c, val) ==
  IF c.cmd # << >> THEN CommandByte(c, val)
  ELSE IF c.writing THEN WriteByte(c, val)
  ELSE IF val \in 64 .. 127 THEN [c EXCEPT !.cmd = <<val>>]
  ELSE c

Write(c, val) == SentOnDemand(Taken([c EXCEPT !.didWrite = TRUE], val))

Answer(c) == IF c.readQueue = << >> THEN Empty ELSE Head(c.readQueue)

Read(c) == [c EXCEPT !.didWrite = FALSE,
                     !.readQueue = IF @ = << >> THEN @ ELSE Tail(@)]

canRead(c) == c.didWrite
=============================================================================
