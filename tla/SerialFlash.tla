----------------------------- MODULE SerialFlash -----------------------------
(***************************************************************************)
(* One serial flash chip of the classic (emu2/SerialFlash.cpp), as         *)
(* operators on a record f that has its fields but the memory, which is a  *)
(* function m from addresses to bytes.  buf is forgotten with the command. *)
(***************************************************************************)
EXTENDS Integers, Sequences

CONSTANTS PageSize, NumPages

\* A command has nine bits for the place in the page.
ASSUME FlashAssumption == PageSize \in 1 .. 512 /\ NumPages \in Nat \ {0}

TotalBytes == PageSize * NumPages
Addresses == 0 .. TotalBytes - 1
Offsets == 0 .. PageSize - 1
Pages == 0 .. NumPages - 1

None == -1    \* no address: 0xFFFFFFFF
Idle == 255   \* what an idle line reads as

(* The operations, with the bytes that follow the opcode: an address of    *)
(* three, and four to wait for a read. *)
MemoryRead == 82
StatusRead == 87
Compare == 96
MemoryWrite == 130
Arguments == [o \in {MemoryRead, Compare, MemoryWrite} |->
                IF o = MemoryRead THEN 7 ELSE 3]

Ready == 152  \* the status: ready, and the density

Deselected(buffer) ==
  [cs |-> TRUE, didWrite |-> FALSE, wait |-> FALSE, outputStatus |-> FALSE,
   opCode |-> 0, buf |-> << >>, len |-> 0, readAddr |-> None, readOff |-> 0,
   writeAddr |-> None, writeOff |-> 0, writeBuf |-> buffer]

-----------------------------------------------------------------------------
(* write() *)

AddressOf(buf) == (buf[2] \div 2 + buf[1] * 128) * PageSize
                  + buf[3] + (buf[2] % 2) * 256

BufferedUnwrapped(f, val) == [f EXCEPT !.writeBuf[f.writeOff] = val,
                                       !.writeOff = @ + 1]

Buffered(f, val) == [f EXCEPT !.writeBuf[f.writeOff] = val,
                              !.writeOff = (@ + 1) % PageSize]

BegunAtOnce(f) == [f EXCEPT !.readAddr = AddressOf(f.buf), !.readOff = 0]

(* The answer starts with the byte after the last one of the command.      *)
BegunReading(f) ==
  [f EXCEPT !.readAddr = AddressOf(f.buf), !.readOff = 0, !.wait = TRUE]

BegunWritingOn(f) == [f EXCEPT !.writeAddr = AddressOf(f.buf)]

BegunWriting(f) ==
  [f EXCEPT !.writeAddr = AddressOf(f.buf), !.writeOff = 0]

Begun(f) ==
  [CASE f.opCode = MemoryRead -> BegunReading(f)
     [] f.opCode = MemoryWrite -> BegunWriting(f)
     [] OTHER -> f
   EXCEPT !.len = 0, !.opCode = 0, !.buf = << >>]

Argument(f, val) ==
  LET more == [f EXCEPT !.buf = Append(@, val)]
  IN  IF Len(more.buf) = f.len THEN Begun(more) ELSE more

Opcode(f, val) ==
  LET begun == [f EXCEPT !.buf = << >>]
  IN  IF val = StatusRead THEN [begun EXCEPT !.outputStatus = TRUE]
      ELSE IF val \in DOMAIN Arguments
      THEN [begun EXCEPT !.opCode = val, !.len = Arguments[val]]
      ELSE begun

Write(f, val) ==
  LET d == [f EXCEPT !.didWrite = TRUE]
  IN  IF f.cs THEN f
      ELSE IF f.outputStatus \/ f.readAddr # None THEN d
      ELSE IF f.writeAddr # None THEN Buffered(d, val)
      ELSE IF f.len # 0 THEN Argument(d, val)
      ELSE Opcode(d, val)

-----------------------------------------------------------------------------
(* read(): what it returns, and what it leaves. *)

\* Past the memory lies whatever lies there.
Stored(m, a) == IF a \in Addresses THEN m[a] ELSE Idle

Answer(f, m) ==
  IF f.outputStatus THEN Ready
  ELSE IF f.wait \/ f.readAddr = None THEN Idle
  ELSE Stored(m, f.readAddr + f.readOff)

Read(f) ==
  LET d == [f EXCEPT !.didWrite = FALSE]
  IN  IF f.outputStatus THEN d
      ELSE IF f.wait THEN [d EXCEPT !.wait = FALSE]
      ELSE IF f.readAddr = None THEN d
      ELSE [d EXCEPT !.readOff = (@ + 1) % PageSize]

canRead(f) == f.didWrite

-----------------------------------------------------------------------------
(* setCS().  Deselecting ends what was read or written, and programs the   *)
(* page; of a command not complete it forgets nothing. *)

SetCS(f, val) ==
  IF val /\ ~f.cs
  THEN [f EXCEPT !.cs = TRUE, !.outputStatus = FALSE, !.readAddr = None,
                 !.writeAddr = None]
  ELSE [f EXCEPT !.cs = val]

ProgramFrom(f, start, m) ==
  [a \in Addresses |-> IF (a - start) \in Offsets THEN f.writeBuf[a - start]
                       ELSE m[a]]

ProgrammedInPlace(f, val, m) ==
  IF val /\ ~f.cs /\ f.writeAddr # None THEN ProgramFrom(f, f.writeAddr, m)
  ELSE m

(* The page is written from its start, whatever the address. *)
Programmed(f, val, m) ==
  IF val /\ ~f.cs /\ f.writeAddr # None
  THEN ProgramFrom(f, f.writeAddr - (f.writeAddr % PageSize), m)
  ELSE m
=============================================================================
