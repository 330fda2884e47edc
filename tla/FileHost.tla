------------------------------ MODULE FileHost ------------------------------
(***************************************************************************)
(* What the programs that send a file to a Cybiko have in common: sercon   *)
(* and usbcon, and the emulator's BootSerial, which does what sercon -b    *)
(* does.  Each is a loop that writes messages and reads answers; the file  *)
(* goes in chunks the device asks for by number.                           *)
(*                                                                         *)
(* A message is a line, a packet or a chunk: what it is, a number, bytes.  *)
(* The programs: "serconSend" and "serconBoot" are sercon -s and -b,       *)
(* "usbconSend" and "usbconBoot" are usbcon -s and -b.                     *)
(***************************************************************************)
EXTENDS Integers, Sequences

CONSTANTS ChunkSize   \* bytes in a chunk (512, or 4096 in usbcon's bootDevice)

ASSUME ChunkAssumption == ChunkSize \in Nat \ {0}

VARIABLES program,    \* the host program, and what it is asked to do
          size,       \* bytes in the file
          host,       \* the program's variables
          up, down    \* messages to the host and to the device

Message(type, n, data) == [type |-> type, n |-> n, data |-> data]
Plain(type) == Message(type, 0, << >>)

(* No two bytes of the file are equal, so a misplaced one shows. *)
File == [i \in 1..size |-> i]

Smaller(a, b) == IF a < b THEN a ELSE b

Bytes(from, n) == SubSeq(File, from + 1, Smaller(from + n, size))

Starting ==
  [pc |-> "start", pos |-> 0, sendNo |-> 0, recvNo |-> 0, done |-> FALSE,
   prepared |-> FALSE]

Goto(place) == host' = [host EXCEPT !.pc = place]
At(place) == host.pc = place
Ended == host.pc \in {"ok", "failed"}

Say(m) == down' = Append(down, m)
=============================================================================
