------------------------------ MODULE UsbFifo ------------------------------
(***************************************************************************)
(* FIFO<size> of emu2/USBDevice.h: the ring buffer behind every endpoint   *)
(* of the emulated USB controller.  push() never asks whether there is     *)
(* room, and pop() never asks whether there is a byte: some callers ask    *)
(* first, usbipOut() and usbipControlRequest() do not, so the pushes of    *)
(* this specification include those onto a full ring.                      *)
(***************************************************************************)
EXTENDS Integers, Sequences

CONSTANTS Size,  \* template<int size>
          Byte   \* the values a slot can hold

ASSUME SizeAssumption == Size \in Nat \ {0}

VARIABLES buf, writeOff, readOff, fullFlag

vars == <<buf, writeOff, readOff, fullFlag>>

Slots == 0 .. Size - 1

TypeOK == /\ buf \in [Slots -> Byte]
          /\ writeOff \in Slots
          /\ readOff \in Slots
          /\ fullFlag \in BOOLEAN

-----------------------------------------------------------------------------
(* The queries. *)

empty == ~fullFlag /\ readOff = writeOff

full == fullFlag

GetFilledStrict ==
  IF fullFlag THEN Size
  ELSE IF writeOff > readOff THEN writeOff - readOff
  ELSE (writeOff + Size) - readOff

getFilled ==
  IF fullFlag THEN Size
  ELSE IF writeOff >= readOff THEN writeOff - readOff
  ELSE (writeOff + Size) - readOff

-----------------------------------------------------------------------------
(* The operations.  The slots are not initialised. *)

Init == /\ buf \in [Slots -> Byte]
        /\ writeOff = 0
        /\ readOff = 0
        /\ fullFlag = FALSE

ResetKeepsFull == /\ readOff' = 0
                  /\ writeOff' = 0
                  /\ UNCHANGED <<buf, fullFlag>>

reset == /\ readOff' = 0
         /\ writeOff' = 0
         /\ fullFlag' = FALSE
         /\ UNCHANGED buf

PopWithoutWrap == /\ readOff' = readOff + 1
                  /\ fullFlag' = FALSE
                  /\ UNCHANGED <<buf, writeOff>>

pop == /\ readOff' = (readOff + 1) % Size
       /\ fullFlag' = FALSE
       /\ UNCHANGED <<buf, writeOff>>

push(v) == /\ buf' = [buf EXCEPT ![writeOff] = v]
           /\ writeOff' = (writeOff + 1) % Size
           /\ fullFlag' = (fullFlag \/ readOff = (writeOff + 1) % Size)
           /\ UNCHANGED readOff

Next == \/ reset
        \/ \E v \in Byte : push(v)
        \/ ~empty /\ pop

Spec == Init /\ [][Next]_vars

-----------------------------------------------------------------------------
(* The refinement mapping: the bytes from readOff up to writeOff. *)

Held == IF readOff = writeOff
        THEN IF fullFlag THEN Size ELSE 0
        ELSE IF writeOff > readOff THEN writeOff - readOff
        ELSE (writeOff + Size) - readOff

SlotOf(i) == IF readOff + i - 1 < Size THEN readOff + i - 1
             ELSE readOff + i - 1 - Size

Contents == [i \in 1 .. Held |-> buf[SlotOf(i)]]

Queue == INSTANCE BoundedQueue WITH
           fifo <- [q |-> Contents, full |-> fullFlag]

(* Every reset, push and pop of the ring is one of the queue (or leaves it *)
(* as it was): in particular a push onto a full ring drops all the bytes   *)
(* queued so far, and never mixes them with the new ones.                  *)
ImplementsQueue == Queue!Spec

(* What the ring answers is what the queue answers: level, emptiness and    *)
(* the next byte, also after a push onto a full ring.  The                 *)
(* status registers TXSx and RXSx and every "while(!fifo.empty())" loop    *)
(* rely on it.                                                             *)
AnswersAgree ==
  LET f == [q |-> Contents, full |-> fullFlag]
  IN  /\ getFilled = Queue!Filled(f)
      /\ empty <=> Queue!IsEmpty(f)
      /\ ~empty => buf[readOff] = Queue!Front(f)

=============================================================================
