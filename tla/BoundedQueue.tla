---------------------------- MODULE BoundedQueue ----------------------------
(***************************************************************************)
(* The abstract specification of one FIFO of the USB device: a ByteFifo    *)
(* that is reset, pushed and popped.  FIFO<size> implements it (UsbFifo).  *)
(***************************************************************************)
EXTENDS Integers, Sequences

CONSTANTS Size, Byte

INSTANCE ByteFifo

VARIABLE fifo

Init == fifo = EmptyFifo

Reset == fifo' = EmptyFifo

Put == \E v \in Byte : fifo' = Push(fifo, v)

Get == /\ ~IsEmpty(fifo)
       /\ fifo' = Pop(fifo)

Next == Reset \/ Put \/ Get

Spec == Init /\ [][Next]_fifo

=============================================================================
