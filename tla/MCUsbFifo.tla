----------------------------- MODULE MCUsbFifo -----------------------------
(* FIFO<size> with three slots and two byte values. *)
EXTENDS UsbFifo
=============================================================================
