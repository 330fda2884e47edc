---------------------------- MODULE MCUsbControl ----------------------------
(* Two-byte setup packets and FIFO: the device descriptor comes in three   *)
(* packets, the header in two, the configuration in three. *)
EXTENDS UsbControlSystem
=============================================================================
