--------------------------- MODULE MCUsbipServer ---------------------------
(* Three sockets, one connection waiting to be accepted, one command under *)
(* way for each client. *)
EXTENDS UsbipServer
=============================================================================
