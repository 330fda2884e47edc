----------------------------- MODULE MCUsbBulk -----------------------------
(* One pipe with two-byte FIFOs, two requests, four bytes. *)
EXTENDS UsbBulkSystem
=============================================================================
