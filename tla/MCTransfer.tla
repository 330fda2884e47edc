----------------------------- MODULE MCTransfer -----------------------------
(* Files of one to three chunks, the last one full or not; three faults.   *)
EXTENDS TransferSystem
=============================================================================
