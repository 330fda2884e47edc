---------------------------- MODULE MCCpuSerial ----------------------------
(* Three bytes each way; a character takes longer than an instruction.     *)
EXTENDS CpuSerialSystem

TdrAddress == -1
RdrAddress == -2
=============================================================================
