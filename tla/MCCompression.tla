---------------------------- MODULE MCCompression ----------------------------
(* All files of two different bytes, and some that are longer; all copies. *)
EXTENDS Compression

Letters == {1, 2}

AllLengths == 2..256
AllOffsets == 0..8191

MCFiles ==
  (UNION {[1..n -> Letters] : n \in 0..8})
  \cup {[i \in 1..n |-> 1 + (i % k)] : n \in 9..20, k \in 1..12}
=============================================================================
