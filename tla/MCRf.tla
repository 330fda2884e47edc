-------------------------------- MODULE MCRf --------------------------------
(* Two emulators send two packets each, of which one may be the same       *)
(* again; sockets may be missing.  The data has zeros and every bit.       *)
EXTENDS RfNetwork

Packet(e, n, long) == [from |-> e, no |-> n, long |-> long]

MCPackets ==
  {Packet(1, 1, FALSE), Packet(1, 2, TRUE), Packet(2, 1, FALSE)}

MCData(p) ==
  [i \in 0..DataLen(p) - 1 |-> IF i % 9 = 4 THEN 0 ELSE (37 * i + 101 * p.no + 59 * p.from) % 256]
=============================================================================
