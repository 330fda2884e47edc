------------------------------ MODULE BmcCodes ------------------------------
(***************************************************************************)
(* The variable-length codes of tools/encoding.c: how writeBMCLength and   *)
(* writeBMCOffset write a number, and how readBMCLength and readBMCOffset  *)
(* read one.  The writers are chains of comparisons, the readers decision  *)
(* trees; the codes are not in the order of the numbers, and the two       *)
(* tables were written separately.                                         *)
(*                                                                         *)
(* Bits are sequences of 0 and 1, the first one written first.             *)
(***************************************************************************)
EXTENDS Integers, Sequences

(* BitStream_writeBits: the highest bit first. *)
Bits(n, value) == [i \in 1..n |-> (value \div 2^(n - i)) % 2]

(* BitStream_readBits, from a position in a stream: past its end there are *)
(* zeros. *)
BitAt(stream, i) == IF i <= Len(stream) THEN stream[i] ELSE 0

Number(stream, pos, n) ==
  LET value[i \in 0..n] ==
        IF i = 0 THEN 0 ELSE 2 * value[i - 1] + BitAt(stream, pos + i)
  IN value[n]

-----------------------------------------------------------------------------
(* A writer's row: numbers below the first (and not of a row before) are   *)
(* a prefix and the difference to a base in so many bits. *)
Row(below, prefix, base, n) == [below |-> below, prefix |-> prefix, base |-> base, n |-> n]

Write(rows, number) ==
  LET i == CHOOSE i \in DOMAIN rows :
             number < rows[i].below /\ \A j \in 1..i - 1 : number >= rows[j].below
  IN rows[i].prefix \o Bits(rows[i].n, number - rows[i].base)

LengthRows ==
  << Row(4, << >>, 2, 2),
     Row(6, <<1,0>>, 4, 1),
     Row(7, <<1,1,0,0>>, 6, 0),
     Row(8, <<1,1,1,0,0>>, 7, 0),
     Row(10, <<1,1,0,1>>, 8, 1),
     Row(12, <<1,1,1,0,1>>, 10, 1),
     Row(14, <<1,1,1,1>>, 12, 3),
     Row(15, <<1,1,1,1,1,0,1>>, 14, 0),
     Row(16, <<1,1,1,1,1,1,1,0>>, 15, 0),
     Row(18, <<1,1,1,1,0,1,1>>, 16, 1),
     Row(20, <<1,1,1,1,1,1,0,1>>, 18, 1),
     Row(24, <<1,1,1,1,0,1,0>>, 20, 2),
     Row(32, <<1,1,1,1,1,0,0>>, 24, 3),
     Row(64, <<1,1,1,1,1,1,0,0>>, 32, 5),
     Row(128, <<1,1,1,1,1,1,1,1,0>>, 64, 6),
     Row(256, <<1,1,1,1,1,1,1,1,1,0>>, 128, 7),
     Row(257, <<1,1,1,1,1,1,1,1,1,1>>, 256, 0) >>

OffsetRows ==
  << Row(2, <<1,1,1,0,0>>, 0, 1),
     Row(3, <<1,1,1,1,0,1>>, 2, 0),
     Row(4, <<1,1,1,1,1,1,0>>, 3, 0),
     Row(6, <<1,1,1,1,0,0>>, 4, 1),
     Row(10, <<1,1,1,0,1>>, 6, 2),
     Row(12, <<1,1,1,1,1,1,1>>, 10, 1),
     Row(14, <<1,1,1,1,1,0,0>>, 12, 1),
     Row(16, <<1,1,1,1,1,0,1>>, 14, 1),
     Row(32, <<1,1,0,1>>, 16, 4),
     Row(64, <<1,1,0,0>>, 32, 5),
     Row(128, <<0,1,1>>, 64, 6),
     Row(256, <<1,0,0>>, 128, 7),
     Row(512, <<0,1,0>>, 256, 8),
     Row(1024, <<0,0,1>>, 512, 9),
     Row(2048, <<0,0,0>>, 1024, 10),
     Row(4096, <<1,0,1,0>>, 2048, 11),
     Row(8192, <<1,0,1,1>>, 4096, 12) >>

writeBMCLength(length) == Write(LengthRows, length)
writeBMCOffset(offset) == Write(OffsetRows, offset)

-----------------------------------------------------------------------------
(* A reader's leaf: the bits that lead to it, what is added, and how many  *)
(* bits follow.  Every tree is cut into its branches. *)
Leaf(path, base, n) == [path |-> path, base |-> base, n |-> n]

(* Reads a number: it and the position after it. *)
Read(leaves, stream, pos) ==
  LET leaf == CHOOSE leaf \in leaves :
                \A i \in DOMAIN leaf.path : BitAt(stream, pos + i) = leaf.path[i]
      start == pos + Len(leaf.path)
  IN [number |-> leaf.base + Number(stream, start, leaf.n), pos |-> start + leaf.n]

ShortLengths ==
  { Leaf(<<0,0>>, 2, 0), Leaf(<<0,1>>, 3, 0), Leaf(<<1,0>>, 4, 1),
    Leaf(<<1,1,0,0>>, 6, 0), Leaf(<<1,1,0,1>>, 8, 1),
    Leaf(<<1,1,1,0,1>>, 10, 1), Leaf(<<1,1,1,0,0>>, 7, 0) }

LongLengths ==
  { Leaf(<<1,1,1,1,0,0,0>>, 12, 0), Leaf(<<1,1,1,1,0,0,1>>, 13, 0),
    Leaf(<<1,1,1,1,0,1,0>>, 20, 2), Leaf(<<1,1,1,1,0,1,1>>, 16, 1),
    Leaf(<<1,1,1,1,1,0,0>>, 24, 3), Leaf(<<1,1,1,1,1,0,1>>, 14, 0),
    Leaf(<<1,1,1,1,1,1,0,1>>, 18, 1), Leaf(<<1,1,1,1,1,1,0,0>>, 32, 5),
    Leaf(<<1,1,1,1,1,1,1,0>>, 15, 0), Leaf(<<1,1,1,1,1,1,1,1,0>>, 64, 6),
    Leaf(<<1,1,1,1,1,1,1,1,1,0>>, 128, 7), Leaf(<<1,1,1,1,1,1,1,1,1,1>>, 256, 0) }

(* A mutant: the bit after 5 and that after 6 mean the same. *)
FarReversed ==
  { Leaf(<<1,0,1,0>>, 4096, 12), Leaf(<<1,0,1,1>>, 2048, 11) }

FarOffsets ==
  { Leaf(<<1,0,1,1>>, 4096, 12), Leaf(<<1,0,1,0>>, 2048, 11) }

MiddleOffsets ==
  { Leaf(<<0,0,0>>, 1024, 10), Leaf(<<0,0,1>>, 512, 9), Leaf(<<0,1,0>>, 256, 8),
    Leaf(<<0,1,1>>, 64, 6), Leaf(<<1,0,0>>, 128, 7),
    Leaf(<<1,1,0,1>>, 16, 4), Leaf(<<1,1,0,0>>, 32, 5) }

NearOffsets ==
  { Leaf(<<1,1,1,0,0>>, 0, 1), Leaf(<<1,1,1,0,1>>, 6, 2),
    Leaf(<<1,1,1,1,0,1>>, 2, 0), Leaf(<<1,1,1,1,0,0>>, 4, 1),
    Leaf(<<1,1,1,1,1,0,0>>, 12, 1), Leaf(<<1,1,1,1,1,0,1>>, 14, 1),
    Leaf(<<1,1,1,1,1,1,0>>, 3, 0), Leaf(<<1,1,1,1,1,1,1>>, 10, 1) }

readBMCLength(stream, pos) == Read(ShortLengths \cup LongLengths, stream, pos)
readBMCOffset(stream, pos) == Read(NearOffsets \cup MiddleOffsets \cup FarOffsets, stream, pos)
=============================================================================
