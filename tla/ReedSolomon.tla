----------------------------- MODULE ReedSolomon -----------------------------
(***************************************************************************)
(* The error correction of RFSerial: the emulator does not send the code's *)
(* bytes over the network, and the one that receives a packet computes     *)
(* them again.  Here are single iterations of the loops of eccInit,        *)
(* genPoly and eccCalc; the actions are in RfNetwork.                      *)
(*                                                                         *)
(* Arrays are functions from 0.                                            *)
(***************************************************************************)
EXTENDS Integers, FiniteSets

CONSTANTS Packets,  \* records of from, no (its number) and long
          Data(_)   \* their bytes, an array

Byte == 0..255
Bit(v, k) == (v \div 2^k) % 2

XorBits(a, b) ==
  LET low[k \in 0..8] ==
        IF k = 0 THEN 0
        ELSE low[k - 1] + 2^(k - 1) * ((Bit(a, k - 1) + Bit(b, k - 1)) % 2)
  IN low[8]

XorTable == [a \in Byte |-> [b \in Byte |-> XorBits(a, b)]]
Xor(a, b) == XorTable[a][b]

(* A mutant: the sum is cut to a byte, and no more. *)
CutToByte(v) == v % 256

(* v - 255 until it is less than that; two exponents make less than 510. *)
rsMod(v) == IF v < 255 THEN v ELSE ((v - 255) % 256) + (((v - 255) \div 256) % 256)

-----------------------------------------------------------------------------
VARIABLES
  rsExpTable, rsLogTable,  \* the powers of 2, and their exponents (255 for 0)
  rsPoly,                  \* rsPoly20 and rsPoly80: the exponents of coefficients
  setup,                   \* eccInit: the loop it is in, and its variables
  eccOf                    \* what eccCalc has made of which packet

tables == <<rsExpTable, rsLogTable, rsPoly, setup, eccOf>>

Times(c, exponent) == rsExpTable[rsMod(rsLogTable[c] + exponent)]

Sizes == {20, 80}

NoTables ==
  /\ rsExpTable = << >> /\ rsLogTable = << >> /\ rsPoly = << >> /\ eccOf = << >>
  /\ setup = [loop |-> "none"]

TablesInit ==
  /\ rsExpTable = [i \in Byte |-> 0] /\ rsLogTable = [c \in Byte |-> 0]
  /\ rsPoly = [n \in Sizes |-> [j \in 0..n |-> 0]]
  /\ setup = [loop |-> "powers", i |-> 0, e |-> 1, n |-> 0, out |-> << >>]
  /\ eccOf = [p \in {} |-> 0]

Twice(e) == IF 2 * e >= 256 THEN Xor(2 * e - 256, 29) ELSE 2 * e

EccPower ==
  /\ setup.loop = "powers" /\ setup.i < 255
  /\ rsExpTable' = [rsExpTable EXCEPT ![setup.i] = setup.e]
  /\ rsLogTable' = [rsLogTable EXCEPT ![setup.e] = setup.i]
  /\ setup' = [setup EXCEPT !.i = @ + 1, !.e = Twice(@)]
  /\ UNCHANGED <<rsPoly, eccOf>>

(* genPoly begins with out[0] = 0 (its exponent is 255, as good as 0, that *)
(* of 1), and out[i + 1] is 1 when it is reached. *)
StartPoly(n) == [setup EXCEPT !.loop = "roots", !.n = n, !.i = 0, !.out = [j \in 0..n |-> 0]]

EccZero ==
  /\ setup.loop = "powers" /\ setup.i = 255
  /\ rsExpTable' = [rsExpTable EXCEPT ![255] = 0]
  /\ rsLogTable' = [rsLogTable EXCEPT ![0] = 255]
  /\ setup' = StartPoly(20)
  /\ UNCHANGED <<rsPoly, eccOf>>

(* One more root: the polynomial times (x + 2^root). *)
WithRoot(out, root) ==
  [j \in DOMAIN out |->
     IF j = 0 THEN Times(out[0], root)
     ELSE IF j > root THEN 0
     ELSE IF j = root THEN 1
     ELSE IF out[j] = 0 THEN out[j - 1]
     ELSE Xor(out[j - 1], Times(out[j], root))]

EccRoot ==
  /\ setup.loop = "roots" /\ setup.i < setup.n
  /\ setup' = [setup EXCEPT !.i = @ + 1, !.out = WithRoot(@, setup.i + 1)]
  /\ UNCHANGED <<rsExpTable, rsLogTable, rsPoly, eccOf>>

EccPoly ==
  /\ setup.loop = "roots" /\ setup.i = setup.n
  /\ rsPoly' = [rsPoly EXCEPT ![setup.n] =
                  [j \in DOMAIN setup.out |-> rsLogTable[setup.out[j]]]]
  /\ setup' = IF setup.n = 20 THEN StartPoly(80) ELSE [setup EXCEPT !.loop = "packets"]
  /\ UNCHANGED <<rsExpTable, rsLogTable, eccOf>>

MakeTables == EccPower \/ EccZero \/ EccRoot \/ EccPoly

-----------------------------------------------------------------------------
(* eccCalc: the loop takes one byte of a packet, from its last to its      *)
(* first.  The bytes of a packet are 16 of header and 14 or 104.           *)
DataLen(p) == IF p.long THEN 120 ELSE 30
EccLen(p) == IF p.long THEN 80 ELSE 20

Shifted(ecc, byte, n) ==
  LET b == rsLogTable[Xor(ecc[n - 1], byte)]
  IN [j \in 0..n - 1 |->
        IF b = 255 THEN (IF j = 0 THEN 0 ELSE ecc[j - 1])
        ELSE IF j = 0 THEN rsExpTable[rsMod(b + rsPoly[n][0])]
        ELSE Xor(rsExpTable[rsMod(b + rsPoly[n][j])], ecc[j - 1])]

WithEcc(p, ecc) == [q \in DOMAIN eccOf \cup {p} |-> IF q = p THEN ecc ELSE eccOf[q]]

EccFirst ==
  /\ setup.loop = "packets" /\ DOMAIN eccOf # Packets
  /\ LET p == CHOOSE p \in Packets : p \notin DOMAIN eccOf
     IN /\ eccOf' = WithEcc(p, [j \in 0..EccLen(p) - 1 |-> 0])
        /\ setup' = [setup EXCEPT !.loop = "bytes", !.out = p, !.i = DataLen(p)]
  /\ UNCHANGED <<rsExpTable, rsLogTable, rsPoly>>

EccByte ==
  /\ setup.loop = "bytes" /\ setup.i > 0
  /\ LET p == setup.out
     IN eccOf' = WithEcc(p, Shifted(eccOf[p], Data(p)[setup.i - 1], EccLen(p)))
  /\ setup' = [setup EXCEPT !.i = @ - 1]
  /\ UNCHANGED <<rsExpTable, rsLogTable, rsPoly>>

EccLast ==
  /\ setup.loop = "bytes" /\ setup.i = 0
  /\ setup' = [setup EXCEPT !.loop = "packets"]
  /\ UNCHANGED <<rsExpTable, rsLogTable, rsPoly, eccOf>>

EncodePackets == EccFirst \/ EccByte \/ EccLast

-----------------------------------------------------------------------------
(* What it is to be a word of the code: the tables are those of the field  *)
(* (each power the double of the one before), and 2^1 to 2^n are roots of  *)
(* the polynomial whose coefficients the bytes are. *)
Double(c) == IF c < 128 THEN 2 * c ELSE XorBits(2 * c - 256, 29)

FieldTables ==
  /\ rsExpTable[0] = 1
  /\ \A i \in 0..253 : rsExpTable[i + 1] = Double(rsExpTable[i])
  /\ \A c \in 1..255 : rsLogTable[c] < 255 /\ rsExpTable[rsLogTable[c]] = c

IsRoot(word, r) ==
  LET term == [i \in DOMAIN word |->
                 IF word[i] = 0 THEN 0
                 ELSE rsExpTable[(rsLogTable[word[i]] + r * i) % 255]]
  IN \A k \in 0..7 : Cardinality({i \in DOMAIN word : Bit(term[i], k) = 1}) % 2 = 0

Word(p) == [i \in 0..EccLen(p) + DataLen(p) - 1 |->
              IF i < EccLen(p) THEN eccOf[p][i] ELSE Data(p)[i - EccLen(p)]]

(* What the firmware gets with a packet makes it a word of the code it     *)
(* corrects errors with, with the right number of bytes: it finds no error *)
(* in it. *)
EccIsCodeWord ==
  setup.loop = "bytes" /\ setup.i = 0 =>
    FieldTables /\ \A r \in 1..EccLen(setup.out) : IsRoot(Word(setup.out), r)
=============================================================================
