----------------------------- MODULE Compression -----------------------------
(***************************************************************************)
(* The two compressions of tools/encoding.c, as imgtool uses them: a file  *)
(* is encoded, and what was written is decoded again.  Each is a loop that *)
(* handles one item, a byte or a copy of bytes already seen.               *)
(*                                                                         *)
(* The constants of the code (given in the comments) are parameters, so    *)
(* that their limits are reached by small files.                           *)
(***************************************************************************)
EXTENDS BmcCodes, FiniteSets, FiniteSetsExt

CONSTANTS FlagBits,    \* items per byte of flags in LZSS (8)
          LowOffsets,  \* offsets in a byte (256)
          HighOffsets, \* and in the half of one (16)
          LenCodes,    \* lengths in the other half (16)
          MaxLength,   \* longest copy in BMC (256)
          MaxOffset,   \* largest offset in BMC (8191)
          Files,       \* the files
          Lengths,     \* lengths and offsets of copies that are looked at
          Offsets      \* one by one

ASSUME CodesAssumption ==
  /\ FlagBits \in Nat \ {0} /\ LenCodes \in Nat \ {0}
  /\ MaxLength \in 2..256 /\ MaxOffset \in 0..8191
  /\ Lengths \subseteq 2..256 /\ Offsets \subseteq 0..8191

VARIABLES kind,    \* "lzss" or "bmc"; "copy": a single copy
          input,   \* the file; of a copy: its length and offset
          size,    \* its length, as the decoder is told
          phase,   \* "encode", "decode" or "end"
          packed,  \* bytes (LZSS) or bits (BMC) written
          used,    \* bytes encoded; bytes (LZSS) or bits (BMC) decoded
          flags,   \* LZSS: where the byte of flags is, and how many are used
          out,     \* bytes decoded
          ok       \* the result of decoding

vars == <<kind, input, size, phase, packed, used, flags, out, ok>>

Fresh == [at |-> 0, used |-> FlagBits]

Init ==
  /\ \/ kind \in {"lzss", "bmc"} /\ input \in Files
     \/ kind = "copy" /\ input \in (Lengths \X {0}) \cup ({2} \X Offsets)
  /\ size = 0
  /\ phase = "encode"
  /\ packed = << >>
  /\ used = 0
  /\ flags = Fresh
  /\ out = << >>
  /\ ok = FALSE

-----------------------------------------------------------------------------
(* The search.  Matches(offset, max) is how far the bytes ahead are the    *)
(* same as those so far back. *)
Ahead == Len(input) - used

Matches(offset, max) ==
  Max({n \in 0..max : n <= Ahead /\ \A i \in 1..n : input[used - offset + i] = input[used + i]})

(* The first of the longest. *)
Copy(length, offset) == [length |-> length, offset |-> offset]
Best(copies) ==
  IF copies = {} THEN Copy(0, 0)
  ELSE CHOOSE c \in copies :
         \A d \in copies : \/ c.length > d.length
                           \/ c.length = d.length /\ c.offset <= d.offset

(* What an encoder reads next, and the loop's condition. *)
More == used # Len(input)
NextByte == input[used + 1]

-----------------------------------------------------------------------------
(* encodeLZSS and decodeLZSS.  A byte of flags is the set of the numbers   *)
(* of its bits; a copy's second byte is its two halves. *)
LzssBest ==
  Best({Copy(Matches(o, LenCodes + 2), o) :
        o \in 1..Min({LowOffsets * HighOffsets - 1, used})})

LzssItem ==
  LET c == LzssBest
  IN IF c.length >= 3
     THEN [bytes |-> <<c.offset % LowOffsets,
                       [high |-> c.offset \div LowOffsets, len |-> c.length - 3]>>,
           flag |-> FALSE, taken |-> c.length]
     ELSE [bytes |-> <<NextByte>>, flag |-> TRUE, taken |-> 1]

(* A new byte of flags, in the output or in the input. *)
NewFlags == flags.used = FlagBits
Flags(at) == IF NewFlags THEN [at |-> at, used |-> 0] ELSE flags

EncodeLzss ==
  /\ kind = "lzss" /\ phase = "encode" /\ More
  /\ LET f == Flags(Len(packed) + 1)
         start == IF NewFlags THEN Append(packed, {}) ELSE packed
         item == LzssItem
     IN /\ packed' = (IF item.flag THEN [start EXCEPT ![f.at] = @ \cup {f.used}] ELSE start)
                     \o item.bytes
        /\ used' = used + item.taken
        /\ flags' = [f EXCEPT !.used = @ + 1]
  /\ UNCHANGED <<kind, input, size, phase, out, ok>>

CopyBack(offset, length) ==
  LET result[n \in 0..length] ==
        IF n = 0 THEN out
        ELSE Append(result[n - 1], result[n - 1][Len(result[n - 1]) - offset + 1])
  IN result[length]

DecodeLzss ==
  /\ kind = "lzss" /\ phase = "decode"
  /\ used # Len(packed) /\ Len(out) # size
  /\ LET f == Flags(used + 1)
         pos == IF NewFlags THEN used + 1 ELSE used
     IN IF f.used \in packed[f.at]
        THEN /\ out' = Append(out, packed[pos + 1])
             /\ used' = pos + 1
             /\ flags' = [f EXCEPT !.used = @ + 1]
             /\ UNCHANGED phase
        ELSE LET second == packed[pos + 2]
                 offset == packed[pos + 1] + second.high * LowOffsets
                 length == second.len + 3
             IN /\ IF offset > Len(out) \/ Len(out) + length > size
                   THEN phase' = "end" /\ UNCHANGED <<out, flags>>
                   ELSE /\ out' = CopyBack(offset, length)
                        /\ flags' = [f EXCEPT !.used = @ + 1]
                        /\ UNCHANGED phase
                /\ used' = pos + 2
  /\ UNCHANGED <<kind, input, size, packed, ok>>

-----------------------------------------------------------------------------
(* encodeBMC and decodeBMC.  A copy does not reach into what it makes, and *)
(* its offset is counted from where it ends. *)
(* A mutant: a copy reaches into what it makes, as LZSS's does. *)
Overlapping(offset) == MaxLength

Reach(offset) == Min({MaxLength, offset})

BmcBest ==
  Best({c \in {Copy(Matches(o, Reach(o)), o) : o \in 1..Min({MaxOffset + MaxLength, used})} :
          c.offset - c.length <= MaxOffset})

(* imgtool's "worst case output buffer"; what does not fit is dropped. *)
Room == 8 * (Len(input) + (Len(input) + 7) \div 8)
WriteBits(bits) == packed' = SubSeq(packed \o bits, 1, Min({Len(packed) + Len(bits), Room}))

CopyBits(length, offset) == <<1>> \o writeBMCLength(length) \o writeBMCOffset(offset)

EncodeBmc ==
  /\ kind = "bmc" /\ phase = "encode" /\ More
  /\ LET c == BmcBest
     IN IF c.length >= 2
        THEN WriteBits(CopyBits(c.length, c.offset - c.length)) /\ used' = used + c.length
        ELSE WriteBits(<<0>> \o Bits(8, NextByte)) /\ used' = used + 1
  /\ UNCHANGED <<kind, input, size, phase, flags, out, ok>>

(* BitStream_eof: the last byte has been fetched, however many of its bits *)
(* have been read. *)
BitsFetched == 8 * ((used + 7) \div 8)
AtEof == BitsFetched >= Len(packed)

DecodeBmc ==
  /\ kind = "bmc" /\ phase = "decode"
  /\ ~AtEof /\ Len(out) # size
  /\ IF BitAt(packed, used + 1) = 0
     THEN /\ out' = Append(out, Number(packed, used + 1, 8))
          /\ used' = used + 9
          /\ UNCHANGED phase
     ELSE LET length == readBMCLength(packed, used + 1)
              offset == readBMCOffset(packed, length.pos)
              back == length.number + offset.number
          IN /\ used' = offset.pos
             /\ IF back > Len(out) \/ Len(out) + length.number > size
                THEN phase' = "end" /\ UNCHANGED out
                ELSE out' = CopyBack(back, length.number) /\ UNCHANGED phase
  /\ UNCHANGED <<kind, input, size, packed, flags, ok>>

-----------------------------------------------------------------------------
(* The end of encoding (BitStream_flush fills the last byte with zeros),   *)
(* and imgtool -d, or Archive_readEntry: the length it is told may be      *)
(* wrong. *)
Padding(n) == [i \in 1..(8 - (n % 8)) % 8 |-> 0]

Encoded ==
  /\ kind # "copy" /\ phase = "encode" /\ ~More
  /\ packed' = IF kind = "bmc" THEN packed \o Padding(Len(packed)) ELSE packed
  /\ phase' = "decode"
  /\ size' \in Nat \cap (Len(input) - 1 .. Len(input) + 1)
  /\ used' = 0
  /\ flags' = Fresh
  /\ UNCHANGED <<kind, input, out, ok>>

(* The end of a decoder's loop: "fail if partial".  (When it breaks off,   *)
(* not all of the file is there, and it fails.) *)
AllRead == IF kind = "bmc" THEN AtEof ELSE used = Len(packed)

Decoded ==
  /\ phase = "decode" /\ kind # "copy"
  /\ AllRead \/ Len(out) = size
  /\ phase' = "end"
  /\ ok' = (AllRead /\ Len(out) = size)
  /\ UNCHANGED <<kind, input, size, packed, used, flags, out>>

(* A copy by itself, followed by a one. *)
WriteCopy ==
  /\ kind = "copy" /\ phase = "encode"
  /\ packed' = CopyBits(input[1], input[2]) \o <<1>>
  /\ phase' = "end"
  /\ UNCHANGED <<kind, input, size, used, flags, out, ok>>

Next == EncodeLzss \/ EncodeBmc \/ Encoded \/ DecodeLzss \/ DecodeBmc \/ Decoded \/ WriteCopy

Spec == Init /\ [][Next]_vars

-----------------------------------------------------------------------------
(* What was encoded is decoded to what it was, by either encoding, nothing *)
(* on the way differs from it, and a wrong length is noticed, be it by one *)
(* byte: the end of BMC's bits is only known to the byte. *)
DecodesBack ==
  kind # "copy" =>
    /\ out = SubSeq(input, 1, Len(out))
    /\ phase = "end" => ok = (size = Len(input)) /\ (ok => out = input)

(* Every copy reads back as it was written, to the bit; and it takes no    *)
(* more bits than its bytes one by one do (nine each, which the size of    *)
(* imgtool's buffer supposes), but for two bytes from far back. *)
CopyReadsBack ==
  LET length == readBMCLength(packed, 1)
      offset == readBMCOffset(packed, length.pos)
  IN /\ length.number = input[1] /\ offset.number = input[2]
     /\ offset.pos = Len(packed) - 1

CopiesSound ==
  kind = "copy" /\ phase = "end" =>
    /\ CopyReadsBack
    /\ Len(packed) - 1 \in 9..9 * input[1] \/ (input[1] = 2 /\ input[2] >= 4096)
=============================================================================
