----------------------------- MODULE SdBusProofs -----------------------------
(***************************************************************************)
(* Proofs about the card: the answers, the blocks read and the blocks      *)
(* written, for blocks and files of every size.                            *)
(***************************************************************************)
EXTENDS SdBus, SequenceTheorems, TLAPS

-----------------------------------------------------------------------------
(* The blocks of the file: a block with a number below NumBlocks lies in   *)
(* it, and two blocks have no byte in common. *)

LEMMA BlocksFollow ==
  ASSUME NEW x \in Int, NEW y \in Int
  PROVE  (x + 1) * y = x * y + y /\ x * y \in Int
OBVIOUS

LEMMA TimesGrow ==
  ASSUME NEW x \in Int, NEW z \in Int, NEW y \in Nat, x <= z
  PROVE  x * y <= z * y
OBVIOUS

LEMMA DivisionIs ==
  ASSUME NEW m \in Nat, NEW n \in Nat \ {0}
  PROVE  (m \div n) \in Nat /\ (m \div n) * n <= m
OBVIOUS

LEMMA InFile ==
  ASSUME NEW x \in Nat, x + 1 <= NumBlocks
  PROVE  /\ x * BlockSize \in Nat /\ x * BlockSize + BlockSize <= FileSize
<1>1. BlockSize \in Nat \ {0} /\ FileSize \in Nat
  BY CardAssumption
<1>2. NumBlocks \in Nat /\ NumBlocks * BlockSize <= FileSize
  BY <1>1, DivisionIs DEF NumBlocks
<1>3. (x + 1) * BlockSize <= NumBlocks * BlockSize
  BY <1>1, <1>2, TimesGrow
<1>4. (x + 1) * BlockSize = x * BlockSize + BlockSize
  BY <1>1, BlocksFollow
<1>5. x * BlockSize \in Nat
  BY <1>1
<1> QED
  BY <1>1, <1>2, <1>3, <1>4, <1>5

LEMMA BlocksApart ==
  ASSUME NEW x \in Nat, NEW y \in Nat, x # y, NEW i \in 0 .. BlockSize - 1
  PROVE  (x * BlockSize + i) - y * BlockSize \notin 0 .. BlockSize - 1
<1>1. BlockSize \in Nat \ {0}
  BY CardAssumption
<1>2. CASE x + 1 <= y
  <2>1. (x + 1) * BlockSize <= y * BlockSize
    BY <1>1, <1>2, TimesGrow
  <2>2. (x + 1) * BlockSize = x * BlockSize + BlockSize
    BY <1>1, BlocksFollow
  <2> QED
    BY <1>1, <2>1, <2>2
<1>3. CASE y + 1 <= x
  <2>1. (y + 1) * BlockSize <= x * BlockSize
    BY <1>1, <1>3, TimesGrow
  <2>2. (y + 1) * BlockSize = y * BlockSize + BlockSize
    BY <1>1, BlocksFollow
  <2> QED
    BY <1>1, <2>1, <2>2
<1> QED
  BY <1>2, <1>3

-----------------------------------------------------------------------------
(* The parts of what the firmware does. *)
Values == 0 .. 255
Addresses == 0 .. MaxInt

(* The four bytes of an address are bytes, and the card reads it back from *)
(* them. *)
Split(a, x, d) == x \in Nat /\ d \in Values /\ x * 256 + d = a

LEMMA DigitIs ==
  ASSUME NEW a \in Nat
  PROVE  Split(a, Above(a), a % 256)
BY DEF Split, Values, Above

LEMMA SplitInFour ==
  ASSUME NEW a \in Addresses, NEW x, NEW y, NEW b, NEW c, NEW d, NEW e,
         Split(a, x, e), Split(x, y, d), Split(y, b, c)
  PROVE  b \in Values /\ ((b * 256 + c) * 256 + d) * 256 + e = a
<1>1. /\ x \in Nat /\ e \in Nat /\ x * 256 + e = a
      /\ y \in Nat /\ d \in Nat /\ y * 256 + d = x
      /\ b \in Nat /\ c \in Nat /\ b * 256 + c = y
  BY DEF Split, Values
<1>2. a \in Nat /\ a <= MaxInt
  BY DEF Addresses
<1>3. b <= 255
  BY <1>1, <1>2, SMT DEF MaxInt
<1> QED
  BY <1>1, <1>3 DEF Values

(* A command: six bytes and an answer. *)
IsCmd(P, n, arg, r) ==
  /\ Len(P) = 7
  /\ \A i \in 1 .. 6 : P[i].kind = "send" /\ P[i].val \in Values
  /\ P[1].val = 64 + n /\ P[7] = Reply(r)
  /\ ((P[2].val * 256 + P[3].val) * 256 + P[4].val) * 256 + P[5].val = arg

LEMMA CmdIs ==
  ASSUME NEW n \in 0 .. 63, NEW arg \in Addresses, NEW r \in Values
  PROVE  IsCmd(Cmd(n, arg, r), n, arg, r)
<1> PICK P : P = Cmd(n, arg, r)
  OBVIOUS
<1>1. PICK x : x = Above(arg)
  OBVIOUS
<1>2. PICK y : y = Above(x)
  OBVIOUS
<1>3. PICK b, c, d, e : b = Above(y) /\ c = y % 256 /\ d = x % 256 /\ e = arg % 256
  OBVIOUS
<1>4. /\ b \in Values /\ c \in Values /\ d \in Values /\ e \in Values
      /\ ((b * 256 + c) * 256 + d) * 256 + e = arg
  <2>1. arg \in Nat
    BY DEF Addresses
  <2>2. Split(arg, x, e) /\ x \in Nat
    BY <1>1, <1>3, <2>1, DigitIs DEF Split
  <2>3. Split(x, y, d) /\ y \in Nat
    BY <1>2, <1>3, <2>2, DigitIs DEF Split
  <2>4. Split(y, b, c)
    BY <1>3, <2>3, DigitIs
  <2>5. c \in Values /\ d \in Values /\ e \in Values
    BY <2>2, <2>3, <2>4 DEF Split
  <2> QED
    BY <2>2, <2>3, <2>4, <2>5, SplitInFour
<1>5. P = <<Send(64 + n), Send(b), Send(c), Send(d), Send(e), Send(Empty), Reply(r)>>
  <2>1. /\ b = Above(Above(Above(arg))) /\ c = Above(Above(arg)) % 256
        /\ d = Above(arg) % 256 /\ e = arg % 256
    BY <1>1, <1>2, <1>3, Zenon
  <2>2. P = <<Send(64 + n), Send(Above(Above(Above(arg)))), Send(Above(Above(arg)) % 256),
              Send(Above(arg) % 256), Send(arg % 256), Send(Empty), Reply(r)>>
    BY Zenon DEF Cmd
  <2> QED
    BY <2>1, <2>2, Zenon
<1>6. Len(P) = 7
  BY <1>5
<1>7. /\ P[1] = Send(64 + n) /\ P[2] = Send(b) /\ P[3] = Send(c) /\ P[4] = Send(d)
      /\ P[5] = Send(e) /\ P[6] = Send(Empty) /\ P[7] = Reply(r)
  BY <1>5
<1>8. \A v : Send(v).kind = "send" /\ Send(v).val = v
  BY DEF Send
<1>9. /\ P[1].val = 64 + n /\ P[2].val = b /\ P[3].val = c /\ P[4].val = d
      /\ P[5].val = e /\ P[6].val = Empty
  BY <1>7, <1>8
<1>10. 64 + n \in Values /\ Empty \in Values
  BY DEF Values, Empty
<1>11. ASSUME NEW i \in 1 .. 6
       PROVE  P[i].kind = "send" /\ P[i].val \in Values
  <2>1. i = 1 \/ i = 2 \/ i = 3 \/ i = 4 \/ i = 5 \/ i = 6
    OBVIOUS
  <2> QED
    BY <1>4, <1>7, <1>8, <1>9, <1>10, <2>1
<1> QED
  BY <1>4, <1>6, <1>7, <1>9, <1>11 DEF IsCmd

IsIncoming(P, n, cut) ==
  /\ Len(P) = n + 3 - cut
  /\ P[1] = Expect(StartToken)
  /\ \A i \in 2 .. n + 3 - cut :
       P[i].kind = IF i <= n + 1 THEN "collect" ELSE "skip"

LEMMA IncomingIs ==
  ASSUME NEW n \in Nat, NEW cut \in 0 .. n + 2
  PROVE  IsIncoming(Incoming(n, cut), n, cut)
BY DEF IsIncoming, Incoming, Collect, Skip

IsOutgoing(P, t, d) ==
  /\ Len(P) = BlockSize + 5
  /\ \A i \in 1 .. BlockSize + 3 : P[i].kind = "send" /\ P[i].val \in Values
  /\ P[1].val = t
  /\ \A i \in 2 .. BlockSize + 1 : P[i].val = d[i - 1]
  /\ P[BlockSize + 4] = Reply(Accepted)
  /\ P[BlockSize + 5] = Expect(Empty)

LEMMA OutgoingIs ==
  ASSUME NEW t \in Values, NEW d \in [1 .. BlockSize -> Values]
  PROVE  IsOutgoing(Outgoing(t, d), t, d)
<1> PICK P : P = Outgoing(t, d)
  OBVIOUS
<1>1. BlockSize \in Nat \ {0} /\ Empty \in Values
  BY CardAssumption DEF Empty, Values
<1>2. /\ Len(P) = BlockSize + 5
      /\ P[1] = Send(t)
      /\ \A i \in 2 .. BlockSize + 1 : P[i] = Send(d[i - 1])
      /\ \A i \in BlockSize + 2 .. BlockSize + 3 : P[i] = Send(Empty)
      /\ P[BlockSize + 4] = Reply(Accepted)
      /\ P[BlockSize + 5] = Expect(Empty)
  <2>1. Len(P) = BlockSize + 5 /\ P[1] = Send(t)
    BY <1>1 DEF Outgoing
  <2>2. ASSUME NEW i \in 2 .. BlockSize + 1
        PROVE  P[i] = Send(d[i - 1])
    <3>1. i \in 1 .. BlockSize + 5 /\ i # 1
      BY <1>1
    <3> QED
      BY <1>1, <3>1 DEF Outgoing
  <2>3. ASSUME NEW i \in BlockSize + 2 .. BlockSize + 3
        PROVE  P[i] = Send(Empty)
    <3>1. i \in 1 .. BlockSize + 5 /\ i # 1 /\ i \notin 2 .. BlockSize + 1
      BY <1>1
    <3> QED
      BY <1>1, <3>1 DEF Outgoing
  <2>4. P[BlockSize + 4] = Reply(Accepted)
    BY <1>1 DEF Outgoing
  <2>5. P[BlockSize + 5] = Expect(Empty)
    BY <1>1 DEF Outgoing
  <2> QED
    BY <2>1, <2>2, <2>3, <2>4, <2>5
<1>3. \A v : Send(v).kind = "send" /\ Send(v).val = v
  BY DEF Send
<1>4. \A i \in 2 .. BlockSize + 1 : P[i].kind = "send" /\ P[i].val = d[i - 1]
  BY <1>2, <1>3
<1>5. \A i \in 2 .. BlockSize + 1 : d[i - 1] \in Values
  BY <1>1
<1>6. P[1].kind = "send" /\ P[1].val = t
  BY <1>2, <1>3
<1>7. \A i \in BlockSize + 2 .. BlockSize + 3 : P[i].kind = "send" /\ P[i].val = Empty
  BY <1>2, <1>3
<1>8. \A i \in 1 .. BlockSize + 3 :
        \/ i = 1 \/ i \in 2 .. BlockSize + 1 \/ i \in BlockSize + 2 .. BlockSize + 3
  BY <1>1
<1>9. \A i \in 1 .. BlockSize + 3 : P[i].kind = "send" /\ P[i].val \in Values
  BY <1>1, <1>4, <1>5, <1>6, <1>7, <1>8
<1> QED
  BY <1>2, <1>4, <1>6, <1>9 DEF IsOutgoing

IsStop(P) ==
  /\ Len(P) = 8
  /\ \A i \in 1 .. 6 : P[i].kind = "send" /\ P[i].val \in Values
  /\ P[1].val = 76 /\ P[7] = Skip /\ P[8] = Reply(0)

LEMMA StopIs == IsStop(Stop)
<1> PICK P : P = Stop
  OBVIOUS
<1>1. /\ Len(P) = 8 /\ P[1] = Send(76)
      /\ P[2] = Send(0) /\ P[3] = Send(0) /\ P[4] = Send(0) /\ P[5] = Send(0)
      /\ P[6] = Send(Empty) /\ P[7] = Skip /\ P[8] = Reply(0)
  BY DEF Stop
<1>2. ASSUME NEW i \in 1 .. 6
      PROVE  P[i].kind = "send" /\ P[i].val \in Values
  <2>1. i = 1 \/ i = 2 \/ i = 3 \/ i = 4 \/ i = 5 \/ i = 6
    OBVIOUS
  <2>2. P[i] = Send(76) \/ P[i] = Send(0) \/ P[i] = Send(Empty)
    BY <1>1, <2>1
  <2> QED
    BY <2>2 DEF Send, Values, Empty
<1>3. P[1].val = 76
  BY <1>1 DEF Send
<1> QED
  BY <1>1, <1>2, <1>3 DEF IsStop

-----------------------------------------------------------------------------
(* What an incoming block looks like from its start token on, and what is  *)
(* left of it when the first k bytes have been read. *)
Frame(data) == <<StartToken>> \o data \o <<Empty, Empty>>
Left(data, k) == SubSeq(Frame(data), k + 1, Len(data) + 3)

LEMMA Joined ==
  ASSUME NEW S, NEW p \in Seq(S), NEW q \in Seq(S)
  PROVE  /\ p \o q \in Seq(S) /\ Len(p \o q) = Len(p) + Len(q)
         /\ \A i \in 1 .. Len(p) + Len(q) :
              (p \o q)[i] = IF i <= Len(p) THEN p[i] ELSE q[i - Len(p)]
<1>1. p \o q \in Seq(S)
  OBVIOUS
<1>2. Len(p \o q) = Len(p) + Len(q)
  OBVIOUS
<1>3. \A i \in 1 .. Len(p) + Len(q) :
        (p \o q)[i] = IF i <= Len(p) THEN p[i] ELSE q[i - Len(p)]
  OBVIOUS
<1> QED
  BY <1>1, <1>2, <1>3

LEMMA FrameIs ==
  ASSUME NEW data \in Seq(Values)
  PROVE  /\ Frame(data) \in Seq(Values) /\ Len(Frame(data)) = Len(data) + 3
         /\ Frame(data)[1] = StartToken
         /\ \A i \in 2 .. Len(data) + 1 : Frame(data)[i] = data[i - 1]
<1>1. PICK a, b : a = <<StartToken>> /\ b = <<Empty, Empty>>
  OBVIOUS
<1>2. /\ a \in Seq(Values) /\ Len(a) = 1 /\ a[1] = StartToken
      /\ b \in Seq(Values) /\ Len(b) = 2
  BY <1>1 DEF Values, StartToken, Empty
<1>3. Frame(data) = (a \o data) \o b
  BY <1>1 DEF Frame
<1>4. PICK x : x = a \o data
  OBVIOUS
<1>5. /\ x \in Seq(Values) /\ Len(x) = Len(data) + 1 /\ x[1] = StartToken
      /\ \A i \in 2 .. Len(data) + 1 : x[i] = data[i - 1]
  <2>1. x \in Seq(Values) /\ Len(x) = Len(a) + Len(data)
    BY <1>2, <1>4, Joined
  <2>2. \A i \in 1 .. Len(a) + Len(data) :
          x[i] = IF i <= Len(a) THEN a[i] ELSE data[i - Len(a)]
    BY <1>2, <1>4, Joined
  <2> QED
    BY <1>2, <2>1, <2>2
<1>6. Frame(data) = x \o b
  BY <1>3, <1>4
<1> HIDE <1>3, <1>4
<1>7. /\ x \o b \in Seq(Values) /\ Len(x \o b) = Len(x) + 2
      /\ \A i \in 1 .. Len(x) : (x \o b)[i] = x[i]
  <2>1. x \o b \in Seq(Values) /\ Len(x \o b) = Len(x) + Len(b)
    BY <1>2, <1>5, Joined
  <2>2. \A i \in 1 .. Len(x) : (x \o b)[i] = x[i]
    BY <1>2, <1>5, Joined
  <2> QED
    BY <1>2, <2>1, <2>2
<1>8. Len(data) \in Nat
  OBVIOUS
<1> QED
  BY <1>5, <1>6, <1>7, <1>8

LEMMA RestOf ==
  ASSUME NEW S, NEW f \in Seq(S), NEW k \in 1 .. Len(f), NEW n, n = Len(f)
  PROVE  /\ SubSeq(f, k, n) \in Seq(S) /\ SubSeq(f, k, n) # << >>
         /\ Head(SubSeq(f, k, n)) = f[k]
         /\ Tail(SubSeq(f, k, n)) = SubSeq(f, k + 1, n)
<1>1. n \in k .. Len(f)
  OBVIOUS
<1>2. SubSeq(f, k, n) \in Seq(S)
  OBVIOUS
<1>3. SubSeq(f, k, n) # << >>
  <2>1. Len(SubSeq(f, k, n)) = n - k + 1 /\ k \in Nat /\ n \in Nat /\ k <= n
    OBVIOUS
  <2>2. Len(SubSeq(f, k, n)) # 0
    BY <2>1
  <2> QED
    BY <2>2
<1>4. /\ Head(SubSeq(f, k, n)) = f[k]
      /\ Tail(SubSeq(f, k, n)) = SubSeq(f, k + 1, n)
  BY <1>1, HeadTailOfSubSeq
<1> QED
  BY <1>2, <1>3, <1>4

LEMMA LeftIs ==
  ASSUME NEW data \in Seq(Values), NEW k \in 0 .. Len(data) + 2
  PROVE  /\ Left(data, k) \in Seq(Values) /\ Left(data, k) # << >>
         /\ Head(Left(data, k)) = Frame(data)[k + 1]
         /\ Tail(Left(data, k)) = Left(data, k + 1)
<1>1. PICK f, n : f = Frame(data) /\ n = Len(data) + 3
  OBVIOUS
<1>2. f \in Seq(Values) /\ Len(f) = n /\ k + 1 \in 1 .. Len(f)
  BY <1>1, FrameIs
<1>3. Left(data, k) = SubSeq(f, k + 1, n) /\ Left(data, k + 1) = SubSeq(f, k + 1 + 1, n)
  BY <1>1 DEF Left
<1>4. PICK m : m = k + 1
  OBVIOUS
<1>5. /\ SubSeq(f, m, n) \in Seq(Values) /\ SubSeq(f, m, n) # << >>
      /\ Head(SubSeq(f, m, n)) = f[m]
      /\ Tail(SubSeq(f, m, n)) = SubSeq(f, m + 1, n)
  BY <1>2, <1>4, RestOf
<1> QED
  BY <1>1, <1>3, <1>4, <1>5, Zenon

LEMMA LeftEnds ==
  ASSUME NEW data \in Seq(Values)
  PROVE  Left(data, 0) = Frame(data) /\ Left(data, Len(data) + 3) = << >>
<1>1. PICK f, n : f = Frame(data) /\ n = Len(data) + 3
  OBVIOUS
<1>2. f \in Seq(Values) /\ Len(f) = n /\ n \in Nat
  BY <1>1, FrameIs
<1>3. Left(data, 0) = SubSeq(f, 1, n) /\ Left(data, n) = SubSeq(f, n + 1, n)
  BY <1>1 DEF Left
<1>4. SubSeq(f, 1, n) = f
  BY <1>2
<1>5. SubSeq(f, n + 1, n) = << >>
  BY <1>2
<1> QED
  BY <1>1, <1>3, <1>4, <1>5

LEMMA PutBefore ==
  ASSUME NEW v \in Values, NEW q \in Seq(Values)
  PROVE  /\ <<v>> \o q \in Seq(Values) /\ <<v>> \o q # << >>
         /\ Head(<<v>> \o q) = v /\ Tail(<<v>> \o q) = q
OBVIOUS

LEMMA Regrouped ==
  ASSUME NEW a \in Seq(Values), NEW b \in Seq(Values), NEW d \in Seq(Values)
  PROVE  (a \o b) \o d = a \o (b \o d)
BY ConcatAssociative, Z3

LEMMA PutTogether ==
  ASSUME NEW data \in Seq(Values)
  PROVE  /\ <<Empty, StartToken>> \o data \o <<Empty, Empty>> = <<Empty>> \o Frame(data)
         /\ \A v \in Values :
              <<v, StartToken>> \o data \o <<Empty, Empty>> = <<v>> \o Frame(data)
<1>1. ASSUME NEW v \in Values
      PROVE  <<v, StartToken>> \o data \o <<Empty, Empty>> = <<v>> \o Frame(data)
  <2>1. PICK a, b, c : a = <<v>> /\ b = <<StartToken>> /\ c = <<Empty, Empty>>
    OBVIOUS
  <2>2. a \in Seq(Values) /\ b \in Seq(Values) /\ c \in Seq(Values)
    BY <2>1 DEF Values, StartToken, Empty
  <2>3. <<v, StartToken>> = a \o b
    BY <2>1
  <2>4. PICK x : x = b \o data
    OBVIOUS
  <2>5. x \in Seq(Values)
    BY <2>2, <2>4, Joined
  <2>6. (a \o b) \o data = a \o x
    <3>1. (a \o b) \o data = a \o (b \o data)
      BY <2>2, Regrouped, Zenon
    <3> QED
      BY <2>4, <3>1, Zenon
  <2>7. (a \o x) \o c = a \o (x \o c)
    BY <2>2, <2>5, Regrouped
  <2> QED
    BY <2>1, <2>3, <2>4, <2>6, <2>7, Zenon DEF Frame
<1>2. Empty \in Values
  BY DEF Empty, Values
<1> QED
  BY <1>1, <1>2

-----------------------------------------------------------------------------
(* The card. *)
Cards ==
  [didWrite : BOOLEAN, idle : BOOLEAN, appCmd : BOOLEAN, multi : BOOLEAN,
   reading : BOOLEAN, writing : BOOLEAN, gotToken : BOOLEAN,
   readAddress : Nat, writeAddress : Nat, writeOffset : 0 .. BlockSize + 1,
   writeBuf : [0 .. BlockSize - 1 -> Values], cmd : Seq(Values),
   readQueue : Seq(Values), file : [0 .. FileSize - 1 -> Values]]

(* Two cards that differ only in what has to do with the port: the queue,  *)
(* the command being received and the next address to read from. *)
SameCard(d, c) ==
  /\ d.idle <=> c.idle
  /\ d.appCmd <=> c.appCmd
  /\ d.multi <=> c.multi
  /\ d.reading <=> c.reading
  /\ d.writing <=> c.writing
  /\ d.gotToken <=> c.gotToken
  /\ d.writeAddress = c.writeAddress
  /\ d.writeOffset = c.writeOffset
  /\ d.writeBuf = c.writeBuf
  /\ d.file = c.file

LEMMA BlockIs ==
  ASSUME NEW c \in Cards, NEW a \in Nat
  PROVE  /\ Block(c, a) \in Seq(Values) /\ Len(Block(c, a)) = BlockSize
         /\ a + BlockSize <= FileSize =>
              \A i \in 1 .. BlockSize : Block(c, a)[i] = c.file[a + i - 1]
<1>1. BlockSize \in Nat /\ FileSize \in Nat
  BY CardAssumption
<1>2. c.file \in [0 .. FileSize - 1 -> Values]
  BY DEF Cards
<1>3. ASSUME NEW i \in 1 .. BlockSize
      PROVE  ByteAt(c, a + i - 1) \in Values
  <2>1. PICK x : x = a + i - 1
    OBVIOUS
  <2>2. x \in Nat
    BY <1>1, <2>1
  <2>3. x < FileSize => c.file[x] \in Values
    BY <1>1, <1>2, <2>2
  <2> QED
    BY <2>1, <2>3 DEF ByteAt, Values
<1>4. Block(c, a) \in Seq(Values) /\ Len(Block(c, a)) = BlockSize
  BY <1>1, <1>3 DEF Block
<1>5. a + BlockSize <= FileSize =>
        \A i \in 1 .. BlockSize : ByteAt(c, a + i - 1) = c.file[a + i - 1]
  BY <1>1 DEF ByteAt
<1> QED
  BY <1>4, <1>5 DEF Block

LEMMA SameBlocks ==
  ASSUME NEW c, NEW d, d.file = c.file, NEW a
  PROVE  Block(d, a) = Block(c, a)
BY DEF Block, ByteAt

(* sendBlock, with what it puts behind the queue.                          *)
Sending(c) == <<Empty>> \o Frame(Block(c, c.readAddress))

LEMMA SendingIs ==
  ASSUME NEW c \in Cards
  PROVE  /\ Sending(c) \in Seq(Values) /\ Sending(c) # << >>
         /\ Head(Sending(c)) = Empty
         /\ Tail(Sending(c)) = Frame(Block(c, c.readAddress))
<1>1. Empty \in Values /\ c.readAddress \in Nat
  BY DEF Empty, Values, Cards
<1> QED
  BY <1>1, BlockIs, FrameIs, PutBefore DEF Sending

LEMMA sendBlockIs ==
  ASSUME NEW c \in Cards
  PROVE  /\ sendBlock(c) \in Cards /\ SameCard(sendBlock(c), c)
         /\ sendBlock(c).cmd = c.cmd
         /\ sendBlock(c).didWrite = c.didWrite
         /\ sendBlock(c).readQueue = c.readQueue \o Sending(c)
         /\ sendBlock(c).readAddress = c.readAddress + BlockSize
<1>1. BlockSize \in Nat
  BY CardAssumption
<1>2. PICK b, q : b = Sending(c) /\ q = c.readQueue \o b
  OBVIOUS
<1>3. <<Empty, StartToken>> \o Block(c, c.readAddress) \o <<Empty, Empty>> = b
  <2>1. Block(c, c.readAddress) \in Seq(Values)
    BY BlockIs DEF Cards
  <2> QED
    BY <1>2, <2>1, PutTogether DEF Sending
<1>4. b \in Seq(Values) /\ c.readQueue \in Seq(Values) /\ c.readAddress \in Nat
  BY <1>2, SendingIs DEF Cards
<1>5. q \in Seq(Values)
  BY <1>2, <1>4
<1>6. SentAgain(c) = [c EXCEPT !.readQueue = q]
  BY <1>2, <1>3 DEF SentAgain, Push
<1>7. sendBlock(c) = [[c EXCEPT !.readQueue = q] EXCEPT !.readAddress = @ + BlockSize]
  BY <1>6 DEF sendBlock
<1>8. PICK m : m = c.readAddress + BlockSize
  OBVIOUS
<1>9. m \in Nat
  BY <1>1, <1>4, <1>8
<1>10. sendBlock(c) = [[c EXCEPT !.readQueue = q] EXCEPT !.readAddress = m]
  BY <1>7, <1>8 DEF Cards
<1>11. PICK d : d = [[c EXCEPT !.readQueue = q] EXCEPT !.readAddress = m]
  OBVIOUS
<1>12. d \in Cards /\ SameCard(d, c) /\ d.cmd = c.cmd /\ d.didWrite = c.didWrite
       /\ d.readQueue = q /\ d.readAddress = m
  BY <1>5, <1>9, <1>11 DEF Cards, SameCard
<1> QED
  BY <1>2, <1>8, <1>10, <1>11, <1>12, Zenon

(* What the next byte is read from: the queue, or the block that is sent   *)
(* because it is empty. *)
OnDemand(c) == c.reading /\ c.multi /\ c.readQueue = << >>
Upcoming(c) == IF OnDemand(c) THEN Sending(c) ELSE c.readQueue
AddressThen(c) == IF OnDemand(c) THEN c.readAddress + BlockSize ELSE c.readAddress

LEMMA DemandIs ==
  ASSUME NEW c \in Cards
  PROVE  /\ SentOnDemand(c) \in Cards /\ SameCard(SentOnDemand(c), c)
         /\ SentOnDemand(c).cmd = c.cmd
         /\ SentOnDemand(c).readQueue = Upcoming(c)
         /\ SentOnDemand(c).readAddress = AddressThen(c)
<1>1. CASE OnDemand(c)
  <2>1. SentOnDemand(c) = sendBlock(c)
    BY <1>1 DEF SentOnDemand, OnDemand
  <2>2. c.readQueue = << >> /\ << >> \o Sending(c) = Sending(c)
    BY <1>1, SendingIs DEF OnDemand
  <2> QED
    BY <1>1, <2>1, <2>2, sendBlockIs DEF Upcoming, AddressThen
<1>2. CASE ~OnDemand(c)
  <2>1. SentOnDemand(c) = c
    BY <1>2 DEF SentOnDemand, OnDemand
  <2> QED
    BY <1>2, <2>1 DEF Upcoming, AddressThen, SameCard
<1> QED
  BY <1>1, <1>2

-----------------------------------------------------------------------------
(* Bytes that the card only takes note of, and the clock. *)
Passed(d, c) ==
  /\ d \in Cards /\ SameCard(d, c)
  /\ d.readQueue = Upcoming(c) /\ d.readAddress = AddressThen(c)

LEMMA Demanded ==
  ASSUME NEW c \in Cards, NEW t \in Cards, SameCard(t, c),
         t.readQueue = c.readQueue, t.readAddress = c.readAddress,
         NEW d, d = SentOnDemand(t)
  PROVE  Passed(d, c) /\ d.cmd = t.cmd
<1>1. /\ d \in Cards /\ SameCard(d, t) /\ d.cmd = t.cmd
      /\ d.readQueue = Upcoming(t) /\ d.readAddress = AddressThen(t)
  BY DemandIs
<1>2. Block(t, t.readAddress) = Block(c, c.readAddress)
  BY SameBlocks DEF SameCard
<1>3. OnDemand(t) <=> OnDemand(c)
  BY DEF OnDemand, SameCard
<1>4. Upcoming(t) = Upcoming(c) /\ AddressThen(t) = AddressThen(c)
  BY <1>2, <1>3 DEF Upcoming, AddressThen, Sending
<1>5. SameCard(d, c)
  BY <1>1 DEF SameCard
<1> QED
  BY <1>1, <1>4, <1>5 DEF Passed

Noted(c, q) == [[c EXCEPT !.didWrite = TRUE] EXCEPT !.cmd = q]

LEMMA NotedIs ==
  ASSUME NEW c \in Cards, NEW q \in Seq(Values)
  PROVE  /\ Noted(c, q) \in Cards /\ SameCard(Noted(c, q), c)
         /\ Noted(c, q).cmd = q /\ Noted(c, q).readQueue = c.readQueue
         /\ Noted(c, q).readAddress = c.readAddress
<1>1. PICK u : u = [c EXCEPT !.didWrite = TRUE]
  OBVIOUS
<1>2. PICK t : t = [u EXCEPT !.cmd = q]
  OBVIOUS
<1>3. Noted(c, q) = t
  BY <1>1, <1>2 DEF Noted
<1>4. u \in Cards /\ SameCard(u, c) /\ u.readQueue = c.readQueue
      /\ u.readAddress = c.readAddress
  BY <1>1 DEF Cards, SameCard
<1>5. t \in Cards /\ SameCard(t, u) /\ t.cmd = q /\ t.readQueue = u.readQueue
      /\ t.readAddress = u.readAddress
  BY <1>2, <1>4 DEF Cards, SameCard
<1>6. SameCard(t, c)
  BY <1>4, <1>5 DEF SameCard
<1> QED
  BY <1>3, <1>4, <1>5, <1>6

(* Sequence a is q, of length n, and v behind it. *)
Longer(a, q, n, v) ==
  /\ Len(a) = n + 1 /\ a[n + 1] = v
  /\ \A i \in 1 .. n : a[i] = q[i]

LEMMA AppendedIs ==
  ASSUME NEW S, NEW q \in Seq(S), NEW v \in S
  PROVE  Append(q, v) \in Seq(S) /\ Longer(Append(q, v), q, Len(q), v)
BY DEF Longer

(* The bytes of a command: the first of them says that it is one. *)
Began(c, val) ==
  IF c.cmd = << >> THEN ~c.writing /\ val \in 64 .. 127 ELSE Len(c.cmd) < 6

LEMMA NotedByte ==
  ASSUME NEW c \in Cards, NEW val \in Values, Began(c, val), Len(c.cmd) # 5,
         NEW d, d = Write(c, val)
  PROVE  Passed(d, c) /\ d.cmd = Append(c.cmd, val)
<1>1. PICK q : q = Append(c.cmd, val)
  OBVIOUS
<1>2. c.cmd \in Seq(Values)
  BY DEF Cards
<1>3. q \in Seq(Values) /\ Len(q) = Len(c.cmd) + 1 /\ Len(c.cmd) \in Nat
  BY <1>1, <1>2, AppendedIs DEF Longer
<1>4. PICK u : u = [c EXCEPT !.didWrite = TRUE]
  OBVIOUS
<1>5. /\ u \in Cards /\ u.cmd = c.cmd /\ (u.writing <=> c.writing)
  BY <1>4 DEF Cards
<1>6. PICK t : t = [u EXCEPT !.cmd = q]
  OBVIOUS
<1>7. /\ t \in Cards /\ SameCard(t, c) /\ t.cmd = q
      /\ t.readQueue = c.readQueue /\ t.readAddress = c.readAddress
  <2>1. t = Noted(c, q)
    BY <1>4, <1>6 DEF Noted
  <2> QED
    BY <1>3, <2>1, NotedIs
<1>8. Taken(u, val) = t
  <2>1. CASE c.cmd = << >>
    <3>1. q = <<val>>
      BY <1>1, <2>1
    <3> QED
      BY <1>5, <1>6, <2>1, <3>1 DEF Taken, Began
  <2>2. CASE c.cmd # << >>
    <3>1. [u EXCEPT !.cmd = Append(@, val)] = t
      BY <1>1, <1>5, <1>6 DEF Cards
    <3>2. Len(q) # 6
      <4>1. PICK n, k : n = Len(q) /\ k = Len(c.cmd)
        OBVIOUS
      <4>2. n = k + 1 /\ k \in Nat /\ k # 5
        BY <1>3, <4>1
      <4>3. n # 6
        BY <4>2
      <4> QED
        BY <4>1, <4>3
    <3> QED
      BY <1>5, <1>7, <2>2, <3>1, <3>2 DEF Taken, CommandByte
  <2> QED
    BY <2>1, <2>2
<1>9. d = SentOnDemand(t)
  BY <1>4, <1>8 DEF Write
<1> QED
  BY <1>1, <1>7, <1>9, Demanded

(* A command with all its bytes, before it is executed. *)
Given(m, c) ==
  /\ m \in Cards /\ SameCard(m, c)
  /\ m.readQueue = c.readQueue /\ m.readAddress = c.readAddress

LEMMA SixthByte ==
  ASSUME NEW c \in Cards, NEW val \in Values, Len(c.cmd) = 5
  PROVE  \E m : /\ Given(m, c) /\ m.cmd = Append(c.cmd, val)
                /\ Write(c, val) = SentOnDemand(Executed(m))
<1>1. PICK q : q = Append(c.cmd, val)
  OBVIOUS
<1>2. c.cmd \in Seq(Values)
  BY DEF Cards
<1>3. q \in Seq(Values) /\ Len(q) = 6
  <2>1. q \in Seq(Values) /\ Longer(q, c.cmd, 5, val)
    BY <1>1, <1>2, AppendedIs
  <2> QED
    BY <2>1 DEF Longer
<1>4. PICK u : u = [c EXCEPT !.didWrite = TRUE]
  OBVIOUS
<1>5. u \in Cards /\ u.cmd = c.cmd
  BY <1>4 DEF Cards
<1>6. PICK m : m = [u EXCEPT !.cmd = q]
  OBVIOUS
<1>7. Given(m, c) /\ m.cmd = q
  <2>1. /\ m \in Cards /\ SameCard(m, c) /\ m.cmd = q
        /\ m.readQueue = c.readQueue /\ m.readAddress = c.readAddress
    <3>1. m = Noted(c, q)
      BY <1>4, <1>6 DEF Noted
    <3> QED
      BY <1>3, <3>1, NotedIs
  <2> QED
    BY <2>1 DEF Given
<1>8. [u EXCEPT !.cmd = Append(@, val)] = m
  BY <1>1, <1>5, <1>6 DEF Cards
<1>9. c.cmd # << >>
  BY <1>2
<1>10. Taken(u, val) = Executed(m)
  BY <1>3, <1>5, <1>7, <1>8, <1>9 DEF Taken, CommandByte
<1> QED
  BY <1>1, <1>4, <1>7, <1>10 DEF Write

(* A byte clocked in: the first of what is upcoming. *)
Clocks(c) == Read(Write(c, Empty))
Comes(c) == Answer(Write(c, Empty))

LEMMA ClockIs ==
  ASSUME NEW c \in Cards, c.cmd = << >>, ~(c.writing /\ c.gotToken),
         NEW d, d = Clocks(c)
  PROVE  /\ d \in Cards /\ SameCard(d, c) /\ d.cmd = << >>
         /\ d.readAddress = AddressThen(c)
         /\ Upcoming(c) = << >> => d.readQueue = << >> /\ Comes(c) = Empty
         /\ Upcoming(c) # << >> =>
              d.readQueue = Tail(Upcoming(c)) /\ Comes(c) = Head(Upcoming(c))
<1>1. PICK t : t = [c EXCEPT !.didWrite = TRUE]
  OBVIOUS
<1>2. /\ t \in Cards /\ SameCard(t, c) /\ t.cmd = << >>
      /\ t.readQueue = c.readQueue /\ t.readAddress = c.readAddress
  BY <1>1 DEF Cards, SameCard
<1>3. Taken(t, Empty) = t
  <2>1. CASE c.writing
    <3>1. WriteByte(t, Empty) = t
      BY <1>2, <2>1 DEF WriteByte, SameCard, Empty, MultiToken, StartToken, StopToken
    <3> QED
      BY <1>2, <2>1, <3>1 DEF Taken, SameCard
  <2>2. CASE ~c.writing
    BY <1>2, <2>2 DEF Taken, SameCard, Empty
  <2> QED
    BY <2>1, <2>2
<1>4. PICK e : e = SentOnDemand(t)
  OBVIOUS
<1>5. Write(c, Empty) = e
  BY <1>1, <1>3, <1>4 DEF Write
<1>6. Passed(e, c) /\ e.cmd = << >>
  BY <1>2, <1>4, Demanded
<1>7. d = Read(e) /\ Comes(c) = Answer(e)
  BY <1>5 DEF Clocks, Comes
<1>8. PICK q : q = IF e.readQueue = << >> THEN e.readQueue ELSE Tail(e.readQueue)
  OBVIOUS
<1>9. e \in Cards /\ e.readQueue = Upcoming(c)
  BY <1>6 DEF Passed
<1>10. q \in Seq(Values)
  BY <1>8, <1>9 DEF Cards
<1>11. d = [[e EXCEPT !.didWrite = FALSE] EXCEPT !.readQueue = q]
  <2>1. d = [[e EXCEPT !.didWrite = FALSE] EXCEPT
               !.readQueue = IF @ = << >> THEN @ ELSE Tail(@)]
    BY <1>7 DEF Read
  <2> QED
    BY <1>8, <1>9, <2>1 DEF Cards
<1>12. /\ d \in Cards /\ SameCard(d, e) /\ d.cmd = e.cmd
       /\ d.readAddress = e.readAddress /\ d.readQueue = q
  BY <1>9, <1>10, <1>11 DEF Cards, SameCard
<1>13. SameCard(d, c)
  BY <1>6, <1>12 DEF Passed, SameCard
<1>14. /\ Upcoming(c) = << >> => q = << >> /\ Comes(c) = Empty
       /\ Upcoming(c) # << >> => q = Tail(Upcoming(c)) /\ Comes(c) = Head(Upcoming(c))
  BY <1>7, <1>8, <1>9 DEF Answer
<1> QED
  BY <1>6, <1>12, <1>13, <1>14 DEF Passed

-----------------------------------------------------------------------------
(* Commands executed. *)
Calm(c) == ~c.reading /\ ~c.writing /\ ~c.multi

LEMMA PushIs ==
  ASSUME NEW x \in Cards, NEW q \in Seq(Values), x.readQueue = << >>
  PROVE  /\ Push(x, q) \in Cards /\ SameCard(Push(x, q), x)
         /\ Push(x, q).readQueue = q /\ Push(x, q).readAddress = x.readAddress
<1>1. << >> \o q = q
  OBVIOUS
<1>2. Push(x, q) = [x EXCEPT !.readQueue = q]
  BY <1>1 DEF Push, Cards
<1>3. PICK d : d = [x EXCEPT !.readQueue = q]
  OBVIOUS
<1>4. d \in Cards /\ SameCard(d, x) /\ d.readQueue = q /\ d.readAddress = x.readAddress
  BY <1>3 DEF Cards, SameCard
<1> QED
  BY <1>2, <1>3, <1>4

(* What is left of card x when its command has been forgotten. *)
Forgot(d, x) ==
  /\ d \in Cards /\ SameCard(d, x) /\ d.cmd = << >>
  /\ d.readQueue = x.readQueue /\ d.readAddress = x.readAddress

Effect(m) ==
  LET n == m.cmd[1] % 64
  IN  IF m.appCmd THEN AppCommand(m, n) ELSE Command(m, n, Arg(m.cmd))

LEMMA ForgotIs ==
  ASSUME NEW m, Effect(m) \in Cards, Effect(m).readQueue # << >>
  PROVE  Forgot(SentOnDemand(Executed(m)), Effect(m))
<1>1. PICK x : x = Effect(m)
  OBVIOUS
<1>2. PICK e : e = [x EXCEPT !.cmd = << >>]
  OBVIOUS
<1>3. Executed(m) = e
  BY <1>1, <1>2 DEF Executed, Effect
<1>4. << >> \in Seq(Values)
  OBVIOUS
<1>5. /\ e \in Cards /\ SameCard(e, x) /\ e.cmd = << >>
      /\ e.readQueue = x.readQueue /\ e.readAddress = x.readAddress
  BY <1>1, <1>2, <1>4 DEF Cards, SameCard
<1>6. SentOnDemand(e) = e
  BY <1>1, <1>5 DEF SentOnDemand
<1> QED
  BY <1>1, <1>3, <1>5, <1>6 DEF Forgot

LEMMA ShortIs ==
  ASSUME NEW v \in Values
  PROVE  <<v>> \in Seq(Values) /\ <<v>> # << >>
OBVIOUS

Still(m) == m \in Cards /\ Calm(m) /\ m.readQueue = << >>

(* A command that answers with bytes q and changes only idle and appCmd.   *)
Answers(d, m, q, idle, app) ==
  /\ d \in Cards /\ Calm(d) /\ d.cmd = << >> /\ d.readQueue = q
  /\ (d.idle <=> idle) /\ (d.appCmd <=> app) /\ d.file = m.file

LEMMA AnswersIs ==
  ASSUME NEW m, NEW y \in Cards, NEW q \in Seq(Values), q # << >>,
         Still(y), y.file = m.file, Effect(m) = Push(y, q),
         NEW d, d = SentOnDemand(Executed(m))
  PROVE  Answers(d, m, q, y.idle, y.appCmd)
<1>1. PICK x : x = Push(y, q)
  OBVIOUS
<1>2. x \in Cards /\ SameCard(x, y) /\ x.readQueue = q
  BY <1>1, PushIs DEF Still
<1>3. Forgot(d, x)
  BY <1>1, <1>2, ForgotIs
<1> QED
  BY <1>2, <1>3 DEF Forgot, SameCard, Answers, Calm, Still

LEMMA ResetAnswer ==  \* CMD0
  ASSUME NEW m, Still(m), m.cmd[1] = 64, ~m.appCmd
  PROVE  Answers(SentOnDemand(Executed(m)), m, <<1>>, TRUE, FALSE)
<1>1. PICK y : y = [m EXCEPT !.idle = TRUE]
  OBVIOUS
<1>2. /\ y \in Cards /\ Still(y) /\ y.file = m.file
      /\ y.idle = TRUE /\ (y.appCmd <=> FALSE)
  BY <1>1 DEF Still, Cards, Calm
<1>3. Effect(m) = Push(y, <<1>>)
  <2>1. m.cmd[1] % 64 = 0
    OBVIOUS
  <2>2. Command(m, 0, Arg(m.cmd)) = Push(y, <<1>>)
    BY <1>1 DEF Command
  <2> QED
    BY <2>1, <2>2 DEF Effect
<1>4. 1 \in Values
  BY DEF Values
<1>5. Answers(SentOnDemand(Executed(m)), m, <<1>>, y.idle, y.appCmd)
  BY <1>2, <1>3, <1>4, AnswersIs, ShortIs DEF Still
<1> QED
  BY <1>2, <1>5 DEF Answers

LEMMA UnknownAnswer ==  \* CMD8
  ASSUME NEW m, Still(m), m.cmd[1] = 72, ~m.appCmd, m.idle
  PROVE  Answers(SentOnDemand(Executed(m)), m, <<5>>, TRUE, FALSE)
<1>1. Effect(m) = Push(m, <<5>>)
  <2>1. m.cmd[1] % 64 = 8
    OBVIOUS
  <2>2. Command(m, 8, Arg(m.cmd)) = Push(m, <<5>>)
    BY DEF Command, R1
  <2> QED
    BY <2>1, <2>2 DEF Effect
<1>2. 5 \in Values
  BY DEF Values
<1>3. Answers(SentOnDemand(Executed(m)), m, <<5>>, m.idle, m.appCmd)
  BY <1>1, <1>2, AnswersIs, ShortIs DEF Still
<1> QED
  BY <1>3 DEF Answers

LEMMA AppAnswer ==  \* CMD55
  ASSUME NEW m, Still(m), m.cmd[1] = 119, ~m.appCmd, m.idle
  PROVE  Answers(SentOnDemand(Executed(m)), m, <<1>>, TRUE, TRUE)
<1>1. PICK y : y = [m EXCEPT !.appCmd = TRUE]
  OBVIOUS
<1>2. /\ y \in Cards /\ Still(y) /\ y.file = m.file
      /\ (y.idle <=> TRUE) /\ y.appCmd = TRUE
  BY <1>1 DEF Still, Cards, Calm
<1>3. Effect(m) = Push(y, <<1>>)
  <2>1. m.cmd[1] % 64 = 55
    OBVIOUS
  <2>2. Command(m, 55, Arg(m.cmd)) = Push(y, <<1>>)
    BY <1>1 DEF Command, R1
  <2> QED
    BY <2>1, <2>2 DEF Effect
<1>4. 1 \in Values
  BY DEF Values
<1>5. Answers(SentOnDemand(Executed(m)), m, <<1>>, y.idle, y.appCmd)
  BY <1>2, <1>3, <1>4, AnswersIs, ShortIs DEF Still
<1> QED
  BY <1>2, <1>5 DEF Answers

LEMMA OperatingAnswer ==  \* ACMD41
  ASSUME NEW m, Still(m), m.cmd[1] = 105, m.appCmd
  PROVE  Answers(SentOnDemand(Executed(m)), m, <<0>>, FALSE, FALSE)
<1>1. PICK y : y = [[m EXCEPT !.appCmd = FALSE] EXCEPT !.idle = FALSE]
  OBVIOUS
<1>2. /\ y \in Cards /\ Still(y) /\ y.file = m.file
      /\ y.idle = FALSE /\ y.appCmd = FALSE
  BY <1>1 DEF Still, Cards, Calm
<1>3. Effect(m) = Push(y, <<0>>)
  <2>1. m.cmd[1] % 64 = 41
    OBVIOUS
  <2>2. AppCommand(m, 41) = Push(y, <<0>>)
    BY <1>1 DEF AppCommand
  <2> QED
    BY <2>1, <2>2 DEF Effect
<1>4. 0 \in Values
  BY DEF Values
<1>5. Answers(SentOnDemand(Executed(m)), m, <<0>>, y.idle, y.appCmd)
  BY <1>2, <1>3, <1>4, AnswersIs, ShortIs DEF Still
<1> QED
  BY <1>2, <1>5 DEF Answers

LEMMA RegisterAnswer ==  \* CMD9
  ASSUME NEW m, Still(m), m.cmd[1] = 73, ~m.appCmd, ~m.idle
  PROVE  Answers(SentOnDemand(Executed(m)), m, <<0>> \o Frame(Register), FALSE, FALSE)
<1>1. PICK q : q = <<0>> \o Frame(Register)
  OBVIOUS
<1>2. 0 \in Values /\ Register \in Seq(Values)
  BY CardAssumption DEF Values
<1>3. <<0, StartToken>> \o Register \o <<Empty, Empty>> = q
  BY <1>1, <1>2, PutTogether
<1>4. q \in Seq(Values) /\ q # << >>
  BY <1>1, <1>2, FrameIs, PutBefore
<1>5. Effect(m) = Push(m, q)
  <2>1. m.cmd[1] % 64 = 9
    OBVIOUS
  <2>2. Command(m, 9, Arg(m.cmd)) = Push(m, q)
    <3>1. R1(m) = 0
      BY DEF R1
    <3>2. Command(m, 9, Arg(m.cmd)) =
            Push(m, <<R1(m), StartToken>> \o Register \o <<Empty, Empty>>)
      BY DEF Command
    <3> QED
      BY <1>3, <3>1, <3>2
  <2> QED
    BY <2>1, <2>2 DEF Effect
<1>6. Answers(SentOnDemand(Executed(m)), m, q, m.idle, m.appCmd)
  BY <1>4, <1>5, AnswersIs DEF Still
<1> QED
  BY <1>1, <1>6 DEF Answers

(* CMD17 and CMD18. *)
LEMMA ReadingAnswer ==
  ASSUME NEW m, Still(m), ~m.appCmd, NEW many \in BOOLEAN, NEW arg \in Nat,
         m.cmd[1] = IF many THEN 82 ELSE 81, Arg(m.cmd) = arg,
         NEW d, d = SentOnDemand(Executed(m))
  PROVE  /\ d \in Cards /\ d.cmd = << >>
         /\ d.readQueue = <<0>> \o (<<Empty>> \o Frame(Block(m, arg)))
         /\ d.readAddress = arg + BlockSize
         /\ (d.reading <=> many) /\ (d.multi <=> many) /\ ~d.writing
         /\ d.file = m.file /\ (d.idle <=> m.idle) /\ ~d.appCmd
<1>1. PICK x : x = Push(m, <<0>>)
  OBVIOUS
<1>2. x \in Cards /\ SameCard(x, m) /\ x.readQueue = <<0>>
  <2>1. 0 \in Values
    BY DEF Values
  <2> QED
    BY <1>1, <2>1, PushIs, ShortIs DEF Still
<1>3. PICK z : z = [x EXCEPT !.readAddress = arg]
  OBVIOUS
<1>4. /\ z \in Cards /\ SameCard(z, x) /\ z.readQueue = <<0>> /\ z.readAddress = arg
  BY <1>2, <1>3 DEF Cards, SameCard
<1>5. PICK y : y = IF many THEN [z EXCEPT !.reading = TRUE, !.multi = TRUE] ELSE z
  OBVIOUS
<1>6. /\ y \in Cards /\ y.readQueue = <<0>> /\ y.readAddress = arg
      /\ (y.reading <=> many) /\ (y.multi <=> many) /\ ~y.writing
      /\ y.file = m.file /\ (y.idle <=> m.idle) /\ ~y.appCmd
  <2>1. ~z.reading /\ ~z.multi /\ ~z.writing /\ z.file = m.file /\ (z.idle <=> m.idle)
        /\ ~z.appCmd
    BY <1>2, <1>4 DEF Still, Calm, SameCard
  <2>2. CASE many
    <3>1. y = [z EXCEPT !.reading = TRUE, !.multi = TRUE]
      BY <1>5, <2>2
    <3> QED
      BY <1>4, <2>1, <2>2, <3>1 DEF Cards
  <2>3. CASE ~many
    BY <1>4, <1>5, <2>1, <2>3
  <2> QED
    BY <2>2, <2>3
<1>7. PICK s : s = sendBlock(y)
  OBVIOUS
<1>8. /\ s \in Cards /\ SameCard(s, y) /\ s.readAddress = arg + BlockSize
      /\ s.readQueue = <<0>> \o Sending(y)
  BY <1>6, <1>7, sendBlockIs
<1>9. Sending(y) = <<Empty>> \o Frame(Block(m, arg))
  BY <1>6, SameBlocks DEF Sending
<1>10. s.readQueue # << >>
  <2>1. 0 \in Values /\ Sending(y) \in Seq(Values)
    BY <1>6, SendingIs DEF Values
  <2> QED
    BY <1>8, <2>1, PutBefore
<1>11. Effect(m) = s
  <2>1. ReadingFrom(m, arg) = z
    BY <1>1, <1>3 DEF ReadingFrom
  <2>2. CASE many
    <3>1. m.cmd[1] % 64 = 18
      BY <2>2
    <3>2. Command(m, 18, arg) = s
      BY <1>5, <1>7, <2>1, <2>2 DEF Command
    <3> QED
      BY <3>1, <3>2 DEF Effect
  <2>3. CASE ~many
    <3>1. m.cmd[1] % 64 = 17
      BY <2>3
    <3>2. Command(m, 17, arg) = s
      BY <1>5, <1>7, <2>1, <2>3 DEF Command
    <3> QED
      BY <3>1, <3>2 DEF Effect
  <2> QED
    BY <2>2, <2>3
<1>12. Forgot(d, s)
  BY <1>8, <1>10, <1>11, ForgotIs
<1> QED
  BY <1>6, <1>8, <1>9, <1>12 DEF Forgot, SameCard

(* CMD24 and CMD25. *)
LEMMA WritingAnswer ==
  ASSUME NEW m, Still(m), ~m.appCmd, NEW many \in BOOLEAN, NEW arg \in Nat,
         m.cmd[1] = IF many THEN 89 ELSE 88, Arg(m.cmd) = arg,
         NEW d, d = SentOnDemand(Executed(m))
  PROVE  /\ d \in Cards /\ d.cmd = << >> /\ d.readQueue = <<0>>
         /\ d.writeAddress = arg /\ d.writeOffset = 0 /\ ~d.gotToken
         /\ d.writing /\ (d.multi <=> many) /\ ~d.reading
         /\ d.file = m.file /\ (d.idle <=> m.idle) /\ ~d.appCmd
<1>1. PICK x : x = Push(m, <<0>>)
  OBVIOUS
<1>2. /\ x \in Cards /\ x.readQueue = <<0>> /\ ~x.reading /\ ~x.multi
      /\ x.file = m.file /\ (x.idle <=> m.idle) /\ ~x.appCmd
  <2>1. 0 \in Values
    BY DEF Values
  <2>2. x \in Cards /\ SameCard(x, m) /\ x.readQueue = <<0>>
    BY <1>1, <2>1, PushIs, ShortIs DEF Still
  <2> QED
    BY <2>2 DEF SameCard, Still, Calm
<1>3. PICK u : u = [x EXCEPT !.writing = TRUE, !.multi = many, !.gotToken = FALSE]
  OBVIOUS
<1>4. PICK s : s = [u EXCEPT !.writeAddress = arg, !.writeOffset = 0]
  OBVIOUS
<1>5. /\ s \in Cards /\ s.readQueue = <<0>>
      /\ s.writeAddress = arg /\ s.writeOffset = 0 /\ ~s.gotToken
      /\ s.writing /\ (s.multi <=> many) /\ ~s.reading
      /\ s.file = m.file /\ (s.idle <=> m.idle) /\ ~s.appCmd
  <2>1. u \in Cards
    BY <1>2, <1>3 DEF Cards
  <2>2. /\ u.readQueue = <<0>> /\ ~u.gotToken /\ u.writing /\ (u.multi <=> many)
        /\ ~u.reading /\ u.file = m.file /\ (u.idle <=> m.idle) /\ ~u.appCmd
    BY <1>2, <1>3 DEF Cards
  <2>3. 0 \in 0 .. BlockSize + 1 /\ arg \in Nat
    BY CardAssumption
  <2>4. s \in Cards
    BY <1>4, <2>1, <2>3 DEF Cards
  <2>5. s.writeAddress = arg /\ s.writeOffset = 0
    BY <1>4, <2>1 DEF Cards
  <2>6. /\ s.readQueue = u.readQueue /\ s.gotToken = u.gotToken
        /\ s.writing = u.writing /\ s.multi = u.multi /\ s.reading = u.reading
        /\ s.file = u.file /\ s.idle = u.idle /\ s.appCmd = u.appCmd
    BY <1>4, <2>1 DEF Cards
  <2> QED
    BY <2>2, <2>4, <2>5, <2>6
<1>6. WritingFrom(m, arg, many) = s
  <2>1. (x.multi \/ many) = many
    BY <1>2
  <2>2. WritingFrom(m, arg, many) =
          [x EXCEPT !.writeAddress = arg, !.writing = TRUE, !.multi = @ \/ many,
                    !.gotToken = FALSE, !.writeOffset = 0]
    BY <1>1 DEF WritingFrom
  <2>3. s = [x EXCEPT !.writeAddress = arg, !.writing = TRUE, !.multi = many,
                      !.gotToken = FALSE, !.writeOffset = 0]
    BY <1>2, <1>3, <1>4 DEF Cards
  <2> QED
    BY <2>1, <2>2, <2>3
<1>7. Effect(m) = s
  <2>1. CASE many
    <3>1. m.cmd[1] % 64 = 25 /\ many = TRUE
      BY <2>1
    <3>2. Command(m, 25, arg) = WritingFrom(m, arg, 25 = 25)
      BY DEF Command
    <3> QED
      BY <1>6, <3>1, <3>2 DEF Effect
  <2>2. CASE ~many
    <3>1. m.cmd[1] % 64 = 24 /\ many = FALSE
      BY <2>2
    <3>2. Command(m, 24, arg) = WritingFrom(m, arg, 24 = 25)
      BY DEF Command
    <3> QED
      BY <1>6, <3>1, <3>2 DEF Effect
  <2> QED
    BY <2>1, <2>2
<1>8. Forgot(d, s)
  <2>1. 0 \in Values
    BY DEF Values
  <2>2. Effect(m) \in Cards /\ Effect(m).readQueue # << >>
    BY <1>5, <1>7, <2>1, ShortIs
  <2> QED
    BY <1>7, <2>2, ForgotIs
<1> QED
  BY <1>5, <1>8 DEF Forgot, SameCard

(* CMD12. *)
LEMMA StopAnswer ==
  ASSUME NEW m \in Cards, ~m.appCmd, m.cmd[1] = 76
  PROVE  Answers(SentOnDemand(Executed(m)), m, <<Empty, 0>>, m.idle, FALSE)
<1>1. PICK q : q = <<Empty, 0>>
  OBVIOUS
<1>2. q \in Seq(Values) /\ q # << >>
  BY <1>1 DEF Values, Empty
<1>3. PICK s : s = [m EXCEPT !.reading = FALSE, !.writing = FALSE, !.multi = FALSE,
                             !.readQueue = q]
  OBVIOUS
<1>4. /\ s \in Cards /\ Calm(s) /\ s.readQueue = q
      /\ s.file = m.file /\ (s.idle <=> m.idle) /\ ~s.appCmd
  BY <1>2, <1>3 DEF Cards, Calm
<1>5. Effect(m) = s
  <2>1. m.cmd[1] % 64 = 12
    OBVIOUS
  <2>2. Command(m, 12, Arg(m.cmd)) = s
    BY <1>1, <1>3 DEF Command, Stopped
  <2> QED
    BY <2>1, <2>2 DEF Effect
<1>6. PICK d : d = SentOnDemand(Executed(m))
  OBVIOUS
<1>7. Forgot(d, s)
  BY <1>2, <1>4, <1>5, <1>6, ForgotIs
<1> QED
  BY <1>1, <1>4, <1>6, <1>7 DEF Forgot, SameCard, Answers, Calm

-----------------------------------------------------------------------------
(* The steps of a command.  Sent: the first k - 1 bytes have been sent.    *)
Sent(c, P, k) == Len(c.cmd) = k - 1 /\ \A i \in 1 .. k - 1 : c.cmd[i] = P[i].val

LEMMA CommandGoesOn ==
  ASSUME NEW c \in Cards, NEW P, NEW k \in 1 .. 5, Sent(c, P, k),
         P[k].val \in Values, P[1].val \in 64 .. 127, ~c.writing,
         NEW d, d = Write(c, P[k].val)
  PROVE  Passed(d, c) /\ Sent(d, P, k + 1)
<1>1. PICK v, q, n : v = P[k].val /\ q = c.cmd /\ n = Len(q)
  OBVIOUS
<1>2. v \in Values /\ q \in Seq(Values) /\ n = k - 1
  BY <1>1 DEF Cards, Sent
<1>3. Began(c, v) /\ Len(c.cmd) # 5
  <2>1. n # 5 /\ n < 6
    BY <1>2
  <2>2. q = << >> => n = 0
    BY <1>1
  <2>3. q = << >> => v \in 64 .. 127
    <3>1. n = 0 => k = 1
      BY <1>2
    <3> QED
      BY <1>1, <2>2, <3>1
  <2> QED
    BY <1>1, <2>1, <2>3 DEF Began
<1>4. Passed(d, c) /\ d.cmd = Append(q, v)
  BY <1>1, <1>2, <1>3, NotedByte
<1>5. /\ Len(d.cmd) = n + 1 /\ d.cmd[n + 1] = v
      /\ \A i \in 1 .. n : d.cmd[i] = q[i]
  <2>1. Longer(d.cmd, q, n, v)
    BY <1>1, <1>2, <1>4, AppendedIs
  <2> QED
    BY <2>1 DEF Longer
<1>6. n + 1 = k
  BY <1>2
<1>7. \A i \in 1 .. k : i = k \/ i \in 1 .. n
  BY <1>2
<1>8. \A i \in 1 .. n : q[i] = P[i].val
  BY <1>1, <1>2 DEF Sent
<1>9. \A i \in 1 .. k : d.cmd[i] = P[i].val
  BY <1>1, <1>5, <1>6, <1>7, <1>8
<1>10. k + 1 - 1 = k
  OBVIOUS
<1> QED
  BY <1>4, <1>5, <1>6, <1>9, <1>10 DEF Sent

LEMMA CommandEnds ==
  ASSUME NEW c \in Cards, NEW P, Sent(c, P, 6), P[6].val \in Values,
         NEW d, d = Write(c, P[6].val)
  PROVE  \E m : /\ Given(m, c) /\ d = SentOnDemand(Executed(m))
                /\ \A i \in 1 .. 6 : m.cmd[i] = P[i].val
<1>1. PICK v, q : v = P[6].val /\ q = c.cmd
  OBVIOUS
<1>2. v \in Values /\ q \in Seq(Values) /\ Len(q) = 5
  BY <1>1 DEF Cards, Sent
<1>3. PICK m : Given(m, c) /\ m.cmd = Append(q, v) /\ d = SentOnDemand(Executed(m))
  BY <1>1, <1>2, SixthByte
<1>4. /\ m.cmd[6] = v
      /\ \A i \in 1 .. 5 : m.cmd[i] = q[i]
  <2>1. Longer(m.cmd, q, 5, v)
    BY <1>2, <1>3, AppendedIs
  <2> QED
    BY <2>1 DEF Longer
<1>5. \A i \in 1 .. 5 : q[i] = P[i].val
  BY <1>1 DEF Sent
<1>6. \A i \in 1 .. 6 : i = 6 \/ i \in 1 .. 5
  OBVIOUS
<1>7. \A i \in 1 .. 6 : m.cmd[i] = P[i].val
  BY <1>1, <1>4, <1>5, <1>6
<1> QED
  BY <1>3, <1>7

(* A command sent to a card that does nothing else. *)
LEMMA PromptGoesOn ==
  ASSUME NEW c, Still(c), NEW P, NEW k \in 1 .. 5, Sent(c, P, k),
         P[k].val \in Values, P[1].val \in 64 .. 127,
         NEW d, d = Write(c, P[k].val)
  PROVE  Still(d) /\ SameCard(d, c) /\ Sent(d, P, k + 1)
<1>1. c \in Cards /\ ~c.writing /\ ~OnDemand(c) /\ c.readQueue = << >>
  BY DEF Still, Calm, OnDemand
<1>2. Passed(d, c) /\ Sent(d, P, k + 1)
  BY <1>1, CommandGoesOn
<1> QED
  BY <1>1, <1>2 DEF Passed, Upcoming, Still, Calm, SameCard

LEMMA PromptEnds ==
  ASSUME NEW c, Still(c), NEW P, NEW n, NEW arg, NEW r, IsCmd(P, n, arg, r),
         Sent(c, P, 6), NEW d, d = Write(c, P[6].val)
  PROVE  \E m : /\ Still(m) /\ SameCard(m, c) /\ m.cmd[1] = 64 + n
                /\ Arg(m.cmd) = arg /\ d = SentOnDemand(Executed(m))
<1>1. /\ P[1].val = 64 + n /\ P[6].val \in Values
      /\ ((P[2].val * 256 + P[3].val) * 256 + P[4].val) * 256 + P[5].val = arg
  BY DEF IsCmd
<1>2. PICK m : /\ Given(m, c) /\ d = SentOnDemand(Executed(m))
               /\ \A i \in 1 .. 6 : m.cmd[i] = P[i].val
  BY <1>1, CommandEnds DEF Still
<1>3. Arg(m.cmd) = arg /\ m.cmd[1] = 64 + n
  BY <1>1, <1>2 DEF Arg
<1>4. Still(m) /\ SameCard(m, c)
  BY <1>2 DEF Given, Still, Calm, SameCard
<1> QED
  BY <1>2, <1>3, <1>4

-----------------------------------------------------------------------------
(* The job and its next step. *)
IsJob(j) ==
  j = [op |-> j.op, block |-> j.block, datas |-> j.datas, got |-> j.got,
       parts |-> j.parts, part |-> j.part, at |-> j.at]

Moved(i, j, part, at) ==
  /\ IsJob(i) /\ i.op = j.op /\ i.block = j.block /\ i.datas = j.datas
  /\ i.got = j.got /\ i.parts = j.parts /\ i.part = part /\ i.at = at

LEMMA RestInPart ==
  ASSUME NEW j, IsJob(j), j.at < Len(Part(j))
  PROVE  Moved(Rest(j), j, j.part, j.at + 1)
<1>1. PICK i : i = [j EXCEPT !.at = j.at + 1]
  OBVIOUS
<1>2. Moved(i, j, j.part, j.at + 1)
  BY <1>1 DEF IsJob, Moved
<1>3. Rest(j) = i
  BY <1>1 DEF Rest, IsJob
<1> QED
  BY <1>2, <1>3

LEMMA RestNextPart ==
  ASSUME NEW j, IsJob(j), ~(j.at < Len(Part(j))), j.part < Len(j.parts)
  PROVE  Moved(Rest(j), j, j.part + 1, 1)
<1>1. PICK i : i = [j EXCEPT !.part = j.part + 1, !.at = 1]
  OBVIOUS
<1>2. Moved(i, j, j.part + 1, 1)
  BY <1>1 DEF IsJob, Moved
<1>3. Rest(j) = i
  BY <1>1 DEF Rest, IsJob
<1> QED
  BY <1>2, <1>3

LEMMA RestIsNone ==
  ASSUME NEW j, ~(j.at < Len(Part(j))), ~(j.part < Len(j.parts))
  PROVE  Rest(j) = NoJob
BY DEF Rest

LEMMA NoJobIs ==
  /\ IsJob(NoJob) /\ NoJob.op = "none" /\ NoJob.got = << >>
  /\ NoJob.part = 1 /\ NoJob.at = 1
BY DEF NoJob, IsJob

(* A step of a command, in whatever the job is. *)
LEMMA CommandStep ==
  ASSUME NEW j, IsJob(j), NEW c, Still(c), NEW n \in 0 .. 63, NEW arg, NEW r,
         IsCmd(Part(j), n, arg, r), j.at \in 1 .. 5, Sent(c, Part(j), j.at),
         NEW d, d = Write(c, Now(j).val)
  PROVE  /\ Moved(Rest(j), j, j.part, j.at + 1)
         /\ Still(d) /\ SameCard(d, c) /\ Sent(d, Part(Rest(j)), j.at + 1)
<1>1. PICK i, P : i = Rest(j) /\ P = Part(j)
  OBVIOUS
<1>2. Moved(i, j, j.part, j.at + 1)
  <2>1. Len(Part(j)) = 7
    BY DEF IsCmd
  <2>2. j.at < Len(Part(j))
    BY <2>1
  <2> QED
    BY <1>1, <2>2, RestInPart
<1>3. Part(i) = P
  BY <1>1, <1>2 DEF Moved, Part
<1>4. P[j.at].val \in Values /\ P[1].val \in 64 .. 127
  <2>1. \A k \in 1 .. 6 : P[k].val \in Values
    BY <1>1 DEF IsCmd
  <2>2. P[1].val = 64 + n
    BY <1>1 DEF IsCmd
  <2> QED
    BY <2>1, <2>2
<1>5. Still(d) /\ SameCard(d, c) /\ Sent(d, P, j.at + 1)
  BY <1>1, <1>4, PromptGoesOn DEF Now
<1> QED
  BY <1>1, <1>2, <1>3, <1>5

LEMMA CommandStepLast ==
  ASSUME NEW j, IsJob(j), NEW c, Still(c), NEW n, NEW arg, NEW r,
         IsCmd(Part(j), n, arg, r), j.at = 6, Sent(c, Part(j), j.at),
         NEW d, d = Write(c, Now(j).val)
  PROVE  /\ Moved(Rest(j), j, j.part, 7)
         /\ \E m : /\ Still(m) /\ SameCard(m, c) /\ m.cmd[1] = 64 + n
                   /\ Arg(m.cmd) = arg /\ d = SentOnDemand(Executed(m))
<1>1. Moved(Rest(j), j, j.part, 6 + 1)
  <2>1. Len(Part(j)) = 7
    BY DEF IsCmd
  <2>2. j.at < Len(Part(j))
    BY <2>1
  <2> QED
    BY <2>2, RestInPart
<1>2. PICK P : P = Part(j)
  OBVIOUS
<1>3. \E m : /\ Still(m) /\ SameCard(m, c) /\ m.cmd[1] = 64 + n
             /\ Arg(m.cmd) = arg /\ d = SentOnDemand(Executed(m))
  BY <1>2, PromptEnds DEF Now
<1>4. 6 + 1 = 7
  OBVIOUS
<1> QED
  BY <1>1, <1>3, <1>4

-----------------------------------------------------------------------------
(* Initialising the card. *)
Free(c) == Still(c) /\ c.cmd = << >> /\ ~c.appCmd

IsInitialise(j, c) ==
  /\ IsJob(j) /\ j.op = "initialise" /\ j.parts = Initialise
  /\ j.part \in 1 .. 4 /\ j.at \in 1 .. 7
  /\ j.at <= 6 => /\ Still(c) /\ Sent(c, Part(j), j.at)
                  /\ c.appCmd <=> j.part = 4
                  /\ j.part # 1 => c.idle
  /\ j.at = 7 => /\ c \in Cards /\ Calm(c) /\ c.cmd = << >>
                 /\ c.readQueue = <<Part(j)[7].val>>
                 /\ c.appCmd <=> j.part = 3
                 /\ c.idle <=> j.part # 4

LEMMA InitialiseIs ==
  /\ Len(Initialise) = 4 /\ 0 \in Addresses
  /\ Initialise[1] = Cmd(0, 0, 1) /\ Initialise[2] = Cmd(8, 0, 5)
  /\ Initialise[3] = Cmd(55, 0, 1) /\ Initialise[4] = Cmd(41, 0, 0)
<1>1. 0 \in Addresses
  <2>1. 0 <= MaxInt /\ MaxInt \in Int
    BY Z3 DEF MaxInt
  <2> QED
    BY <2>1 DEF Addresses
<1>2. PICK a, b, c, d : /\ a = Cmd(0, 0, 1) /\ b = Cmd(8, 0, 5)
                        /\ c = Cmd(55, 0, 1) /\ d = Cmd(41, 0, 0)
  OBVIOUS
<1>3. Initialise = <<a, b, c, d>>
  BY <1>2 DEF Initialise
<1> QED
  BY <1>1, <1>2, <1>3

LEMMA InitialiseCmds ==
  /\ IsCmd(Initialise[1], 0, 0, 1) /\ IsCmd(Initialise[2], 8, 0, 5)
  /\ IsCmd(Initialise[3], 55, 0, 1) /\ IsCmd(Initialise[4], 41, 0, 0)
<1>1. 0 \in Addresses /\ 0 \in Values /\ 1 \in Values /\ 5 \in Values
  BY InitialiseIs DEF Values
<1>2. /\ IsCmd(Cmd(0, 0, 1), 0, 0, 1) /\ IsCmd(Cmd(8, 0, 5), 8, 0, 5)
      /\ IsCmd(Cmd(55, 0, 1), 55, 0, 1) /\ IsCmd(Cmd(41, 0, 0), 41, 0, 0)
  BY <1>1, CmdIs
<1> QED
  BY <1>2, InitialiseIs

LEMMA InitialiseCmd ==
  ASSUME NEW p \in 1 .. 4
  PROVE  \E n \in 0 .. 63, r \in {0, 1, 5} : IsCmd(Initialise[p], n, 0, r)
<1>1. p = 1 \/ p = 2 \/ p = 3 \/ p = 4
  OBVIOUS
<1> QED
  BY <1>1, InitialiseCmds

(* The last byte of each of its commands. *)
LEMMA InitialiseAnswers ==
  ASSUME NEW p \in 1 .. 4, NEW c, Still(c), NEW P, P = Initialise[p], Sent(c, P, 6),
         c.appCmd <=> p = 4, p # 1 => c.idle, NEW d, d = Write(c, P[6].val)
  PROVE  Answers(d, c, <<P[7].val>>, p # 4, p = 3)
<1>1. \A v : Reply(v).val = v
  BY DEF Reply
<1>3. CASE p = 1
  <2>1. IsCmd(P, 0, 0, 1)
    BY <1>3, InitialiseCmds
  <2>2. P[7].val = 1
    BY <1>1, <2>1 DEF IsCmd
  <2>3. PICK m : /\ Still(m) /\ SameCard(m, c) /\ m.cmd[1] = 64 + 0
                 /\ d = SentOnDemand(Executed(m))
    BY <2>1, PromptEnds
  <2>4. Answers(d, m, <<1>>, TRUE, FALSE)
    <3>1. m.cmd[1] = 64
      BY <2>3
    <3>2. ~m.appCmd
      BY <1>3, <2>3 DEF SameCard
    <3> QED
      BY <2>3, <3>1, <3>2, ResetAnswer
  <2> QED
    BY <1>3, <2>2, <2>3, <2>4 DEF Answers, SameCard
<1>4. CASE p = 2
  <2>1. IsCmd(P, 8, 0, 5)
    BY <1>4, InitialiseCmds
  <2>2. P[7].val = 5
    BY <1>1, <2>1 DEF IsCmd
  <2>3. PICK m : /\ Still(m) /\ SameCard(m, c) /\ m.cmd[1] = 64 + 8
                 /\ d = SentOnDemand(Executed(m))
    BY <2>1, PromptEnds
  <2>4. Answers(d, m, <<5>>, TRUE, FALSE)
    <3>1. m.cmd[1] = 72
      BY <2>3
    <3>2. ~m.appCmd /\ m.idle
      BY <1>4, <2>3 DEF SameCard
    <3>3. Still(m)
      BY <2>3
    <3>4. Answers(SentOnDemand(Executed(m)), m, <<5>>, TRUE, FALSE)
      BY <3>1, <3>2, <3>3, UnknownAnswer
    <3> QED
      BY <2>3, <3>4
  <2> QED
    BY <1>4, <2>2, <2>3, <2>4 DEF Answers, SameCard
<1>5. CASE p = 3
  <2>1. IsCmd(P, 55, 0, 1)
    BY <1>5, InitialiseCmds
  <2>2. P[7].val = 1
    BY <1>1, <2>1 DEF IsCmd
  <2>3. PICK m : /\ Still(m) /\ SameCard(m, c) /\ m.cmd[1] = 64 + 55
                 /\ d = SentOnDemand(Executed(m))
    BY <2>1, PromptEnds
  <2>4. Answers(d, m, <<1>>, TRUE, TRUE)
    <3>1. m.cmd[1] = 119
      BY <2>3
    <3>2. ~m.appCmd /\ m.idle
      BY <1>5, <2>3 DEF SameCard
    <3>3. Still(m)
      BY <2>3
    <3>4. Answers(SentOnDemand(Executed(m)), m, <<1>>, TRUE, TRUE)
      BY <3>1, <3>2, <3>3, AppAnswer
    <3> QED
      BY <2>3, <3>4
  <2> QED
    BY <1>5, <2>2, <2>3, <2>4 DEF Answers, SameCard
<1>6. CASE p = 4
  <2>1. IsCmd(P, 41, 0, 0)
    BY <1>6, InitialiseCmds
  <2>2. P[7].val = 0
    BY <1>1, <2>1 DEF IsCmd
  <2>3. PICK m : /\ Still(m) /\ SameCard(m, c) /\ m.cmd[1] = 64 + 41
                 /\ d = SentOnDemand(Executed(m))
    BY <2>1, PromptEnds
  <2>4. Answers(d, m, <<0>>, FALSE, FALSE)
    <3>1. m.cmd[1] = 105
      BY <2>3
    <3>2. m.appCmd
      BY <1>6, <2>3 DEF SameCard
    <3> QED
      BY <2>3, <3>1, <3>2, OperatingAnswer
  <2> QED
    BY <1>6, <2>2, <2>3, <2>4 DEF Answers, SameCard
<1> QED
  BY <1>3, <1>4, <1>5, <1>6

(* Its steps: six bytes that are sent, and the answer. *)
LEMMA InitialiseSteps ==
  ASSUME NEW j, NEW c, IsInitialise(j, c)
  PROVE  /\ Now(j).kind = IF j.at = 7 THEN "reply" ELSE "send"
         /\ j.at = 7 => Now(j).val \in {0, 1, 5}
<1>1. PICK n \in 0 .. 63, r \in {0, 1, 5} : IsCmd(Part(j), n, 0, r)
  BY InitialiseCmd DEF IsInitialise, Part
<1>2. j.at \in 1 .. 6 \/ j.at = 7
  BY DEF IsInitialise
<1> QED
  BY <1>1, <1>2 DEF Now, IsCmd, Reply

LEMMA InitialiseSends ==
  ASSUME NEW j, NEW c, IsInitialise(j, c), Now(j).kind = "send",
         NEW d, d = Write(c, Now(j).val)
  PROVE  IsInitialise(Rest(j), d) /\ d.file = c.file
<1>1. PICK n \in 0 .. 63, r \in {0, 1, 5} : IsCmd(Part(j), n, 0, r)
  BY InitialiseCmd DEF IsInitialise, Part
<1>2. j.at \in 1 .. 6 /\ Len(Part(j)) = 7 /\ IsJob(j)
  <2>1. j.at # 7 /\ j.at \in 1 .. 7
    BY InitialiseSteps DEF IsInitialise
  <2> QED
    BY <1>1, <2>1 DEF IsCmd, IsInitialise
<1>3. PICK i, P : i = Rest(j) /\ P = Part(j)
  OBVIOUS
<1>4. /\ Still(c) /\ Sent(c, P, j.at) /\ (c.appCmd <=> j.part = 4)
      /\ (j.part # 1 => c.idle) /\ j.part \in 1 .. 4 /\ P = Initialise[j.part]
  BY <1>2, <1>3 DEF IsInitialise, Part
<1>5. CASE j.at \in 1 .. 5
  <2>1. /\ Moved(i, j, j.part, j.at + 1)
        /\ Still(d) /\ SameCard(d, c) /\ Sent(d, Part(i), j.at + 1)
    BY <1>1, <1>2, <1>3, <1>4, <1>5, CommandStep
  <2>2. i.at \in 1 .. 6 /\ i.at = j.at + 1
    BY <1>5, <2>1 DEF Moved
  <2> QED
    BY <1>3, <1>4, <2>1, <2>2 DEF IsInitialise, Moved, SameCard
<1>6. CASE j.at = 6
  <2>1. Answers(d, c, <<P[7].val>>, j.part # 4, j.part = 3)
    BY <1>3, <1>4, <1>6, InitialiseAnswers DEF Now
  <2>2. Moved(i, j, j.part, 7)
    <3>1. j.at < Len(Part(j))
      BY <1>2, <1>6
    <3>2. Moved(Rest(j), j, j.part, j.at + 1)
      BY <1>2, <3>1, RestInPart
    <3>3. j.at + 1 = 7
      BY <1>6
    <3> QED
      BY <1>3, <3>2, <3>3
  <2>3. Part(i) = P
    BY <1>3, <2>2 DEF Moved, Part
  <2> QED
    BY <1>3, <1>4, <2>1, <2>2, <2>3 DEF IsInitialise, Moved, Answers
<1> QED
  BY <1>2, <1>5, <1>6

(* One byte in the queue is read. *)
LEMMA OneByteComes ==
  ASSUME NEW c \in Cards, c.cmd = << >>, ~(c.writing /\ c.gotToken),
         NEW v \in Values, c.readQueue = <<v>>
  PROVE  /\ Clocks(c) \in Cards /\ SameCard(Clocks(c), c) /\ Clocks(c).cmd = << >>
         /\ Clocks(c).readQueue = << >> /\ Comes(c) = v
         /\ Clocks(c).readAddress = c.readAddress
<1>1. c.readQueue # << >> /\ Head(c.readQueue) = v /\ Tail(c.readQueue) = << >>
  BY ShortIs
<1>2. Upcoming(c) = c.readQueue /\ AddressThen(c) = c.readAddress
  BY <1>1 DEF Upcoming, OnDemand, AddressThen
<1> QED
  BY <1>1, <1>2, ClockIs

LEMMA InitialiseHears ==
  ASSUME NEW j, NEW c, IsInitialise(j, c), Now(j).kind = "reply",
         NEW d, d = Clocks(c)
  PROVE  /\ Comes(c) = Now(j).val /\ Comes(c) # Empty /\ d.file = c.file
         /\ Rest(j) = NoJob => Free(d) /\ ~d.idle
         /\ Rest(j) # NoJob => IsInitialise(Rest(j), d)
<1>1. PICK P, v, i : P = Part(j) /\ v = Now(j).val /\ i = Rest(j)
  OBVIOUS
<1>2. j.at = 7 /\ v \in {0, 1, 5} /\ IsJob(j) /\ P = Initialise[j.part] /\ Len(P) = 7
  <2>1. j.at = 7 /\ v \in {0, 1, 5} /\ IsJob(j) /\ P = Initialise[j.part] /\ j.part \in 1 .. 4
    BY <1>1, InitialiseSteps DEF IsInitialise, Part
  <2>2. Len(P) = 7
    BY <2>1, InitialiseCmd DEF IsCmd
  <2> QED
    BY <2>1, <2>2
<1>3. /\ c \in Cards /\ Calm(c) /\ c.cmd = << >> /\ c.readQueue = <<v>>
      /\ (c.appCmd <=> j.part = 3) /\ (c.idle <=> j.part # 4)
      /\ j.part \in 1 .. 4 /\ Len(j.parts) = 4 /\ j.op = "initialise"
      /\ j.parts = Initialise
  BY <1>1, <1>2, InitialiseIs DEF IsInitialise, Now
<1>4. v \in Values /\ v # Empty
  BY <1>2 DEF Values, Empty
<1>5. /\ d \in Cards /\ SameCard(d, c) /\ d.cmd = << >>
      /\ d.readQueue = << >> /\ Comes(c) = v
  BY <1>3, <1>4, OneByteComes DEF Calm
<1>6. Still(d) /\ (d.appCmd <=> j.part = 3) /\ (d.idle <=> j.part # 4) /\ d.file = c.file
  BY <1>3, <1>5 DEF Still, Calm, SameCard
<1>7. ~(j.at < Len(Part(j)))
  BY <1>1, <1>2
<1>8. CASE j.part = 4
  <2>1. Rest(j) = NoJob
    <3>1. ~(j.part < Len(j.parts))
      BY <1>3, <1>8
    <3> QED
      BY <1>7, <3>1, RestIsNone
  <2> QED
    BY <1>1, <1>4, <1>5, <1>6, <1>8, <2>1 DEF Free
<1>9. CASE j.part # 4
  <2>1. Moved(i, j, j.part + 1, 1)
    <3>1. j.part < Len(j.parts)
      BY <1>3, <1>9
    <3> QED
      BY <1>1, <1>2, <1>7, <3>1, RestNextPart
  <2>2. i # NoJob
    BY <1>3, <2>1, NoJobIs DEF Moved
  <2>3. Sent(d, Part(i), 1)
    BY <1>5 DEF Sent
  <2>4. IsInitialise(i, d)
    BY <1>3, <1>6, <1>9, <2>1, <2>3 DEF IsInitialise, Moved
  <2> QED
    BY <1>1, <1>4, <1>5, <1>6, <2>2, <2>4
<1> QED
  BY <1>8, <1>9

-----------------------------------------------------------------------------
(* The bytes of a frame, one by one. *)
LEMMA FrameComes ==
  ASSUME NEW c \in Cards, c.cmd = << >>, ~(c.writing /\ c.gotToken),
         NEW data \in Seq(Values), NEW k \in 0 .. Len(data) + 2,
         c.readQueue = Left(data, k)
  PROVE  /\ Clocks(c) \in Cards /\ SameCard(Clocks(c), c) /\ Clocks(c).cmd = << >>
         /\ Clocks(c).readQueue = Left(data, k + 1)
         /\ Comes(c) = Frame(data)[k + 1]
         /\ Clocks(c).readAddress = c.readAddress
<1>1. /\ c.readQueue # << >> /\ Head(c.readQueue) = Frame(data)[k + 1]
      /\ Tail(c.readQueue) = Left(data, k + 1)
  BY LeftIs
<1>2. Upcoming(c) = c.readQueue /\ AddressThen(c) = c.readAddress
  BY <1>1 DEF Upcoming, OnDemand, AddressThen
<1>3. PICK d : d = Clocks(c)
  OBVIOUS
<1>4. /\ d \in Cards /\ SameCard(d, c) /\ d.cmd = << >>
      /\ d.readAddress = AddressThen(c)
      /\ d.readQueue = Tail(Upcoming(c)) /\ Comes(c) = Head(Upcoming(c))
  BY <1>1, <1>2, <1>3, ClockIs
<1> QED
  BY <1>1, <1>2, <1>3, <1>4

(* How many bytes of a block of n are there at step k. *)
Collected(k, n) == IF k <= 2 THEN 0 ELSE IF k <= n + 2 THEN k - 2 ELSE n

(* Job i is job j with one more byte, at another step. *)
Grew(i, j, part, at, v) ==
  /\ IsJob(i) /\ i.op = j.op /\ i.block = j.block /\ i.datas = j.datas
  /\ i.got = Append(j.got, v) /\ i.parts = j.parts /\ i.part = part /\ i.at = at

LEMMA RestGrows ==
  ASSUME NEW j, NEW part, NEW at, Moved(Rest(j), j, part, at), NEW v
  PROVE  Grew([Rest(j) EXCEPT !.got = Append(@, v)], j, part, at, v)
<1>1. PICK r, q : r = Rest(j) /\ q = Append(j.got, v)
  OBVIOUS
<1>2. IsJob(r) /\ r.got = j.got
  BY <1>1 DEF Moved
<1>3. PICK i : i = [r EXCEPT !.got = q]
  OBVIOUS
<1>4. [Rest(j) EXCEPT !.got = Append(@, v)] = i
  BY <1>1, <1>2, <1>3 DEF IsJob
<1>5. /\ IsJob(i) /\ i.op = r.op /\ i.block = r.block /\ i.datas = r.datas
      /\ i.got = q /\ i.parts = r.parts /\ i.part = r.part /\ i.at = r.at
  BY <1>2, <1>3 DEF IsJob
<1> QED
  BY <1>1, <1>4, <1>5 DEF Moved, Grew

-----------------------------------------------------------------------------
(* Reading a register. *)
RegisterAsked(j, c) ==
  /\ j.part = 1 /\ j.at \in 1 .. 7 /\ j.got = << >>
  /\ j.at <= 6 => Still(c) /\ Sent(c, Part(j), j.at)
  /\ j.at = 7 => c.cmd = << >> /\ c.readQueue = <<0>> \o Frame(Register)

RegisterComing(j, c) ==
  /\ j.part = 2 /\ j.at \in 1 .. Len(Register) + 3
  /\ c.cmd = << >> /\ c.readQueue = Left(Register, j.at - 1)
  /\ j.got \in Seq(Values) /\ Len(j.got) = Collected(j.at, Len(Register))
  /\ \A i \in 1 .. Len(j.got) : j.got[i] = Register[i]

IsRegister(j, c) ==
  /\ IsJob(j) /\ j.op = "register" /\ j.parts = ReadRegister
  /\ c \in Cards /\ Calm(c) /\ ~c.appCmd /\ ~c.idle
  /\ RegisterAsked(j, c) \/ RegisterComing(j, c)

LEMMA RegisterIs ==
  /\ Register \in Seq(Values) /\ Len(Register) \in Nat /\ Len(ReadRegister) = 2
  /\ IsCmd(ReadRegister[1], 9, 0, 0)
  /\ IsIncoming(ReadRegister[2], Len(Register), 0)
<1>1. Register \in Seq(Values) /\ Len(Register) \in Nat
  BY CardAssumption DEF Values
<1>2. PICK a, b, n : a = Cmd(9, 0, 0) /\ n = Len(Register) /\ b = Incoming(n, 0)
  OBVIOUS
<1>3. ReadRegister = <<a, b>>
  BY <1>2 DEF ReadRegister
<1>4. Len(ReadRegister) = 2 /\ ReadRegister[1] = a /\ ReadRegister[2] = b
  BY <1>3
<1>5. IsCmd(a, 9, 0, 0)
  <2>1. 0 \in Values /\ 0 \in Addresses
    BY InitialiseIs DEF Values
  <2> QED
    BY <1>2, <2>1, CmdIs
<1>6. IsIncoming(b, n, 0)
  <2>1. n \in Nat /\ 0 \in 0 .. n + 2
    BY <1>1, <1>2
  <2> QED
    BY <1>2, <2>1, IncomingIs
<1> QED
  BY <1>1, <1>2, <1>4, <1>5, <1>6

LEMMA RegisterSteps ==
  ASSUME NEW j, NEW c, IsRegister(j, c), NEW n, n = Len(Register)
  PROVE  /\ j.part = 1 => Now(j).kind = IF j.at = 7 THEN "reply" ELSE "send"
         /\ j.part = 1 /\ j.at = 7 => Now(j).val = 0
         /\ j.part = 2 => Now(j).kind = IF j.at = 1 THEN "until"
                                        ELSE IF j.at <= n + 1 THEN "collect" ELSE "skip"
         /\ j.part = 2 /\ j.at = 1 => Now(j).val = StartToken
<1>1. CASE RegisterAsked(j, c)
  <2>1. IsCmd(Part(j), 9, 0, 0) /\ j.part = 1
    BY <1>1, RegisterIs DEF IsRegister, RegisterAsked, Part
  <2>2. j.at \in 1 .. 6 \/ j.at = 7
    BY <1>1 DEF RegisterAsked
  <2> QED
    BY <2>1, <2>2 DEF Now, IsCmd, Reply
<1>2. CASE RegisterComing(j, c)
  <2>1. IsIncoming(Part(j), n, 0) /\ j.part = 2
    BY <1>2, RegisterIs DEF IsRegister, RegisterComing, Part
  <2>2. j.at = 1 \/ j.at \in 2 .. n + 3 - 0
    BY <1>2, RegisterIs DEF RegisterComing
  <2>3. j.at = 1 => Now(j) = Expect(StartToken)
    BY <2>1 DEF Now, IsIncoming
  <2>4. j.at # 1 => Now(j).kind = IF j.at <= n + 1 THEN "collect" ELSE "skip"
    BY <2>1, <2>2 DEF Now, IsIncoming
  <2> QED
    BY <2>1, <2>2, <2>3, <2>4 DEF Expect
<1> QED
  BY <1>1, <1>2 DEF IsRegister

LEMMA RegisterSends ==
  ASSUME NEW j, NEW c, IsRegister(j, c), Now(j).kind = "send",
         NEW d, d = Write(c, Now(j).val)
  PROVE  IsRegister(Rest(j), d) /\ d.file = c.file
<1>1. PICK i, P, n : i = Rest(j) /\ P = Part(j) /\ n = Len(Register)
  OBVIOUS
<1>2. /\ RegisterAsked(j, c) /\ IsJob(j) /\ IsCmd(P, 9, 0, 0)
      /\ j.at \in 1 .. 6 /\ Still(c) /\ Sent(c, P, j.at)
  <2>1. j.part = 1 /\ j.at # 7 /\ j.at \in 1 .. 7 /\ RegisterAsked(j, c)
    BY RegisterSteps DEF IsRegister, RegisterAsked, RegisterComing
  <2>2. j.at \in 1 .. 6
    BY <2>1
  <2> QED
    BY <1>1, <2>1, <2>2, RegisterIs DEF IsRegister, RegisterAsked, Part
<1>3. CASE j.at \in 1 .. 5
  <2>1. /\ Moved(i, j, j.part, j.at + 1)
        /\ Still(d) /\ SameCard(d, c) /\ Sent(d, Part(i), j.at + 1)
    BY <1>1, <1>2, <1>3, CommandStep
  <2>2. i.at \in 1 .. 6 /\ i.at = j.at + 1
    BY <1>3, <2>1 DEF Moved
  <2>3. RegisterAsked(i, d)
    BY <1>2, <2>1, <2>2 DEF RegisterAsked, Moved
  <2> QED
    BY <1>1, <2>1, <2>3 DEF IsRegister, Moved, SameCard, Still
<1>4. CASE j.at = 6
  <2>1. /\ Moved(i, j, j.part, 7)
        /\ \E m : /\ Still(m) /\ SameCard(m, c) /\ m.cmd[1] = 64 + 9
                  /\ d = SentOnDemand(Executed(m))
    BY <1>1, <1>2, <1>4, CommandStepLast
  <2>2. PICK m : /\ Still(m) /\ SameCard(m, c) /\ m.cmd[1] = 64 + 9
                 /\ d = SentOnDemand(Executed(m))
    BY <2>1
  <2>3. Answers(d, m, <<0>> \o Frame(Register), FALSE, FALSE)
    <3>1. m.cmd[1] = 73 /\ Still(m)
      BY <2>2
    <3>2. ~m.appCmd /\ ~m.idle
      BY <2>2 DEF SameCard, IsRegister
    <3>3. Answers(SentOnDemand(Executed(m)), m, <<0>> \o Frame(Register), FALSE, FALSE)
      BY <3>1, <3>2, RegisterAnswer
    <3> QED
      BY <2>2, <3>3
  <2>4. RegisterAsked(i, d)
    BY <1>2, <2>1, <2>3 DEF RegisterAsked, Moved, Answers
  <2> QED
    BY <1>1, <2>1, <2>2, <2>3, <2>4 DEF IsRegister, Moved, SameCard, Answers
<1> QED
  BY <1>2, <1>3, <1>4

LEMMA QueueComes ==
  ASSUME NEW c \in Cards, c.cmd = << >>, ~(c.writing /\ c.gotToken),
         NEW v \in Values, NEW q \in Seq(Values), c.readQueue = <<v>> \o q
  PROVE  /\ Clocks(c) \in Cards /\ SameCard(Clocks(c), c) /\ Clocks(c).cmd = << >>
         /\ Clocks(c).readQueue = q /\ Comes(c) = v
         /\ Clocks(c).readAddress = c.readAddress
<1>1. c.readQueue # << >> /\ Head(c.readQueue) = v /\ Tail(c.readQueue) = q
  BY PutBefore
<1>2. Upcoming(c) = c.readQueue /\ AddressThen(c) = c.readAddress
  BY <1>1 DEF Upcoming, OnDemand, AddressThen
<1> QED
  BY <1>1, <1>2, ClockIs

LEMMA RegisterHears ==
  ASSUME NEW j, NEW c, IsRegister(j, c), Now(j).kind = "reply",
         NEW d, d = Clocks(c)
  PROVE  /\ Comes(c) = Now(j).val /\ Comes(c) # Empty /\ d.file = c.file
         /\ IsRegister(Rest(j), d)
<1>1. j.part = 1 /\ j.at = 7 /\ Now(j).val = 0 /\ RegisterAsked(j, c)
  BY RegisterSteps DEF IsRegister, RegisterAsked, RegisterComing
<1>2. /\ IsJob(j) /\ c \in Cards /\ c.cmd = << >> /\ ~c.writing
      /\ c.readQueue = <<0>> \o Frame(Register) /\ j.got = << >>
  BY <1>1 DEF IsRegister, RegisterAsked, Calm
<1>3. PICK f : f = Frame(Register)
  OBVIOUS
<1>4. f \in Seq(Values) /\ 0 \in Values
  BY <1>3, RegisterIs, FrameIs DEF Values
<1>5. /\ d \in Cards /\ SameCard(d, c) /\ d.cmd = << >>
      /\ d.readQueue = f /\ Comes(c) = 0
  BY <1>2, <1>3, <1>4, QueueComes
<1>6. PICK i : i = Rest(j)
  OBVIOUS
<1>7. Moved(i, j, 1 + 1, 1)
  <2>1. Len(Part(j)) = 7 /\ Len(j.parts) = 2
    BY <1>1, RegisterIs DEF IsRegister, Part, IsCmd
  <2>2. ~(j.at < Len(Part(j))) /\ j.part < Len(j.parts)
    BY <1>1, <2>1
  <2> QED
    BY <1>1, <1>2, <1>6, <2>2, RestNextPart
<1>8. RegisterComing(i, d)
  <2>1. i.part = 2 /\ i.at = 1 /\ i.got = << >>
    BY <1>2, <1>7 DEF Moved
  <2>2. d.readQueue = Left(Register, 1 - 1)
    BY <1>3, <1>5, RegisterIs, LeftEnds
  <2>3. << >> \in Seq(Values) /\ Len(<< >>) = Collected(1, Len(Register))
    BY DEF Collected
  <2>4. 1 \in 1 .. Len(Register) + 3
    BY RegisterIs
  <2> QED
    BY <1>5, <2>1, <2>2, <2>3, <2>4 DEF RegisterComing
<1> QED
  BY <1>1, <1>5, <1>6, <1>7, <1>8 DEF IsRegister, Moved, SameCard, Calm, Empty

(* Its frame. *)
LEMMA RegisterClocks ==
  ASSUME NEW j, NEW c, IsRegister(j, c), RegisterComing(j, c),
         NEW d, d = Clocks(c)
  PROVE  /\ d \in Cards /\ SameCard(d, c) /\ d.cmd = << >>
         /\ d.readQueue = Left(Register, j.at) /\ Comes(c) = Frame(Register)[j.at]
         /\ IF j.at < Len(Register) + 3 THEN Moved(Rest(j), j, 2, j.at + 1)
            ELSE j.at = Len(Register) + 3 /\ Rest(j) = NoJob
<1>1. PICK n : n = Len(Register)
  OBVIOUS
<1>2. /\ n \in Nat /\ Register \in Seq(Values) /\ j.at \in 1 .. n + 3 /\ j.part = 2
      /\ IsJob(j) /\ Len(Part(j)) = n + 3 - 0 /\ Len(j.parts) = 2
  BY <1>1, RegisterIs DEF IsRegister, RegisterComing, Part, IsIncoming
<1>3. PICK k : k = j.at - 1
  OBVIOUS
<1>4. k \in 0 .. n + 2 /\ k + 1 = j.at
  BY <1>2, <1>3
<1>5. /\ c \in Cards /\ c.cmd = << >> /\ ~(c.writing /\ c.gotToken)
      /\ c.readQueue = Left(Register, k)
  BY <1>3 DEF IsRegister, RegisterComing, Calm
<1>6. /\ d \in Cards /\ SameCard(d, c) /\ d.cmd = << >>
      /\ d.readQueue = Left(Register, k + 1) /\ Comes(c) = Frame(Register)[k + 1]
  BY <1>1, <1>2, <1>4, <1>5, FrameComes
<1>7. CASE j.at < n + 3
  <2>1. j.at < Len(Part(j))
    BY <1>2, <1>7
  <2> QED
    BY <1>1, <1>2, <1>4, <1>6, <1>7, <2>1, RestInPart
<1>8. CASE ~(j.at < n + 3)
  <2>1. ~(j.at < Len(Part(j))) /\ ~(j.part < Len(j.parts)) /\ j.at = n + 3
    BY <1>2, <1>8
  <2> QED
    BY <1>1, <1>4, <1>6, <1>8, <2>1, RestIsNone
<1> QED
  BY <1>7, <1>8

LEMMA RegisterAwaits ==
  ASSUME NEW j, NEW c, IsRegister(j, c), Now(j).kind = "until",
         NEW d, d = Clocks(c)
  PROVE  Comes(c) = Now(j).val /\ d.file = c.file /\ IsRegister(Rest(j), d)
<1>1. j.part = 2 /\ j.at = 1 /\ Now(j).val = StartToken /\ RegisterComing(j, c)
  BY RegisterSteps DEF IsRegister, RegisterAsked, RegisterComing
<1>2. PICK n, i : n = Len(Register) /\ i = Rest(j)
  OBVIOUS
<1>3. n \in Nat /\ 1 < n + 3 /\ 2 \in 1 .. n + 3
  BY <1>2, RegisterIs
<1>4. /\ d \in Cards /\ SameCard(d, c) /\ d.cmd = << >>
      /\ d.readQueue = Left(Register, 1) /\ Comes(c) = Frame(Register)[1]
      /\ Moved(i, j, 2, 1 + 1)
  BY <1>1, <1>2, <1>3, RegisterClocks
<1>5. Comes(c) = StartToken
  BY <1>4, RegisterIs, FrameIs
<1>6. RegisterComing(i, d)
  <2>1. i.part = 2 /\ i.at = 2 /\ i.got = j.got
    BY <1>4 DEF Moved
  <2>2. Collected(1, n) = 0 /\ Collected(2, n) = 0
    BY DEF Collected
  <2>3. /\ j.got \in Seq(Values) /\ Len(j.got) = 0
        /\ \A k \in 1 .. Len(j.got) : j.got[k] = Register[k]
    BY <1>1, <1>2, <2>2 DEF RegisterComing
  <2>4. d.readQueue = Left(Register, 2 - 1)
    BY <1>4
  <2> QED
    BY <1>2, <1>3, <1>4, <2>1, <2>2, <2>3, <2>4 DEF RegisterComing
<1> QED
  BY <1>1, <1>2, <1>4, <1>5, <1>6 DEF IsRegister, Moved, SameCard, Calm

LEMMA RegisterCollects ==
  ASSUME NEW j, NEW c, IsRegister(j, c), Now(j).kind = "collect",
         NEW d, d = Clocks(c)
  PROVE  /\ d.file = c.file
         /\ IsRegister([Rest(j) EXCEPT !.got = Append(@, Comes(c))], d)
<1>1. PICK n, k, v : n = Len(Register) /\ k = j.at /\ v = Comes(c)
  OBVIOUS
<1>2. n \in Nat /\ j.part = 2 /\ k \in 2 .. n + 1 /\ RegisterComing(j, c)
  <2>1. j.part = 2 /\ k \in 1 .. n + 3 /\ RegisterComing(j, c)
    BY <1>1, RegisterSteps DEF IsRegister, RegisterAsked, RegisterComing
  <2>2. k # 1 /\ k <= n + 1
    BY <1>1, <2>1, RegisterSteps
  <2> QED
    BY <1>1, <2>1, <2>2, RegisterIs
<1>3. k < n + 3 /\ k + 1 \in 1 .. n + 3
  BY <1>2
<1>4. /\ d \in Cards /\ SameCard(d, c) /\ d.cmd = << >>
      /\ d.readQueue = Left(Register, k) /\ v = Frame(Register)[k]
      /\ Moved(Rest(j), j, 2, k + 1)
  BY <1>1, <1>2, <1>3, RegisterClocks
<1>5. v = Register[k - 1] /\ v \in Values
  <2>1. v = Register[k - 1]
    BY <1>1, <1>2, <1>4, RegisterIs, FrameIs
  <2>2. k - 1 \in 1 .. n
    BY <1>2
  <2> QED
    BY <1>1, <2>1, <2>2, RegisterIs
<1>6. PICK i : i = [Rest(j) EXCEPT !.got = Append(@, v)]
  OBVIOUS
<1>7. Grew(i, j, 2, k + 1, v)
  BY <1>4, <1>6, RestGrows
<1>8. RegisterComing(i, d)
  <2>1. PICK g, a, l : g = j.got /\ a = i.got /\ l = k - 2
    OBVIOUS
  <2>2. Collected(k, n) = l /\ Collected(k + 1, n) = l + 1 /\ l \in Nat /\ l + 1 = k - 1
    BY <1>2, <2>1 DEF Collected
  <2>3. /\ g \in Seq(Values) /\ Len(g) = l
        /\ \A m \in 1 .. l : g[m] = Register[m]
    BY <1>1, <1>2, <2>1, <2>2 DEF RegisterComing
  <2>4. a \in Seq(Values) /\ Longer(a, g, l, v)
    BY <1>5, <1>7, <2>1, <2>3, AppendedIs DEF Grew
  <2>5. Len(a) = l + 1 /\ a[l + 1] = v /\ \A m \in 1 .. l : a[m] = g[m]
    BY <2>4 DEF Longer
  <2>6. \A m \in 1 .. l + 1 : m = l + 1 \/ m \in 1 .. l
    BY <2>2
  <2>7. \A m \in 1 .. Len(a) : a[m] = Register[m]
    BY <1>5, <2>2, <2>3, <2>5, <2>6
  <2>8. i.part = 2 /\ i.at = k + 1
    BY <1>7 DEF Grew
  <2>9. d.readQueue = Left(Register, (k + 1) - 1)
    BY <1>2, <1>4
  <2> QED
    BY <1>1, <1>3, <1>4, <2>1, <2>2, <2>4, <2>5, <2>7, <2>8, <2>9 DEF RegisterComing
<1> QED
  BY <1>1, <1>4, <1>6, <1>7, <1>8 DEF IsRegister, Grew, SameCard, Calm

LEMMA RegisterSkips ==
  ASSUME NEW j, NEW c, IsRegister(j, c), Now(j).kind = "skip",
         NEW d, d = Clocks(c)
  PROVE  /\ d.file = c.file
         /\ Rest(j) = NoJob => Free(d) /\ ~d.idle
         /\ Rest(j) # NoJob => IsRegister(Rest(j), d)
<1>1. PICK n, k, i : n = Len(Register) /\ k = j.at /\ i = Rest(j)
  OBVIOUS
<1>2. n \in Nat /\ j.part = 2 /\ k \in n + 2 .. n + 3 /\ RegisterComing(j, c)
  <2>1. j.part = 2 /\ k \in 1 .. n + 3 /\ RegisterComing(j, c)
    BY <1>1, RegisterSteps DEF IsRegister, RegisterAsked, RegisterComing
  <2>2. ~(k <= n + 1)
    <3>1. n \in Nat
      BY <1>1, RegisterIs
    <3>2. k <= n + 1 => Now(j).kind \in {"until", "collect"}
      BY <1>1, <2>1, RegisterSteps
    <3> QED
      BY <3>2
  <2> QED
    BY <1>1, <2>1, <2>2, RegisterIs
<1>3. d \in Cards /\ SameCard(d, c) /\ d.cmd = << >> /\ d.readQueue = Left(Register, k)
  BY <1>1, <1>2, RegisterClocks
<1>4. Calm(d) /\ ~d.appCmd /\ ~d.idle /\ d.file = c.file
  BY <1>3 DEF IsRegister, SameCard, Calm
<1>5. CASE k = n + 3
  <2>1. i = NoJob
    <3>1. ~(k < n + 3)
      BY <1>2, <1>5
    <3> QED
      BY <1>1, <1>2, <3>1, RegisterClocks
  <2>2. d.readQueue = << >>
    BY <1>1, <1>3, <1>5, RegisterIs, LeftEnds
  <2> QED
    BY <1>1, <1>3, <1>4, <2>1, <2>2 DEF Free, Still
<1>6. CASE k = n + 2
  <2>1. k < n + 3 /\ k + 1 \in 1 .. n + 3 /\ (k + 1) - 1 = k
    BY <1>2, <1>6
  <2>2. Moved(i, j, 2, k + 1)
    BY <1>1, <1>2, <2>1, RegisterClocks
  <2>3. i # NoJob
    BY <2>2, NoJobIs DEF Moved, IsRegister
  <2>4. Collected(k, n) = n /\ Collected(k + 1, n) = n
    BY <1>2, <1>6 DEF Collected
  <2>5. RegisterComing(i, d)
    BY <1>1, <1>2, <1>3, <2>1, <2>2, <2>4 DEF RegisterComing, Moved
  <2> QED
    BY <1>1, <1>3, <1>4, <2>2, <2>3, <2>5 DEF IsRegister, Moved
<1> QED
  BY <1>2, <1>5, <1>6

-----------------------------------------------------------------------------
(* Reading n blocks, with CMD18 if many.  The bytes collected are those of *)
(* the file from the first block's address on. *)
Start(j) == j.block * BlockSize
Address(j) == (j.block + j.part - 2) * BlockSize

GotIs(j, c) ==
  /\ j.got \in Seq(Values)
  /\ \A i \in 1 .. Len(j.got) : j.got[i] = c.file[Start(j) + i - 1]

ReadParts(j, n, many) ==
  /\ n \in Nat /\ many \in BOOLEAN /\ (~many => n = 1)
  /\ j.block \in Nat /\ j.block + 1 <= NumBlocks /\ j.block + n <= NumBlocks
  /\ Len(j.parts) = IF many THEN n + 2 ELSE n + 1
  /\ IsCmd(j.parts[1], IF many THEN 18 ELSE 17, Start(j), 0)
  /\ \A p \in 2 .. n + 1 :
       \E cut \in 0 .. BlockSize + 2 :
         /\ IsIncoming(j.parts[p], BlockSize, cut)
         /\ cut = 0 \/ (many /\ p = n + 1)
  /\ many => IsStop(j.parts[n + 2])

Flows(c, many) == (c.reading <=> many) /\ (c.multi <=> many) /\ ~c.writing

(* The block at address a is coming, perhaps after a byte that is empty.   *)
AtToken(c, a) ==
  /\ \/ Upcoming(c) = Frame(Block(c, a))
     \/ Upcoming(c) = <<Empty>> \o Frame(Block(c, a))
  /\ AddressThen(c) = a + BlockSize

ReadAsked(j, c, many) ==
  /\ j.part = 1 /\ j.at \in 1 .. 7 /\ j.got = << >>
  /\ j.at <= 6 => Still(c) /\ Sent(c, Part(j), j.at)
  /\ j.at = 7 => /\ c.cmd = << >> /\ Flows(c, many)
                 /\ c.readQueue = <<0>> \o (<<Empty>> \o Frame(Block(c, Start(j))))
                 /\ c.readAddress = Start(j) + BlockSize

ReadComing(j, c, n, many) ==
  /\ j.part \in 2 .. n + 1 /\ j.at \in 1 .. Len(Part(j))
  /\ c.cmd = << >> /\ Flows(c, many)
  /\ j.at = 1 => AtToken(c, Address(j))
  /\ j.at > 1 => /\ c.readQueue = Left(Block(c, Address(j)), j.at - 1)
                 /\ c.readAddress = Address(j) + BlockSize
  /\ Len(j.got) = Address(j) - Start(j) + Collected(j.at, BlockSize)

ReadStopping(j, c, n) ==
  /\ j.part = n + 2 /\ j.at \in 1 .. 8
  /\ j.at <= 6 => Sent(c, Part(j), j.at) /\ Flows(c, TRUE)
  /\ j.at = 7 => Calm(c) /\ c.cmd = << >> /\ c.readQueue = <<Empty, 0>>
  /\ j.at = 8 => Calm(c) /\ c.cmd = << >> /\ c.readQueue = <<0>>

IsReadOf(j, c, n, many) ==
  /\ IsJob(j) /\ j.op = "read" /\ ReadParts(j, n, many) /\ GotIs(j, c)
  /\ c \in Cards /\ ~c.appCmd /\ ~c.idle
  /\ \/ ReadAsked(j, c, many)
     \/ ReadComing(j, c, n, many)
     \/ many = TRUE /\ ReadStopping(j, c, n)

IsRead(j, c) == \E n, many : IsReadOf(j, c, n, many)

LEMMA ReadSteps ==
  ASSUME NEW j, NEW c, NEW n, NEW many, IsReadOf(j, c, n, many)
  PROVE  /\ Now(j).kind = "send" =>
              \/ ReadAsked(j, c, many) /\ j.at \in 1 .. 6
              \/ many = TRUE /\ ReadStopping(j, c, n) /\ j.at \in 1 .. 6
         /\ Now(j).kind = "reply" =>
              /\ Now(j).val = 0
              /\ \/ ReadAsked(j, c, many) /\ j.at = 7
                 \/ many = TRUE /\ ReadStopping(j, c, n) /\ j.at = 8
         /\ Now(j).kind = "until" =>
              Now(j).val = StartToken /\ ReadComing(j, c, n, many) /\ j.at = 1
         /\ Now(j).kind = "collect" =>
              ReadComing(j, c, n, many) /\ j.at \in 2 .. BlockSize + 1
         /\ Now(j).kind = "skip" =>
              \/ ReadComing(j, c, n, many) /\ j.at > BlockSize + 1
              \/ many = TRUE /\ ReadStopping(j, c, n) /\ j.at = 7
<1>1. CASE ReadAsked(j, c, many)
  <2>1. IsCmd(Part(j), IF many THEN 18 ELSE 17, Start(j), 0)
    BY <1>1 DEF IsReadOf, ReadParts, ReadAsked, Part
  <2>2. j.at \in 1 .. 6 \/ j.at = 7
    BY <1>1 DEF ReadAsked
  <2>3. j.at \in 1 .. 6 => Now(j).kind = "send"
    BY <2>1 DEF Now, IsCmd
  <2>4. j.at = 7 => Now(j).kind = "reply" /\ Now(j).val = 0
    BY <2>1 DEF Now, IsCmd, Reply
  <2> QED
    BY <1>1, <2>2, <2>3, <2>4
<1>2. CASE ReadComing(j, c, n, many)
  <2>1. PICK cut \in 0 .. BlockSize + 2 : IsIncoming(Part(j), BlockSize, cut)
    BY <1>2 DEF IsReadOf, ReadParts, ReadComing, Part
  <2>2. BlockSize \in Nat \ {0}
    BY CardAssumption
  <2>3. j.at = 1 \/ j.at \in 2 .. BlockSize + 3 - cut
    <3>1. j.at \in 1 .. BlockSize + 3 - cut
      BY <1>2, <2>1 DEF IsIncoming, ReadComing
    <3> QED
      BY <2>2, <3>1
  <2>4. j.at = 1 => Now(j) = Expect(StartToken)
    BY <2>1 DEF Now, IsIncoming
  <2>5. j.at # 1 => Now(j).kind = IF j.at <= BlockSize + 1 THEN "collect" ELSE "skip"
    BY <2>1, <2>3 DEF Now, IsIncoming
  <2>6. j.at = 1 => Now(j).kind = "until" /\ Now(j).val = StartToken
    BY <2>4 DEF Expect
  <2> QED
    BY <1>2, <2>2, <2>3, <2>5, <2>6
<1>3. CASE many = TRUE /\ ReadStopping(j, c, n)
  <2>1. IsStop(Part(j))
    BY <1>3 DEF IsReadOf, ReadParts, ReadStopping, Part
  <2>2. j.at \in 1 .. 6 \/ j.at = 7 \/ j.at = 8
    BY <1>3 DEF ReadStopping
  <2>3. j.at \in 1 .. 6 => Now(j).kind = "send"
    BY <2>1 DEF Now, IsStop
  <2>4. j.at = 7 => Now(j).kind = "skip"
    BY <2>1 DEF Now, IsStop, Skip
  <2>5. j.at = 8 => Now(j).kind = "reply" /\ Now(j).val = 0
    BY <2>1 DEF Now, IsStop, Reply
  <2> QED
    BY <1>3, <2>2, <2>3, <2>4, <2>5
<1> QED
  BY <1>1, <1>2, <1>3 DEF IsReadOf

LEMMA AddressIs ==
  ASSUME NEW j, NEW n, NEW many, ReadParts(j, n, many), j.part \in 2 .. n + 1
  PROVE  /\ Address(j) \in Nat /\ Address(j) + BlockSize <= FileSize
         /\ Start(j) \in Nat /\ Start(j) <= Address(j)
<1>1. BlockSize \in Nat /\ FileSize \in Nat
  BY CardAssumption
<1>2. PICK x : x = j.block + j.part - 2
  OBVIOUS
<1>3. NumBlocks \in Int
  BY CardAssumption, DivisionIs DEF NumBlocks
<1>4. /\ x \in Nat /\ x + 1 <= NumBlocks /\ j.block <= x
      /\ j.block \in Nat /\ j.block + 1 <= NumBlocks
  <2>1. /\ n \in Nat /\ j.block \in Nat
        /\ j.block + 1 <= NumBlocks /\ j.block + n <= NumBlocks
    BY DEF ReadParts
  <2> QED
    BY <1>2, <1>3, <2>1
<1>5. x * BlockSize \in Nat /\ x * BlockSize + BlockSize <= FileSize
  BY <1>4, InFile
<1>6. j.block * BlockSize \in Nat /\ j.block * BlockSize <= x * BlockSize
  BY <1>1, <1>4, <1>5, InFile, TimesGrow
<1> QED
  BY <1>2, <1>5, <1>6 DEF Address, Start

(* A part after the first begins: a block, or what stops the reading.      *)
LEMMA PartBegins ==
  ASSUME NEW i, NEW d, NEW n, NEW many,
         IsJob(i), i.op = "read", ReadParts(i, n, many), GotIs(i, d),
         d \in Cards, ~d.appCmd, ~d.idle, d.cmd = << >>, Flows(d, many),
         i.part \in 2 .. Len(i.parts), i.at = 1,
         i.part <= n + 1 => /\ AtToken(d, Address(i))
                            /\ Len(i.got) = Address(i) - Start(i)
  PROVE  IsReadOf(i, d, n, many)
<1>1. n \in Nat /\ Len(i.parts) = IF many THEN n + 2 ELSE n + 1
  BY DEF ReadParts
<1>2. CASE i.part <= n + 1
  <2>1. i.part \in 2 .. n + 1
    BY <1>1, <1>2
  <2>2. PICK cut \in 0 .. BlockSize + 2 : IsIncoming(Part(i), BlockSize, cut)
    BY <2>1 DEF ReadParts, Part
  <2>3. i.at \in 1 .. Len(Part(i))
    BY <2>2, CardAssumption DEF IsIncoming
  <2>4. Collected(i.at, BlockSize) = 0
    BY DEF Collected
  <2>5. Address(i) - Start(i) + 0 = Address(i) - Start(i)
    BY <2>1, AddressIs
  <2>6. ReadComing(i, d, n, many)
    BY <1>2, <2>1, <2>3, <2>4, <2>5 DEF ReadComing
  <2> QED
    BY <2>6 DEF IsReadOf
<1>3. CASE ~(i.part <= n + 1)
  <2>1. many = TRUE /\ i.part = n + 2
    BY <1>1, <1>3 DEF ReadParts
  <2>2. Sent(d, Part(i), 1)
    BY DEF Sent
  <2>3. many = TRUE /\ ReadStopping(i, d, n)
    BY <2>1, <2>2 DEF ReadStopping, Flows
  <2> QED
    BY <2>3 DEF IsReadOf
<1> QED
  BY <1>2, <1>3

LEMMA StartIs ==
  ASSUME NEW j, NEW n, NEW many, ReadParts(j, n, many)
  PROVE  Start(j) \in Addresses /\ Start(j) \in Nat /\ Start(j) + BlockSize <= FileSize
<1>1. j.block * BlockSize \in Nat /\ j.block * BlockSize + BlockSize <= FileSize
  BY InFile DEF ReadParts
<1>2. BlockSize \in Nat /\ FileSize \in Nat /\ FileSize + BlockSize <= MaxInt /\ MaxInt \in Int
  BY CardAssumption DEF MaxInt
<1> QED
  BY <1>1, <1>2 DEF Start, Addresses

LEMMA ReadAskedSends ==
  ASSUME NEW j, NEW c, NEW n, NEW many, IsReadOf(j, c, n, many),
         ReadAsked(j, c, many), j.at \in 1 .. 6, NEW d, d = Write(c, Now(j).val)
  PROVE  IsReadOf(Rest(j), d, n, many) /\ d.file = c.file
<1>1. PICK i, P, k, a : /\ i = Rest(j) /\ P = Part(j)
                        /\ k = (IF many THEN 18 ELSE 17) /\ a = Start(j)
  OBVIOUS
<1>2. /\ IsJob(j) /\ IsCmd(P, k, a, 0) /\ k \in 0 .. 63
      /\ Still(c) /\ Sent(c, P, j.at) /\ ReadParts(j, n, many) /\ many \in BOOLEAN
      /\ j.part = 1 /\ j.got = << >> /\ ~c.appCmd /\ ~c.idle /\ j.op = "read"
  BY <1>1 DEF IsReadOf, ReadParts, ReadAsked, Part
<1>3. CASE j.at \in 1 .. 5
  <2>1. /\ Moved(i, j, j.part, j.at + 1)
        /\ Still(d) /\ SameCard(d, c) /\ Sent(d, Part(i), j.at + 1)
    BY <1>1, <1>2, <1>3, CommandStep
  <2>2. i.at \in 1 .. 6 /\ i.at = j.at + 1
    BY <1>3, <2>1 DEF Moved
  <2>3. ReadAsked(i, d, many)
    BY <1>2, <2>1, <2>2 DEF ReadAsked, Moved
  <2>4. ReadParts(i, n, many)
    BY <1>2, <2>1 DEF ReadParts, Moved, Start
  <2>5. GotIs(i, d)
    BY <1>2, <2>1 DEF GotIs, Moved
  <2> QED
    BY <1>1, <1>2, <2>1, <2>3, <2>4, <2>5 DEF IsReadOf, Moved, SameCard, Still
<1>4. CASE j.at = 6
  <2>1. /\ Moved(i, j, j.part, 7)
        /\ \E m : /\ Still(m) /\ SameCard(m, c) /\ m.cmd[1] = 64 + k
                  /\ Arg(m.cmd) = a /\ d = SentOnDemand(Executed(m))
    BY <1>1, <1>2, <1>4, CommandStepLast
  <2>2. PICK m : /\ Still(m) /\ SameCard(m, c) /\ m.cmd[1] = 64 + k
                 /\ Arg(m.cmd) = a /\ d = SentOnDemand(Executed(m))
    BY <2>1
  <2>3. /\ d \in Cards /\ d.cmd = << >> /\ d.readAddress = a + BlockSize
        /\ d.readQueue = <<0>> \o (<<Empty>> \o Frame(Block(m, a)))
        /\ (d.reading <=> many) /\ (d.multi <=> many) /\ ~d.writing
        /\ d.file = m.file /\ (d.idle <=> m.idle) /\ ~d.appCmd
    <3>1. m.cmd[1] = (IF many THEN 82 ELSE 81) /\ ~m.appCmd
      BY <1>1, <1>2, <2>2 DEF SameCard
    <3>2. a \in Nat
      BY <1>1, <1>2, StartIs
    <3>3. many \in BOOLEAN
      BY <1>2
    <3> QED
      BY <2>2, <3>1, <3>2, <3>3, ReadingAnswer
  <2>4. d.file = c.file /\ ~d.idle
    BY <1>2, <2>2, <2>3 DEF SameCard
  <2>5. Block(m, a) = Block(d, a)
    BY <2>3, SameBlocks
  <2>6. i.part = 1 /\ i.at = 7 /\ i.got = << >> /\ Start(i) = a /\ IsJob(i) /\ i.op = "read"
    BY <1>1, <1>2, <2>1 DEF Moved, Start
  <2>7. ReadAsked(i, d, many)
    BY <2>3, <2>5, <2>6 DEF ReadAsked, Flows
  <2>8. ReadParts(i, n, many)
    BY <1>2, <2>1 DEF ReadParts, Moved, Start
  <2>9. GotIs(i, d)
    BY <2>6 DEF GotIs
  <2> QED
    BY <1>1, <2>3, <2>4, <2>6, <2>7, <2>8, <2>9 DEF IsReadOf
<1> QED
  BY <1>3, <1>4

LEMMA ReadAskedHears ==
  ASSUME NEW j, NEW c, NEW n, NEW many, IsReadOf(j, c, n, many),
         ReadAsked(j, c, many), j.at = 7, NEW d, d = Clocks(c)
  PROVE  IsReadOf(Rest(j), d, n, many) /\ d.file = c.file /\ Comes(c) = 0
<1>1. PICK i, a, f : /\ i = Rest(j) /\ a = Start(j)
                     /\ f = <<Empty>> \o Frame(Block(c, a))
  OBVIOUS
<1>2. /\ IsJob(j) /\ ReadParts(j, n, many) /\ c \in Cards /\ c.cmd = << >>
      /\ Flows(c, many) /\ c.readQueue = <<0>> \o f /\ c.readAddress = a + BlockSize
      /\ j.part = 1 /\ j.got = << >> /\ ~c.appCmd /\ ~c.idle /\ j.op = "read"
  BY <1>1 DEF IsReadOf, ReadAsked
<1>3. a \in Nat
  BY <1>1, <1>2, StartIs
<1>4. f \in Seq(Values) /\ f # << >> /\ 0 \in Values
  <2>1. Block(c, a) \in Seq(Values)
    BY <1>2, <1>3, BlockIs
  <2>2. Frame(Block(c, a)) \in Seq(Values) /\ Empty \in Values /\ 0 \in Values
    BY <2>1, FrameIs DEF Empty, Values
  <2> QED
    BY <1>1, <2>2, PutBefore
<1>5. /\ d \in Cards /\ SameCard(d, c) /\ d.cmd = << >>
      /\ d.readQueue = f /\ Comes(c) = 0 /\ d.readAddress = c.readAddress
  BY <1>2, <1>4, QueueComes DEF Flows
<1>6. Moved(i, j, 1 + 1, 1)
  <2>1. Len(Part(j)) = 7 /\ Len(j.parts) > 1
    BY <1>2 DEF ReadParts, Part, IsCmd
  <2>2. ~(j.at < Len(Part(j))) /\ j.part < Len(j.parts)
    BY <1>2, <2>1
  <2> QED
    BY <1>1, <1>2, <2>2, RestNextPart
<1>7. /\ IsJob(i) /\ i.op = "read" /\ i.part = 2 /\ i.at = 1 /\ i.got = << >>
      /\ Start(i) = a
  BY <1>1, <1>2, <1>6 DEF Moved, Start
<1>8. ReadParts(i, n, many)
  BY <1>2, <1>6 DEF ReadParts, Moved, Start
<1>9. AtToken(d, a)
  <2>1. Upcoming(d) = f /\ AddressThen(d) = a + BlockSize
    BY <1>2, <1>4, <1>5 DEF Upcoming, AddressThen, OnDemand
  <2>2. Block(d, a) = Block(c, a)
    BY <1>5, SameBlocks DEF SameCard
  <2> QED
    BY <1>1, <2>1, <2>2 DEF AtToken
<1>10. Address(i) = a
  <2>1. i.block + i.part - 2 = i.block
    BY <1>7, <1>8 DEF ReadParts
  <2> QED
    BY <1>7, <2>1 DEF Address, Start
<1>11. i.part \in 2 .. Len(i.parts)
  BY <1>7, <1>8 DEF ReadParts
<1>12. GotIs(i, d) /\ Len(i.got) = Address(i) - Start(i)
  BY <1>3, <1>7, <1>10 DEF GotIs
<1>13. ~d.appCmd /\ ~d.idle /\ Flows(d, many) /\ d.file = c.file
  BY <1>2, <1>5 DEF Flows, SameCard
<1> QED
  BY <1>1, <1>5, <1>7, <1>8, <1>9, <1>10, <1>11, <1>12, <1>13, PartBegins

(* A step further in a block that comes, which may be its last.            *)
LEMMA ComingMoves ==
  ASSUME NEW j, NEW c, NEW n, NEW many, IsReadOf(j, c, n, many),
         ReadComing(j, c, n, many)
  PROVE  /\ j.at < Len(Part(j)) => Moved(Rest(j), j, j.part, j.at + 1)
         /\ ~(j.at < Len(Part(j))) =>
              IF j.part < Len(j.parts) THEN Moved(Rest(j), j, j.part + 1, 1)
              ELSE Rest(j) = NoJob
<1>1. IsJob(j)
  BY DEF IsReadOf
<1> QED
  BY <1>1, RestInPart, RestNextPart, RestIsNone

LEMMA NextAddress ==
  ASSUME NEW b \in Nat, NEW p \in Int
  PROVE  (b + (p + 1) - 2) * BlockSize = (b + p - 2) * BlockSize + BlockSize
<1>1. BlockSize \in Nat
  BY CardAssumption
<1>2. PICK x : x = b + p - 2
  OBVIOUS
<1>3. x \in Int /\ b + (p + 1) - 2 = x + 1
  BY <1>2
<1>4. (x + 1) * BlockSize = x * BlockSize + BlockSize
  BY <1>1, <1>3, BlocksFollow
<1> QED
  BY <1>2, <1>3, <1>4

LEMMA ComingGoesOn ==
  ASSUME NEW j, NEW c, NEW n, NEW many, IsReadOf(j, c, n, many),
         ReadComing(j, c, n, many),
         NEW i, IsJob(i), i.op = "read", ReadParts(i, n, many), i.parts = j.parts,
         Start(i) = Start(j), i.block = j.block,
         j.at < Len(Part(j)) => i.part = j.part /\ i.at = j.at + 1,
         ~(j.at < Len(Part(j))) => /\ j.part < Len(j.parts)
                                   /\ i.part = j.part + 1 /\ i.at = 1,
         NEW d, d \in Cards, SameCard(d, c), d.cmd = << >>,
         d.readQueue = Left(Block(c, Address(j)), j.at),
         d.readAddress = Address(j) + BlockSize, GotIs(i, d),
         Len(i.got) = Address(j) - Start(j) + Collected(j.at + 1, BlockSize)
  PROVE  IsReadOf(i, d, n, many)
<1>1. /\ Flows(d, many) /\ ~d.appCmd /\ ~d.idle
  BY DEF SameCard, IsReadOf, ReadComing, Flows
<1>2. \A x : Block(d, x) = Block(c, x)
  BY SameBlocks DEF SameCard
<1>3. BlockSize \in Nat \ {0}
  BY CardAssumption
<1>4. CASE j.at < Len(Part(j))
  <2>1. Part(i) = Part(j) /\ Address(i) = Address(j) /\ i.part = j.part
    BY <1>4 DEF Part, Address
  <2>2. i.at \in 1 .. Len(Part(i)) /\ i.at > 1 /\ i.at - 1 = j.at
    BY <1>4, <2>1 DEF ReadComing
  <2>3. ReadComing(i, d, n, many)
    BY <1>1, <1>2, <2>1, <2>2, <1>4 DEF ReadComing
  <2> QED
    BY <1>1, <2>3 DEF IsReadOf
<1>5. CASE ~(j.at < Len(Part(j)))
  <2>1. i.part = j.part + 1 /\ i.at = 1 /\ j.part < Len(j.parts) /\ j.part \in 2 .. n + 1
    BY <1>5 DEF ReadComing
  <2>2. i.part \in 2 .. Len(i.parts) /\ n \in Nat
    <3>1. Len(j.parts) \in Nat /\ n \in Nat
      BY DEF ReadParts, IsReadOf
    <3> QED
      BY <2>1, <3>1
  <2>3. ASSUME i.part <= n + 1
        PROVE  AtToken(d, Address(i)) /\ Len(i.got) = Address(i) - Start(i)
    <3>1. j.part # n + 1 /\ many
      BY <2>1, <2>2, <2>3 DEF IsReadOf, ReadParts
    <3>2. PICK cut \in 0 .. BlockSize + 2 :
            IsIncoming(Part(j), BlockSize, cut) /\ (cut = 0 \/ j.part = n + 1)
      BY <2>1 DEF IsReadOf, ReadParts, Part
    <3>3. j.at = BlockSize + 3
      <4>1. j.at \in 1 .. Len(Part(j)) /\ Len(Part(j)) = BlockSize + 3 - 0
        BY <3>1, <3>2 DEF ReadComing, IsIncoming
      <4> QED
        BY <1>3, <1>5, <4>1
    <3>4. PICK a, b : a = Address(j) /\ b = Block(c, Address(j))
      OBVIOUS
    <3>5. a \in Nat /\ Start(j) \in Nat
      BY <2>1, <3>4, AddressIs DEF IsReadOf
    <3>6. b \in Seq(Values) /\ Len(b) = BlockSize
      BY <3>4, <3>5, BlockIs DEF IsReadOf
    <3>7. d.readQueue = << >>
      BY <3>3, <3>4, <3>6, LeftEnds
    <3>8. Address(i) = a + BlockSize
      <4>1. j.block \in Nat /\ j.part \in Int /\ n \in Nat
        BY <2>1, <2>2 DEF IsReadOf, ReadParts
      <4>2. (j.block + (j.part + 1) - 2) * BlockSize =
              (j.block + j.part - 2) * BlockSize + BlockSize
        BY <4>1, NextAddress
      <4> QED
        BY <2>1, <3>4, <4>2 DEF Address
    <3>9. OnDemand(d)
      BY <1>1, <3>1, <3>7 DEF OnDemand, Flows
    <3>10. AtToken(d, Address(i))
      BY <3>4, <3>8, <3>9 DEF AtToken, Upcoming, AddressThen, Sending
    <3>11. Collected(j.at + 1, BlockSize) = BlockSize
      BY <1>3, <3>3 DEF Collected
    <3>12. Len(i.got) = a - Start(j) + BlockSize
      BY <3>4, <3>11
    <3> QED
      BY <1>3, <3>5, <3>8, <3>10, <3>12
  <2> QED
    BY <1>1, <2>1, <2>2, <2>3, PartBegins
<1> QED
  BY <1>4, <1>5

(* A byte of the block, from its token on. *)
LEMMA ComingClocks ==
  ASSUME NEW j, NEW c, NEW n, NEW many, IsReadOf(j, c, n, many),
         ReadComing(j, c, n, many), j.at > 1, NEW d, d = Clocks(c),
         NEW b, b = Block(c, Address(j))
  PROVE  /\ d \in Cards /\ SameCard(d, c) /\ d.cmd = << >>
         /\ d.readQueue = Left(b, j.at) /\ Comes(c) = Frame(b)[j.at]
         /\ d.readAddress = Address(j) + BlockSize
<1>1. BlockSize \in Nat \ {0}
  BY CardAssumption
<1>2. /\ c \in Cards /\ c.cmd = << >> /\ ~c.writing
      /\ c.readQueue = Left(b, j.at - 1) /\ c.readAddress = Address(j) + BlockSize
      /\ ReadParts(j, n, many) /\ j.part \in 2 .. n + 1 /\ j.at \in 1 .. Len(Part(j))
  BY DEF IsReadOf, ReadComing, Flows
<1>3. Address(j) \in Nat
  BY <1>2, AddressIs
<1>4. b \in Seq(Values) /\ Len(b) = BlockSize
  BY <1>2, <1>3, BlockIs
<1>5. PICK k : k = j.at - 1
  OBVIOUS
<1>6. k \in 0 .. BlockSize + 2 /\ k + 1 = j.at
  <2>1. PICK cut \in 0 .. BlockSize + 2 : IsIncoming(Part(j), BlockSize, cut)
    BY <1>2 DEF ReadParts, Part
  <2>2. j.at \in 1 .. BlockSize + 3 - cut
    BY <1>2, <2>1 DEF IsIncoming
  <2> QED
    BY <1>1, <1>5, <2>2
<1>7. /\ d \in Cards /\ SameCard(d, c) /\ d.cmd = << >>
      /\ d.readQueue = Left(b, k + 1) /\ Comes(c) = Frame(b)[k + 1]
      /\ d.readAddress = c.readAddress
  BY <1>2, <1>4, <1>5, <1>6, FrameComes
<1> QED
  BY <1>2, <1>6, <1>7

LEMMA ReadAwaits ==
  ASSUME NEW j, NEW c, NEW n, NEW many, IsReadOf(j, c, n, many),
         ReadComing(j, c, n, many), j.at = 1, NEW d, d = Clocks(c)
  PROVE  /\ d.file = c.file
         /\ Comes(c) = StartToken => IsReadOf(Rest(j), d, n, many)
         /\ Comes(c) # StartToken => IsReadOf(j, d, n, many)
<1>1. BlockSize \in Nat \ {0}
  BY CardAssumption
<1>2. PICK a, b, i : a = Address(j) /\ b = Block(c, a) /\ i = Rest(j)
  OBVIOUS
<1>3. /\ c \in Cards /\ c.cmd = << >> /\ ~c.writing /\ Flows(c, many)
      /\ AtToken(c, a) /\ ReadParts(j, n, many) /\ j.part \in 2 .. n + 1
      /\ IsJob(j) /\ j.op = "read" /\ GotIs(j, c)
      /\ Len(j.got) = a - Start(j) + Collected(1, BlockSize) /\ 1 \in 1 .. Len(Part(j))
  BY <1>2 DEF IsReadOf, ReadComing, Flows
<1>4. a \in Nat /\ Start(j) \in Nat
  BY <1>2, <1>3, AddressIs
<1>5. b \in Seq(Values) /\ Len(b) = BlockSize
  BY <1>2, <1>3, <1>4, BlockIs
<1>6. PICK f : f = Frame(b)
  OBVIOUS
<1>7. /\ f \in Seq(Values) /\ f # << >> /\ Head(f) = StartToken
      /\ Tail(f) = Left(b, 1) /\ Empty \in Values
  <2>1. 0 \in 0 .. Len(b) + 2
    BY <1>1, <1>5
  <2>2. f = Left(b, 0)
    BY <1>5, <1>6, LeftEnds
  <2>3. /\ f \in Seq(Values) /\ f # << >> /\ Head(f) = Frame(b)[0 + 1]
        /\ Tail(f) = Left(b, 0 + 1)
    BY <1>5, <2>1, <2>2, LeftIs
  <2>4. Frame(b)[1] = StartToken
    BY <1>5, FrameIs
  <2> QED
    BY <2>3, <2>4 DEF Empty, Values
<1>8. /\ d \in Cards /\ SameCard(d, c) /\ d.cmd = << >>
      /\ d.readAddress = a + BlockSize
      /\ Upcoming(c) # << >> =>
           d.readQueue = Tail(Upcoming(c)) /\ Comes(c) = Head(Upcoming(c))
  BY <1>3, ClockIs DEF AtToken
<1>9. /\ d.file = c.file /\ Flows(d, many) /\ ~d.appCmd /\ ~d.idle
      /\ GotIs(j, d) /\ Block(d, a) = b
  <2>1. d.file = c.file /\ Flows(d, many) /\ ~d.appCmd /\ ~d.idle
    BY <1>3, <1>8 DEF IsReadOf, SameCard, Flows
  <2> QED
    BY <1>2, <1>3, <2>1, SameBlocks DEF GotIs
<1>10. CASE Upcoming(c) = f
  <2>1. Comes(c) = StartToken /\ d.readQueue = Left(b, 1)
    BY <1>7, <1>8, <1>10
  <2>2. /\ j.at < Len(Part(j)) => Moved(i, j, j.part, j.at + 1)
        /\ ~(j.at < Len(Part(j))) =>
             IF j.part < Len(j.parts) THEN Moved(i, j, j.part + 1, 1) ELSE i = NoJob
    BY <1>2, ComingMoves
  <2>3. ~(j.at < Len(Part(j))) => j.part < Len(j.parts)
    <3>1. PICK cut \in 0 .. BlockSize + 2 :
            /\ IsIncoming(Part(j), BlockSize, cut)
            /\ cut = 0 \/ (many /\ j.part = n + 1)
      BY <1>3 DEF ReadParts, Part
    <3>2. cut = 0 => j.at < Len(Part(j))
      BY <1>1, <3>1 DEF IsIncoming
    <3>3. many /\ j.part = n + 1 => j.part < Len(j.parts)
      BY <1>3 DEF ReadParts
    <3> QED
      BY <3>1, <3>2, <3>3
  <2>4. /\ IsJob(i) /\ i.op = "read" /\ i.parts = j.parts /\ i.block = j.block
        /\ i.got = j.got
        /\ j.at < Len(Part(j)) => i.part = j.part /\ i.at = j.at + 1
        /\ ~(j.at < Len(Part(j))) => i.part = j.part + 1 /\ i.at = 1
    BY <1>3, <2>2, <2>3 DEF Moved
  <2>5. ReadParts(i, n, many) /\ Start(i) = Start(j) /\ GotIs(i, d)
    BY <1>3, <1>9, <2>4 DEF ReadParts, Start, GotIs
  <2>6. Collected(1, BlockSize) = 0 /\ Collected(j.at + 1, BlockSize) = 0
    BY DEF Collected
  <2>7. Len(i.got) = Address(j) - Start(j) + Collected(j.at + 1, BlockSize)
    BY <1>2, <1>3, <2>4, <2>6
  <2>8. d.readQueue = Left(Block(c, Address(j)), j.at)
    BY <1>2, <2>1
  <2>9. d.readAddress = Address(j) + BlockSize
    BY <1>2, <1>8
  <2>10. IsReadOf(i, d, n, many)
    BY <1>8, <2>3, <2>4, <2>5, <2>7, <2>8, <2>9, ComingGoesOn
  <2> QED
    BY <1>2, <1>9, <2>1, <2>10
<1>11. CASE Upcoming(c) = <<Empty>> \o f
  <2>1. Comes(c) = Empty /\ d.readQueue = f
    BY <1>7, <1>8, <1>11, PutBefore
  <2>2. AtToken(d, a)
    BY <1>6, <1>7, <1>8, <1>9, <2>1 DEF AtToken, Upcoming, AddressThen, OnDemand
  <2>3. ReadComing(j, d, n, many)
    BY <1>2, <1>3, <1>8, <1>9, <2>2 DEF ReadComing
  <2> QED
    BY <1>3, <1>8, <1>9, <2>1, <2>3 DEF IsReadOf, Empty, StartToken
<1> QED
  BY <1>2, <1>3, <1>6, <1>10, <1>11 DEF AtToken

LEMMA OneMoreByte ==
  ASSUME NEW a \in Nat, NEW s \in Nat, s <= a, NEW k \in Nat, k >= 2,
         NEW l, l = a - s + (k - 2)
  PROVE  l \in Nat /\ s + (l + 1) - 1 = a + (k - 1) - 1 /\ l + 1 = a - s + (k - 1)
OBVIOUS

LEMMA ReadCollects ==
  ASSUME NEW j, NEW c, NEW n, NEW many, IsReadOf(j, c, n, many),
         ReadComing(j, c, n, many), j.at \in 2 .. BlockSize + 1,
         NEW d, d = Clocks(c),
         NEW i, i = [Rest(j) EXCEPT !.got = Append(@, Comes(c))]
  PROVE  IsReadOf(i, d, n, many) /\ d.file = c.file
<1>1. BlockSize \in Nat \ {0}
  BY CardAssumption
<1>2. PICK a, b, s, k, v : /\ a = Address(j) /\ b = Block(c, a) /\ s = Start(j)
                           /\ k = j.at /\ v = Comes(c)
  OBVIOUS
<1>3. /\ c \in Cards /\ ReadParts(j, n, many) /\ j.part \in 2 .. n + 1
      /\ IsJob(j) /\ j.op = "read" /\ GotIs(j, c)
      /\ Len(j.got) = a - s + Collected(k, BlockSize) /\ k \in 1 .. Len(Part(j))
      /\ k \in 2 .. BlockSize + 1
  BY <1>2 DEF IsReadOf, ReadComing
<1>4. a \in Nat /\ s \in Nat /\ s <= a /\ a + BlockSize <= FileSize
  BY <1>2, <1>3, AddressIs
<1>5. /\ b \in Seq(Values) /\ Len(b) = BlockSize
      /\ \A m \in 1 .. BlockSize : b[m] = c.file[a + m - 1]
  BY <1>2, <1>3, <1>4, BlockIs
<1>6. /\ d \in Cards /\ SameCard(d, c) /\ d.cmd = << >>
      /\ d.readQueue = Left(b, k) /\ v = Frame(b)[k]
      /\ d.readAddress = a + BlockSize
  <2>1. j.at > 1
    OBVIOUS
  <2> QED
    BY <1>2, <2>1, ComingClocks
<1>7. k - 1 \in 1 .. BlockSize
  BY <1>1, <1>3
<1>8. v = c.file[a + (k - 1) - 1] /\ v \in Values
  <2>1. v = b[k - 1]
    BY <1>3, <1>5, <1>6, FrameIs
  <2>2. b[k - 1] = c.file[a + (k - 1) - 1] /\ b[k - 1] \in Values
    BY <1>5, <1>7
  <2> QED
    BY <2>1, <2>2
<1>9. /\ k < Len(Part(j)) => Moved(Rest(j), j, j.part, k + 1)
      /\ ~(k < Len(Part(j))) =>
           j.part < Len(j.parts) /\ Moved(Rest(j), j, j.part + 1, 1)
  <2>1. PICK cut \in 0 .. BlockSize + 2 :
          /\ IsIncoming(Part(j), BlockSize, cut)
          /\ cut = 0 \/ (many /\ j.part = n + 1)
    BY <1>3 DEF ReadParts, Part
  <2>2. cut = 0 => k < Len(Part(j))
    BY <1>1, <1>3, <2>1 DEF IsIncoming
  <2>3. many /\ j.part = n + 1 => j.part < Len(j.parts)
    BY <1>3 DEF ReadParts
  <2> QED
    BY <1>2, <2>1, <2>2, <2>3, ComingMoves
<1>10. /\ k < Len(Part(j)) => Grew(i, j, j.part, k + 1, v)
       /\ ~(k < Len(Part(j))) => Grew(i, j, j.part + 1, 1, v)
  BY <1>2, <1>9, RestGrows
<1>11. /\ IsJob(i) /\ i.op = "read" /\ i.parts = j.parts /\ i.block = j.block
       /\ i.got = Append(j.got, v)
       /\ j.at < Len(Part(j)) => i.part = j.part /\ i.at = j.at + 1
       /\ ~(j.at < Len(Part(j))) =>
            j.part < Len(j.parts) /\ i.part = j.part + 1 /\ i.at = 1
  BY <1>2, <1>3, <1>9, <1>10 DEF Grew
<1>12. ReadParts(i, n, many) /\ Start(i) = s
  BY <1>2, <1>3, <1>11 DEF ReadParts, Start
<1>13. PICK g, h, l : g = j.got /\ h = i.got /\ l = a - s + (k - 2)
  OBVIOUS
<1>14. Collected(k, BlockSize) = k - 2 /\ Collected(k + 1, BlockSize) = k - 1
  BY <1>1, <1>3 DEF Collected
<1>15. /\ g \in Seq(Values) /\ Len(g) = l
       /\ \A m \in 1 .. l : g[m] = c.file[s + m - 1]
  BY <1>2, <1>3, <1>13, <1>14 DEF GotIs
<1>16. l \in Nat /\ s + (l + 1) - 1 = a + (k - 1) - 1 /\ l + 1 = a - s + (k - 1)
  <2>1. k \in Nat /\ k >= 2
    BY <1>1, <1>3
  <2> QED
    BY <1>4, <1>13, <2>1, OneMoreByte
<1>17. h \in Seq(Values) /\ Longer(h, g, l, v)
  BY <1>8, <1>11, <1>13, <1>15, AppendedIs
<1>18. Len(h) = l + 1 /\ h[l + 1] = v /\ \A m \in 1 .. l : h[m] = g[m]
  BY <1>17 DEF Longer
<1>19. \A m \in 1 .. l + 1 : m = l + 1 \/ m \in 1 .. l
  BY <1>16
<1>20. \A m \in 1 .. l + 1 : h[m] = c.file[s + m - 1]
  BY <1>8, <1>15, <1>16, <1>18, <1>19
<1>21. d.file = c.file
  BY <1>6 DEF SameCard
<1>22. GotIs(i, d)
  BY <1>12, <1>13, <1>17, <1>18, <1>20, <1>21 DEF GotIs
<1>23. Len(i.got) = Address(j) - Start(j) + Collected(j.at + 1, BlockSize)
  BY <1>2, <1>13, <1>14, <1>16, <1>18
<1> QED
  BY <1>2, <1>6, <1>11, <1>12, <1>21, <1>22, <1>23, ComingGoesOn

LEMMA ReadSkips ==
  ASSUME NEW j, NEW c, NEW n, NEW many, IsReadOf(j, c, n, many),
         ReadComing(j, c, n, many), j.at > BlockSize + 1,
         NEW d, d = Clocks(c)
  PROVE  /\ d.file = c.file
         /\ Rest(j) = NoJob => Free(d) /\ ~d.idle
         /\ Rest(j) # NoJob => IsReadOf(Rest(j), d, n, many)
<1>1. BlockSize \in Nat \ {0}
  BY CardAssumption
<1>2. PICK a, b, k, i : a = Address(j) /\ b = Block(c, a) /\ k = j.at /\ i = Rest(j)
  OBVIOUS
<1>3. /\ c \in Cards /\ ReadParts(j, n, many) /\ j.part \in 2 .. n + 1
      /\ IsJob(j) /\ j.op = "read" /\ GotIs(j, c) /\ ~c.appCmd /\ ~c.idle
      /\ Len(j.got) = a - Start(j) + Collected(k, BlockSize) /\ k \in 1 .. Len(Part(j))
      /\ Flows(c, many)
  BY <1>2 DEF IsReadOf, ReadComing
<1>4. a \in Nat
  BY <1>2, <1>3, AddressIs
<1>5. b \in Seq(Values) /\ Len(b) = BlockSize
  BY <1>2, <1>3, <1>4, BlockIs
<1>6. /\ d \in Cards /\ SameCard(d, c) /\ d.cmd = << >>
      /\ d.readQueue = Left(b, k) /\ d.readAddress = a + BlockSize
  <2>1. j.at > 1
    BY <1>1, <1>2, <1>3
  <2> QED
    BY <1>2, <2>1, ComingClocks
<1>7. PICK cut \in 0 .. BlockSize + 2 :
        /\ IsIncoming(Part(j), BlockSize, cut)
        /\ cut = 0 \/ (many /\ j.part = n + 1)
  BY <1>3 DEF ReadParts, Part
<1>8. Len(Part(j)) = BlockSize + 3 - cut
  BY <1>7 DEF IsIncoming
<1>9. d.file = c.file /\ ~d.appCmd /\ ~d.idle /\ Flows(d, many)
  BY <1>3, <1>6 DEF SameCard, Flows
<1>10. CASE ~(k < Len(Part(j))) /\ ~(j.part < Len(j.parts))
  <2>1. ~many
    BY <1>3, <1>10 DEF ReadParts
  <2>2. k = BlockSize + 3
    BY <1>1, <1>3, <1>7, <1>8, <1>10, <2>1
  <2>3. d.readQueue = << >>
    BY <1>5, <1>6, <2>2, LeftEnds
  <2>4. i = NoJob
    BY <1>2, <1>10, RestIsNone
  <2> QED
    BY <1>2, <1>6, <1>9, <2>1, <2>3, <2>4 DEF Free, Still, Calm, Flows
<1>11. CASE k < Len(Part(j)) \/ j.part < Len(j.parts)
  <2>1. /\ k < Len(Part(j)) => Moved(i, j, j.part, k + 1)
        /\ ~(k < Len(Part(j))) => Moved(i, j, j.part + 1, 1)
    BY <1>2, <1>11, ComingMoves
  <2>2. /\ IsJob(i) /\ i.op = "read" /\ i.parts = j.parts /\ i.block = j.block
        /\ i.got = j.got
        /\ j.at < Len(Part(j)) => i.part = j.part /\ i.at = j.at + 1
        /\ ~(j.at < Len(Part(j))) =>
             j.part < Len(j.parts) /\ i.part = j.part + 1 /\ i.at = 1
    BY <1>2, <1>3, <1>11, <2>1 DEF Moved
  <2>3. ReadParts(i, n, many) /\ Start(i) = Start(j) /\ GotIs(i, d)
    BY <1>3, <1>9, <2>2 DEF ReadParts, Start, GotIs
  <2>4. Collected(k, BlockSize) = BlockSize /\ Collected(k + 1, BlockSize) = BlockSize
    BY <1>1, <1>2, <1>3 DEF Collected
  <2>5. i # NoJob
    BY <2>2, NoJobIs
  <2>6. IsReadOf(i, d, n, many)
    BY <1>2, <1>3, <1>6, <2>2, <2>3, <2>4, ComingGoesOn
  <2> QED
    BY <1>2, <1>9, <2>5, <2>6
<1> QED
  BY <1>10, <1>11

(* What stops the reading. *)
LEMMA StopMoves ==
  ASSUME NEW j, NEW c, NEW n, IsReadOf(j, c, n, TRUE),
         ReadStopping(j, c, n)
  PROVE  /\ IsStop(Part(j)) /\ Len(j.parts) = j.part
         /\ j.at < 8 => Moved(Rest(j), j, j.part, j.at + 1)
         /\ j.at = 8 => Rest(j) = NoJob
<1>1. IsJob(j) /\ IsStop(Part(j)) /\ j.part = n + 2 /\ Len(j.parts) = n + 2
  BY DEF IsReadOf, ReadParts, ReadStopping, Part
<1>2. Len(Part(j)) = 8 /\ n + 2 \in Int
  BY <1>1 DEF IsStop, IsReadOf, ReadParts
<1>3. ASSUME j.at < 8
      PROVE  Moved(Rest(j), j, j.part, j.at + 1)
  <2>1. j.at < Len(Part(j))
    BY <1>2, <1>3
  <2> QED
    BY <1>1, <2>1, RestInPart
<1>4. ASSUME j.at = 8
      PROVE  Rest(j) = NoJob
  <2>1. ~(j.at < Len(Part(j))) /\ ~(j.part < Len(j.parts))
    BY <1>1, <1>2, <1>4
  <2> QED
    BY <2>1, RestIsNone
<1> QED
  BY <1>1, <1>3, <1>4

LEMMA StopGoesOn ==
  ASSUME NEW j, NEW c, NEW n, IsReadOf(j, c, n, TRUE),
         ReadStopping(j, c, n), j.at < 8,
         NEW d \in Cards, d.file = c.file, d.idle <=> c.idle, ~d.appCmd,
         ReadStopping(Rest(j), d, n)
  PROVE  IsReadOf(Rest(j), d, n, TRUE)
<1>1. PICK i : i = Rest(j)
  OBVIOUS
<1>2. Moved(i, j, j.part, j.at + 1)
  BY <1>1, StopMoves
<1>3. ReadParts(i, n, TRUE) /\ GotIs(i, d)
  BY <1>2 DEF IsReadOf, Moved, ReadParts, GotIs, Start
<1> QED
  BY <1>1, <1>2, <1>3 DEF IsReadOf, Moved

LEMMA StopSends ==
  ASSUME NEW j, NEW c, NEW n, IsReadOf(j, c, n, TRUE),
         ReadStopping(j, c, n), j.at \in 1 .. 6,
         NEW d, d = Write(c, Now(j).val)
  PROVE  IsReadOf(Rest(j), d, n, TRUE) /\ d.file = c.file
<1>1. PICK i, P : i = Rest(j) /\ P = Part(j)
  OBVIOUS
<1>2. /\ IsStop(P) /\ Moved(i, j, j.part, j.at + 1) /\ j.part = n + 2
      /\ j.at < 8
  <2>1. j.at < 8 /\ j.part = n + 2
    BY DEF ReadStopping
  <2> QED
    BY <1>1, <2>1, StopMoves
<1>3. Part(i) = P /\ i.part = n + 2 /\ i.at = j.at + 1
  BY <1>1, <1>2 DEF Moved, Part
<1>4. /\ c \in Cards /\ Sent(c, P, j.at) /\ Flows(c, TRUE) /\ ~c.appCmd
  <2>1. j.at <= 6
    OBVIOUS
  <2> QED
    BY <1>1, <2>1 DEF IsReadOf, ReadStopping
<1>5. \A k \in 1 .. 6 : P[k].val \in Values
  BY <1>2 DEF IsStop
<1>6. P[1].val = 76
  BY <1>2 DEF IsStop
<1>7. CASE j.at \in 1 .. 5
  <2>1. P[j.at].val \in Values /\ P[1].val \in 64 .. 127
    BY <1>5, <1>6, <1>7
  <2>2. Passed(d, c) /\ Sent(d, P, j.at + 1)
    BY <1>1, <1>4, <1>7, <2>1, CommandGoesOn DEF Now, Flows
  <2>3. i.at \in 1 .. 8 /\ i.at # 7 /\ i.at # 8
    BY <1>3, <1>7
  <2>4. /\ d \in Cards /\ d.file = c.file /\ (d.idle <=> c.idle) /\ ~d.appCmd
        /\ Flows(d, TRUE)
    BY <1>4, <2>2 DEF Passed, SameCard, Flows
  <2>5. ReadStopping(i, d, n)
    <3>1. Sent(d, Part(i), i.at)
      BY <1>3, <2>2
    <3> QED
      BY <1>3, <2>3, <2>4, <3>1, Zenon DEF ReadStopping
  <2> QED
    BY <1>1, <1>2, <2>4, <2>5, StopGoesOn
<1>8. CASE j.at = 6
  <2>1. PICK m : /\ Given(m, c) /\ d = SentOnDemand(Executed(m))
                 /\ \A k \in 1 .. 6 : m.cmd[k] = P[k].val
    BY <1>1, <1>4, <1>5, <1>8, CommandEnds DEF Now
  <2>2. m \in Cards /\ ~m.appCmd /\ m.cmd[1] = 76 /\ m.file = c.file /\ (m.idle <=> c.idle)
    BY <1>4, <1>6, <2>1 DEF Given, SameCard
  <2>3. Answers(d, m, <<Empty, 0>>, m.idle, FALSE)
    BY <2>1, <2>2, StopAnswer
  <2>4. /\ d \in Cards /\ d.file = c.file /\ (d.idle <=> c.idle) /\ ~d.appCmd
        /\ Calm(d) /\ d.cmd = << >> /\ d.readQueue = <<Empty, 0>>
    BY <2>2, <2>3 DEF Answers
  <2>5. i.at = 7 /\ i.at \in 1 .. 8 /\ ~(i.at <= 6) /\ i.at # 8
    BY <1>3, <1>8
  <2>6. ReadStopping(i, d, n)
    BY <1>3, <2>4, <2>5, Zenon DEF ReadStopping
  <2> QED
    BY <1>1, <1>2, <2>4, <2>6, StopGoesOn
<1>9. j.at \in 1 .. 5 \/ j.at = 6
  OBVIOUS
<1> QED
  BY <1>7, <1>8, <1>9, Zenon

LEMMA StopSkips ==
  ASSUME NEW j, NEW c, NEW n, IsReadOf(j, c, n, TRUE),
         ReadStopping(j, c, n), j.at = 7, NEW d, d = Clocks(c)
  PROVE  IsReadOf(Rest(j), d, n, TRUE) /\ d.file = c.file /\ Rest(j) # NoJob
<1>1. PICK i, q : i = Rest(j) /\ q = <<0>>
  OBVIOUS
<1>2. /\ Moved(i, j, j.part, j.at + 1) /\ j.part = n + 2 /\ j.at < 8
      /\ j.op = "read"
  <2>1. j.part = n + 2 /\ j.at < 8 /\ j.op = "read"
    BY DEF ReadStopping, IsReadOf
  <2> QED
    BY <1>1, <2>1, StopMoves
<1>3. /\ c \in Cards /\ Calm(c) /\ c.cmd = << >> /\ c.readQueue = <<Empty, 0>> /\ ~c.appCmd
  BY DEF IsReadOf, ReadStopping
<1>4. q \in Seq(Values) /\ Empty \in Values
  <2>1. 0 \in Values /\ Empty \in Values
    BY DEF Values, Empty
  <2> QED
    BY <1>1, <2>1, ShortIs
<1>5. c.readQueue = <<Empty>> \o q
  BY <1>1, <1>3
<1>6. d \in Cards /\ SameCard(d, c) /\ d.cmd = << >> /\ d.readQueue = q
  BY <1>3, <1>4, <1>5, QueueComes DEF Calm
<1>7. d.file = c.file /\ (d.idle <=> c.idle) /\ ~d.appCmd /\ Calm(d)
  BY <1>3, <1>6 DEF SameCard, Calm
<1>8. i.at = 8 /\ i.part = n + 2 /\ i.op = "read"
  BY <1>2 DEF Moved
<1>9. ReadStopping(i, d, n)
  BY <1>1, <1>2, <1>6, <1>7, <1>8 DEF ReadStopping
<1> QED
  BY <1>1, <1>2, <1>6, <1>7, <1>8, <1>9, StopGoesOn, NoJobIs

LEMMA StopHears ==
  ASSUME NEW j, NEW c, NEW n, IsReadOf(j, c, n, TRUE),
         ReadStopping(j, c, n), j.at = 8, NEW d, d = Clocks(c)
  PROVE  /\ Comes(c) = 0 /\ d.file = c.file /\ Rest(j) = NoJob
         /\ Free(d) /\ ~d.idle
<1>1. /\ c \in Cards /\ Calm(c) /\ c.cmd = << >> /\ c.readQueue = <<0>>
      /\ ~c.appCmd /\ ~c.idle
  BY DEF IsReadOf, ReadStopping
<1>2. 0 \in Values
  BY DEF Values
<1>3. /\ d \in Cards /\ SameCard(d, c) /\ d.cmd = << >> /\ d.readQueue = << >>
      /\ Comes(c) = 0
  BY <1>1, <1>2, OneByteComes DEF Calm
<1>4. Rest(j) = NoJob
  BY StopMoves
<1> QED
  BY <1>1, <1>3, <1>4 DEF SameCard, Calm, Free, Still

-----------------------------------------------------------------------------
(* The bytes of a block that is written. *)
Alike(d, c) ==
  /\ d \in Cards /\ d.cmd = << >> /\ d.readQueue = c.readQueue
  /\ (d.idle <=> c.idle) /\ (d.appCmd <=> c.appCmd) /\ ~d.reading
  /\ d.file = c.file

(* The card waits for a block, or takes one. *)
Writing(c, token) ==
  /\ c \in Cards /\ c.cmd = << >> /\ ~c.reading /\ c.writing
  /\ c.gotToken <=> token

LEMMA WriteIs ==
  ASSUME NEW c, NEW token \in BOOLEAN, Writing(c, token)
  PROVE  \E t : /\ Alike(t, c) /\ Writing(t, token)
                /\ t.writeAddress = c.writeAddress /\ t.writeOffset = c.writeOffset
                /\ t.writeBuf = c.writeBuf /\ (t.multi <=> c.multi)
                /\ \A val : Write(c, val) = SentOnDemand(WriteByte(t, val))
<1>1. PICK t : t = [c EXCEPT !.didWrite = TRUE]
  OBVIOUS
<1>2. /\ t \in Cards /\ t.cmd = << >> /\ t.readQueue = c.readQueue
      /\ (t.idle <=> c.idle) /\ (t.appCmd <=> c.appCmd) /\ ~t.reading
      /\ t.file = c.file /\ t.writing /\ (t.gotToken <=> token)
      /\ t.writeAddress = c.writeAddress /\ t.writeOffset = c.writeOffset
      /\ t.writeBuf = c.writeBuf /\ (t.multi <=> c.multi)
  BY <1>1 DEF Writing, Cards
<1>3. \A val : Taken(t, val) = WriteByte(t, val)
  BY <1>2 DEF Taken
<1>4. \A val : Write(c, val) = SentOnDemand(WriteByte(t, val))
  BY <1>1, <1>3 DEF Write
<1> QED
  BY <1>2, <1>4 DEF Alike, Writing

TokenOf(c) == IF c.multi THEN MultiToken ELSE StartToken

LEMMA TokenIs ==
  ASSUME NEW c, Writing(c, FALSE), NEW d, d = Write(c, TokenOf(c))
  PROVE  /\ Alike(d, c) /\ Writing(d, TRUE) /\ (d.multi <=> c.multi)
         /\ d.writeAddress = c.writeAddress /\ d.writeOffset = c.writeOffset
<1>1. PICK t : /\ Alike(t, c) /\ Writing(t, FALSE)
               /\ t.writeAddress = c.writeAddress /\ t.writeOffset = c.writeOffset
               /\ t.writeBuf = c.writeBuf /\ (t.multi <=> c.multi)
               /\ \A v : Write(c, v) = SentOnDemand(WriteByte(t, v))
  BY WriteIs
<1>2. PICK e : e = [t EXCEPT !.gotToken = TRUE]
  OBVIOUS
<1>3. /\ e \in Cards /\ e.cmd = << >> /\ e.readQueue = t.readQueue
      /\ (e.idle <=> t.idle) /\ (e.appCmd <=> t.appCmd) /\ ~e.reading
      /\ e.file = t.file /\ e.writing /\ (e.gotToken <=> TRUE)
      /\ e.writeAddress = t.writeAddress /\ e.writeOffset = t.writeOffset
      /\ (e.multi <=> t.multi)
  BY <1>1, <1>2 DEF Writing, Cards
<1>4. WriteByte(t, TokenOf(c)) = e
  BY <1>1, <1>2 DEF WriteByte, Writing, TokenOf
<1>5. d = e
  BY <1>1, <1>3, <1>4 DEF SentOnDemand
<1> QED
  BY <1>1, <1>3, <1>5 DEF Alike, Writing

LEMMA DataByteIs ==
  ASSUME NEW c, Writing(c, TRUE), NEW val \in Values, c.writeOffset # BlockSize + 1,
         NEW d, d = Write(c, val)
  PROVE  /\ Alike(d, c) /\ Writing(d, TRUE) /\ (d.multi <=> c.multi)
         /\ d.writeAddress = c.writeAddress /\ d.writeOffset = c.writeOffset + 1
         /\ d.writeBuf = IF c.writeOffset < BlockSize
                         THEN [c.writeBuf EXCEPT ![c.writeOffset] = val] ELSE c.writeBuf
<1>1. PICK t : /\ Alike(t, c) /\ Writing(t, TRUE)
               /\ t.writeAddress = c.writeAddress /\ t.writeOffset = c.writeOffset
               /\ t.writeBuf = c.writeBuf /\ (t.multi <=> c.multi)
               /\ \A v : Write(c, v) = SentOnDemand(WriteByte(t, v))
  BY WriteIs
<1>2. PICK o, w : /\ o = c.writeOffset + 1
                  /\ w = IF c.writeOffset < BlockSize
                         THEN [c.writeBuf EXCEPT ![c.writeOffset] = val] ELSE c.writeBuf
  OBVIOUS
<1>3. o \in 0 .. BlockSize + 1 /\ w \in [0 .. BlockSize - 1 -> Values]
  <2>1. /\ c.writeOffset \in 0 .. BlockSize + 1
        /\ c.writeBuf \in [0 .. BlockSize - 1 -> Values]
    BY DEF Writing, Cards
  <2>2. BlockSize \in Nat
    BY CardAssumption
  <2> QED
    BY <1>2, <2>1, <2>2
<1>4. PICK e : e = [t EXCEPT !.writeBuf = w, !.writeOffset = o]
  OBVIOUS
<1>5. /\ e \in Cards /\ e.cmd = << >> /\ e.readQueue = t.readQueue
      /\ (e.idle <=> t.idle) /\ (e.appCmd <=> t.appCmd) /\ ~e.reading
      /\ e.file = t.file /\ e.writing /\ (e.gotToken <=> TRUE)
      /\ e.writeAddress = t.writeAddress /\ e.writeOffset = o
      /\ (e.multi <=> t.multi) /\ e.writeBuf = w
  BY <1>1, <1>3, <1>4 DEF Writing, Cards
<1>6. WriteByte(t, val) = e
  <2>1. WriteByte(t, val) = DataByte(t, val)
    BY <1>1 DEF WriteByte, Writing
  <2>2. DataByte(t, val) =
          [t EXCEPT !.writeBuf = IF t.writeOffset < BlockSize
                                 THEN [@ EXCEPT ![t.writeOffset] = val] ELSE @,
                    !.writeOffset = @ + 1]
    BY <1>1 DEF DataByte
  <2> QED
    BY <1>1, <1>2, <1>4, <2>1, <2>2 DEF Writing, Cards
<1>7. d = e
  BY <1>1, <1>5, <1>6 DEF SentOnDemand
<1> QED
  BY <1>1, <1>2, <1>5, <1>7 DEF Alike, Writing

(* The file with the buffer at address a. *)
Stored(c) ==
  [a \in DOMAIN c.file |-> IF (a - c.writeAddress) \in 0 .. BlockSize - 1
                           THEN c.writeBuf[a - c.writeAddress] ELSE c.file[a]]

LEMMA StoredIs ==
  ASSUME NEW c \in Cards
  PROVE  Stored(c) \in [0 .. FileSize - 1 -> Values]
<1>1. /\ c.file \in [0 .. FileSize - 1 -> Values]
      /\ c.writeBuf \in [0 .. BlockSize - 1 -> Values]
  BY DEF Cards
<1>2. DOMAIN c.file = 0 .. FileSize - 1
  BY <1>1
<1>3. ASSUME NEW a \in 0 .. FileSize - 1
      PROVE  (IF (a - c.writeAddress) \in 0 .. BlockSize - 1
              THEN c.writeBuf[a - c.writeAddress] ELSE c.file[a]) \in Values
  BY <1>1, <1>3
<1> QED
  BY <1>2, <1>3 DEF Stored

(* The last byte of a block. *)
LEMMA CommitIs ==
  ASSUME NEW c, Writing(c, TRUE), NEW val, c.writeOffset = BlockSize + 1,
         c.readQueue = << >>, NEW d, d = Write(c, val)
  PROVE  /\ d \in Cards /\ d.cmd = << >> /\ d.readQueue = <<Accepted, Busy>>
         /\ (d.idle <=> c.idle) /\ (d.appCmd <=> c.appCmd) /\ ~d.reading
         /\ (d.writing <=> c.multi) /\ (d.multi <=> c.multi)
         /\ c.multi => ~d.gotToken /\ d.writeOffset = 0
         /\ d.writeAddress = c.writeAddress + BlockSize /\ d.file = Stored(c)
<1>1. PICK t : /\ Alike(t, c) /\ Writing(t, TRUE)
               /\ t.writeAddress = c.writeAddress /\ t.writeOffset = c.writeOffset
               /\ t.writeBuf = c.writeBuf /\ (t.multi <=> c.multi)
               /\ \A v : Write(c, v) = SentOnDemand(WriteByte(t, v))
  BY WriteIs
<1>2. PICK q : q = <<Accepted, Busy>>
  OBVIOUS
<1>3. q \in Seq(Values) /\ q # << >>
  BY <1>2 DEF Values, Accepted, Busy
<1>4. PICK x : x = Push(t, q)
  OBVIOUS
<1>5. x = [t EXCEPT !.readQueue = q]
  <2>1. t.readQueue = << >> /\ << >> \o q = q
    BY <1>1, <1>3 DEF Alike
  <2> QED
    BY <1>1, <1>4, <2>1 DEF Push, Writing, Cards
<1>6. /\ x \in Cards /\ x.cmd = << >> /\ x.readQueue = q
      /\ (x.idle <=> c.idle) /\ (x.appCmd <=> c.appCmd) /\ ~x.reading
      /\ x.file = c.file /\ x.writing /\ (x.multi <=> c.multi)
      /\ x.writeAddress = c.writeAddress /\ x.writeBuf = c.writeBuf
  BY <1>1, <1>3, <1>5 DEF Writing, Alike, Cards
<1>7. PICK y : y = AfterBlock(x)
  OBVIOUS
<1>8. /\ y \in Cards /\ y.cmd = << >> /\ y.readQueue = q
      /\ (y.idle <=> c.idle) /\ (y.appCmd <=> c.appCmd) /\ ~y.reading
      /\ y.file = c.file /\ (y.writing <=> c.multi) /\ (y.multi <=> c.multi)
      /\ y.writeAddress = c.writeAddress /\ y.writeBuf = c.writeBuf
      /\ c.multi => ~y.gotToken /\ y.writeOffset = 0
  <2>1. CASE c.multi
    <3>1. y = [x EXCEPT !.writeOffset = 0, !.gotToken = FALSE]
      BY <1>6, <1>7, <2>1 DEF AfterBlock
    <3>2. 0 \in 0 .. BlockSize + 1
      BY CardAssumption
    <3> QED
      BY <1>6, <2>1, <3>1, <3>2 DEF Cards
  <2>2. CASE ~c.multi
    <3>1. y = [x EXCEPT !.writing = FALSE]
      BY <1>6, <1>7, <2>2 DEF AfterBlock
    <3> QED
      BY <1>6, <2>2, <3>1 DEF Cards
  <2> QED
    BY <2>1, <2>2
<1>9. PICK f, m : f = Stored(c) /\ m = c.writeAddress + BlockSize
  OBVIOUS
<1>10. f \in [0 .. FileSize - 1 -> Values] /\ m \in Nat
  <2>1. c.writeAddress \in Nat /\ BlockSize \in Nat
    BY CardAssumption DEF Writing, Cards
  <2> QED
    BY <1>9, <2>1, StoredIs DEF Writing
<1>11. PICK z : z = [y EXCEPT !.file = f, !.writeAddress = m]
  OBVIOUS
<1>12. Committed(y) = z
  <2>1. Committed(y) = [y EXCEPT !.file = Stored(y), !.writeAddress = y.writeAddress + BlockSize]
    BY <1>8 DEF Committed, Stored, Cards
  <2>2. Stored(y) = f
    BY <1>8, <1>9 DEF Stored
  <2> QED
    BY <1>8, <1>9, <1>11, <2>1, <2>2
<1>13. /\ z \in Cards /\ z.cmd = << >> /\ z.readQueue = q
       /\ (z.idle <=> y.idle) /\ (z.appCmd <=> y.appCmd) /\ ~z.reading
       /\ z.file = f /\ (z.writing <=> y.writing) /\ (z.multi <=> y.multi)
       /\ z.writeAddress = m /\ (z.gotToken <=> y.gotToken)
       /\ z.writeOffset = y.writeOffset
  BY <1>8, <1>10, <1>11 DEF Cards
<1>14. WriteByte(t, val) = z
  BY <1>1, <1>2, <1>4, <1>7, <1>12 DEF WriteByte, DataByte, Writing
<1>15. d = z
  BY <1>1, <1>13, <1>14 DEF SentOnDemand
<1> QED
  BY <1>2, <1>8, <1>9, <1>13, <1>15

LEMMA StopTokenIs ==
  ASSUME NEW c, Writing(c, FALSE), c.multi, NEW d, d = Write(c, StopToken)
  PROVE  Alike(d, c) /\ Calm(d)
<1>1. PICK t : /\ Alike(t, c) /\ Writing(t, FALSE) /\ (t.multi <=> c.multi)
               /\ \A v : Write(c, v) = SentOnDemand(WriteByte(t, v))
  BY WriteIs
<1>2. PICK e : e = [t EXCEPT !.writing = FALSE, !.multi = FALSE]
  OBVIOUS
<1>3. /\ e \in Cards /\ e.cmd = << >> /\ e.readQueue = t.readQueue
      /\ (e.idle <=> t.idle) /\ (e.appCmd <=> t.appCmd) /\ Calm(e)
      /\ e.file = t.file
  BY <1>1, <1>2 DEF Writing, Cards, Calm
<1>4. WriteByte(t, StopToken) = e
  <2>1. StopToken # MultiToken /\ ~t.gotToken /\ t.multi
    BY <1>1 DEF StopToken, MultiToken, Writing
  <2> QED
    BY <1>2, <2>1 DEF WriteByte
<1>5. d = e
  BY <1>1, <1>3, <1>4 DEF SentOnDemand, Calm
<1> QED
  BY <1>1, <1>3, <1>5 DEF Alike, Calm

(* The block at which the card writes becomes what it has taken; every     *)
(* other block stays as it is. *)
Held(c) == [i \in 1 .. BlockSize |-> c.writeBuf[i - 1]]

LEMMA StoredBlock ==
  ASSUME NEW c \in Cards, NEW x \in Nat, x + 1 <= NumBlocks,
         c.writeAddress = x * BlockSize, NEW d, d.file = Stored(c)
  PROVE  /\ FileBlock(d, x) = Held(c)
         /\ \A y \in Nat : y # x /\ y + 1 <= NumBlocks =>
              FileBlock(d, y) = FileBlock(c, y)
<1>1. BlockSize \in Nat \ {0} /\ FileSize \in Nat
  BY CardAssumption
<1>2. DOMAIN c.file = 0 .. FileSize - 1
  BY DEF Cards
<1>3. PICK w : w = x * BlockSize
  OBVIOUS
<1>4. w \in Nat /\ w + BlockSize <= FileSize
  BY <1>3, InFile
<1>5. \A a \in 0 .. FileSize - 1 :
        d.file[a] = IF (a - w) \in 0 .. BlockSize - 1 THEN c.writeBuf[a - w] ELSE c.file[a]
  BY <1>2, <1>3 DEF Stored
<1>6. ASSUME NEW i \in 1 .. BlockSize
      PROVE  d.file[w + i - 1] = c.writeBuf[i - 1]
  <2>1. PICK a : a = w + i - 1
    OBVIOUS
  <2>2. a \in 0 .. FileSize - 1 /\ a - w = i - 1 /\ (a - w) \in 0 .. BlockSize - 1
    BY <1>1, <1>4, <2>1
  <2>3. d.file[a] = c.writeBuf[a - w]
    BY <1>5, <2>2
  <2> QED
    BY <2>1, <2>2, <2>3
<1>7. ASSUME NEW y \in Nat, y # x, y + 1 <= NumBlocks, NEW i \in 1 .. BlockSize
      PROVE  d.file[y * BlockSize + i - 1] = c.file[y * BlockSize + i - 1]
  <2>1. PICK v, k : v = y * BlockSize /\ k = i - 1
    OBVIOUS
  <2>2. v \in Nat /\ v + BlockSize <= FileSize
    BY <1>7, <2>1, InFile
  <2>3. k \in 0 .. BlockSize - 1
    BY <1>1, <2>1
  <2>4. (v + k) - w \notin 0 .. BlockSize - 1
    BY <1>3, <1>7, <2>1, <2>3, BlocksApart
  <2>5. v + k \in 0 .. FileSize - 1
    BY <1>1, <2>2, <2>3
  <2>6. d.file[v + k] = c.file[v + k]
    BY <1>5, <2>4, <2>5
  <2>7. v + i - 1 = v + k
    BY <2>1, <2>2
  <2> QED
    BY <2>1, <2>6, <2>7
<1>8. FileBlock(d, x) = Held(c)
  BY <1>3, <1>6 DEF FileBlock, Held
<1>9. ASSUME NEW y \in Nat, y # x, y + 1 <= NumBlocks
      PROVE  FileBlock(d, y) = FileBlock(c, y)
  BY <1>7, <1>9 DEF FileBlock
<1> QED
  BY <1>8, <1>9

-----------------------------------------------------------------------------
(* Writing n blocks, with CMD25 if many. *)
WriteParts(j, n, many) ==
  /\ n \in Nat \ {0} /\ many \in BOOLEAN /\ (~many => n = 1)
  /\ j.block \in Nat /\ j.block + 1 <= NumBlocks /\ j.block + n <= NumBlocks
  /\ j.datas \in [1 .. n -> [1 .. BlockSize -> Values]]
  /\ Len(j.parts) = IF many THEN n + 2 ELSE n + 1
  /\ IsCmd(j.parts[1], IF many THEN 25 ELSE 24, Start(j), 0)
  /\ \A p \in 2 .. n + 1 :
       IsOutgoing(j.parts[p], IF many THEN MultiToken ELSE StartToken, j.datas[p - 1])
  /\ many => j.parts[n + 2] = <<Send(StopToken)>>

(* The first m blocks have been written. *)
WrittenTo(j, c, m) ==
  \A p \in 1 .. m : FileBlock(c, j.block + p - 1) = j.datas[p]

Ready(c, many) ==
  /\ Writing(c, FALSE) /\ (c.multi <=> many) /\ c.writeOffset = 0
  /\ c.readQueue = << >>

WriteAsked(j, c, many) ==
  /\ j.part = 1 /\ j.at \in 1 .. 7
  /\ j.at <= 6 => Still(c) /\ Sent(c, Part(j), j.at)
  /\ j.at = 7 => /\ Writing(c, FALSE) /\ (c.multi <=> many) /\ c.writeOffset = 0
                 /\ c.readQueue = <<0>> /\ c.writeAddress = Start(j)

WriteBegins(j, c, n, many) ==
  /\ j.part \in 2 .. n + 1 /\ j.at = 1
  /\ Ready(c, many) /\ c.writeAddress = Address(j)
  /\ WrittenTo(j, c, j.part - 2)

WriteGoing(j, c, n, many) ==
  /\ j.part \in 2 .. n + 1 /\ j.at \in 2 .. BlockSize + 3
  /\ Writing(c, TRUE) /\ (c.multi <=> many) /\ c.readQueue = << >>
  /\ c.writeOffset = j.at - 2 /\ c.writeAddress = Address(j)
  /\ \A i \in 0 .. BlockSize - 1 :
       i < j.at - 2 => c.writeBuf[i] = j.datas[j.part - 1][i + 1]
  /\ WrittenTo(j, c, j.part - 2)

WriteTaken(j, c, n, many) ==
  /\ j.part \in 2 .. n + 1 /\ j.at \in BlockSize + 4 .. BlockSize + 5
  /\ c.cmd = << >> /\ ~c.reading /\ (c.writing <=> many) /\ (c.multi <=> many)
  /\ many => ~c.gotToken /\ c.writeOffset = 0
  /\ c.writeAddress = Address(j) + BlockSize
  /\ j.at = BlockSize + 4 => c.readQueue = <<Accepted, Busy>>
  /\ j.at = BlockSize + 5 => c.readQueue = <<Busy>> \/ c.readQueue = << >>
  /\ WrittenTo(j, c, j.part - 1)

WriteStopping(j, c, n) ==
  j.part = n + 2 /\ j.at = 1 /\ Ready(c, TRUE) /\ WrittenTo(j, c, n)

IsWriteOf(j, c, n, many) ==
  /\ IsJob(j) /\ j.op = "write" /\ WriteParts(j, n, many)
  /\ c \in Cards /\ ~c.appCmd /\ ~c.idle
  /\ \/ WriteAsked(j, c, many)
     \/ WriteBegins(j, c, n, many)
     \/ WriteGoing(j, c, n, many)
     \/ WriteTaken(j, c, n, many)
     \/ many = TRUE /\ WriteStopping(j, c, n)

IsWrite(j, c) == \E n, many : IsWriteOf(j, c, n, many)

LEMMA WriteSteps ==
  ASSUME NEW j, NEW c, NEW n, NEW many, IsWriteOf(j, c, n, many)
  PROVE  /\ Now(j).kind \in {"send", "reply", "until"}
         /\ Now(j).kind = "send" =>
              \/ WriteAsked(j, c, many) /\ j.at \in 1 .. 6
              \/ WriteBegins(j, c, n, many)
              \/ WriteGoing(j, c, n, many)
              \/ many = TRUE /\ WriteStopping(j, c, n)
         /\ Now(j).kind = "reply" =>
              \/ WriteAsked(j, c, many) /\ j.at = 7 /\ Now(j).val = 0
              \/ WriteTaken(j, c, n, many) /\ j.at = BlockSize + 4 /\ Now(j).val = Accepted
         /\ Now(j).kind = "until" =>
              WriteTaken(j, c, n, many) /\ j.at = BlockSize + 5 /\ Now(j).val = Empty
<1>1. CASE WriteAsked(j, c, many)
  <2>1. IsCmd(Part(j), IF many THEN 25 ELSE 24, Start(j), 0)
    BY <1>1 DEF IsWriteOf, WriteParts, WriteAsked, Part
  <2>2. j.at \in 1 .. 6 \/ j.at = 7
    BY <1>1 DEF WriteAsked
  <2>3. j.at \in 1 .. 6 => Now(j).kind = "send"
    BY <2>1 DEF Now, IsCmd
  <2>4. j.at = 7 => Now(j).kind = "reply" /\ Now(j).val = 0
    BY <2>1 DEF Now, IsCmd, Reply
  <2> QED
    BY <1>1, <2>2, <2>3, <2>4
<1>2. ASSUME j.part \in 2 .. n + 1
      PROVE  IsOutgoing(Part(j), IF many THEN MultiToken ELSE StartToken, j.datas[j.part - 1])
  BY <1>2 DEF IsWriteOf, WriteParts, Part
<1>3. BlockSize \in Nat \ {0}
  BY CardAssumption
<1>4. CASE WriteBegins(j, c, n, many)
  <2>1. Now(j).kind = "send"
    <3>1. j.at \in 1 .. BlockSize + 3
      BY <1>3, <1>4 DEF WriteBegins
    <3> QED
      BY <1>2, <1>4, <3>1 DEF Now, IsOutgoing, WriteBegins
  <2> QED
    BY <1>4, <2>1
<1>5. CASE WriteGoing(j, c, n, many)
  <2>1. Now(j).kind = "send"
    <3>1. j.at \in 1 .. BlockSize + 3
      BY <1>3, <1>5 DEF WriteGoing
    <3> QED
      BY <1>2, <1>5, <3>1 DEF Now, IsOutgoing, WriteGoing
  <2> QED
    BY <1>5, <2>1
<1>6. CASE WriteTaken(j, c, n, many)
  <2>1. j.at = BlockSize + 4 \/ j.at = BlockSize + 5
    BY <1>3, <1>6 DEF WriteTaken
  <2>2. j.at = BlockSize + 4 => Now(j) = Reply(Accepted)
    BY <1>2, <1>6 DEF Now, IsOutgoing, WriteTaken
  <2>3. j.at = BlockSize + 5 => Now(j) = Expect(Empty)
    BY <1>2, <1>6 DEF Now, IsOutgoing, WriteTaken
  <2>4. j.at = BlockSize + 4 => Now(j).kind = "reply" /\ Now(j).val = Accepted
    BY <2>2 DEF Reply
  <2>5. j.at = BlockSize + 5 => Now(j).kind = "until" /\ Now(j).val = Empty
    BY <2>3 DEF Expect
  <2> QED
    BY <1>6, <2>1, <2>4, <2>5
<1>7. CASE many = TRUE /\ WriteStopping(j, c, n)
  <2>1. Part(j) = <<Send(StopToken)>>
    BY <1>7 DEF IsWriteOf, WriteParts, WriteStopping, Part
  <2>2. Now(j) = Send(StopToken)
    BY <1>7, <2>1 DEF Now, WriteStopping
  <2>3. Now(j).kind = "send"
    BY <2>2 DEF Send
  <2> QED
    BY <1>7, <2>3
<1> QED
  BY <1>1, <1>4, <1>5, <1>6, <1>7 DEF IsWriteOf

(* What the first block's address is, and that of the block being written. *)
LEMMA WriteStartIs ==
  ASSUME NEW j, NEW n, NEW many, WriteParts(j, n, many)
  PROVE  Start(j) \in Addresses /\ Start(j) \in Nat
<1>1. j.block * BlockSize \in Nat /\ j.block * BlockSize + BlockSize <= FileSize
  BY InFile DEF WriteParts
<1>2. BlockSize \in Nat /\ FileSize \in Nat /\ FileSize + BlockSize <= MaxInt /\ MaxInt \in Int
  BY CardAssumption DEF MaxInt
<1> QED
  BY <1>1, <1>2 DEF Start, Addresses

LEMMA WriteBlockIs ==
  ASSUME NEW j, NEW n, NEW many, WriteParts(j, n, many), j.part \in 2 .. n + 1,
         NEW x, x = j.block + j.part - 2
  PROVE  /\ x \in Nat /\ x + 1 <= NumBlocks /\ Address(j) = x * BlockSize
         /\ n \in Nat /\ j.block \in Nat
<1>1. /\ n \in Nat /\ j.block \in Nat
      /\ j.block + 1 <= NumBlocks /\ j.block + n <= NumBlocks
  BY DEF WriteParts
<1>2. NumBlocks \in Int
  BY CardAssumption, DivisionIs DEF NumBlocks
<1>3. x \in Nat /\ x + 1 <= NumBlocks
  BY <1>1, <1>2
<1> QED
  BY <1>1, <1>3 DEF Address

(* The same write, at another step. *)
LEMMA WriteMoved ==
  ASSUME NEW j, NEW n, NEW many, WriteParts(j, n, many),
         NEW i, NEW part, NEW at, Moved(i, j, part, at), j.op = "write"
  PROVE  /\ WriteParts(i, n, many) /\ IsJob(i) /\ i.op = "write" /\ Start(i) = Start(j)
         /\ i.part = part /\ i.at = at /\ i.datas = j.datas /\ i.block = j.block
         /\ \A c, m : WrittenTo(j, c, m) => WrittenTo(i, c, m)
<1>1. /\ i.block = j.block /\ i.parts = j.parts /\ i.datas = j.datas
      /\ IsJob(i) /\ i.op = "write" /\ i.part = part /\ i.at = at
  BY DEF Moved
<1>2. Start(i) = Start(j)
  BY <1>1 DEF Start
<1> QED
  BY <1>1, <1>2 DEF WriteParts, WrittenTo

LEMMA SameWritten ==
  ASSUME NEW j, NEW c, NEW d, d.file = c.file
  PROVE  /\ \A m : WrittenTo(j, c, m) => WrittenTo(j, d, m)
         /\ \A b : FileBlock(d, b) = FileBlock(c, b)
BY DEF WrittenTo, FileBlock

LEMMA WriteAskedSends ==
  ASSUME NEW j, NEW c, NEW n, NEW many, IsWriteOf(j, c, n, many),
         WriteAsked(j, c, many), j.at \in 1 .. 6, NEW d, d = Write(c, Now(j).val)
  PROVE  IsWriteOf(Rest(j), d, n, many) /\ d.file = c.file
<1>1. PICK i, P, k, a : /\ i = Rest(j) /\ P = Part(j)
                        /\ k = (IF many THEN 25 ELSE 24) /\ a = Start(j)
  OBVIOUS
<1>2. /\ IsJob(j) /\ IsCmd(P, k, a, 0) /\ k \in 0 .. 63
      /\ Still(c) /\ Sent(c, P, j.at) /\ WriteParts(j, n, many) /\ many \in BOOLEAN
      /\ j.part = 1 /\ ~c.appCmd /\ ~c.idle /\ j.op = "write"
  <2>1. IsJob(j) /\ WriteParts(j, n, many) /\ ~c.appCmd /\ ~c.idle /\ j.op = "write"
    BY DEF IsWriteOf
  <2>2. j.part = 1 /\ j.at <= 6 /\ Still(c) /\ Sent(c, P, j.at)
    <3>1. j.at <= 6
      OBVIOUS
    <3> QED
      BY <1>1, <3>1 DEF WriteAsked
  <2>3. IsCmd(P, k, a, 0) /\ k \in 0 .. 63 /\ many \in BOOLEAN
    BY <1>1, <2>1, <2>2 DEF WriteParts, Part
  <2> QED
    BY <2>1, <2>2, <2>3
<1>3. CASE j.at \in 1 .. 5
  <2>1. /\ Moved(i, j, j.part, j.at + 1)
        /\ Still(d) /\ SameCard(d, c) /\ Sent(d, Part(i), j.at + 1)
    BY <1>1, <1>2, <1>3, CommandStep
  <2>2. /\ WriteParts(i, n, many) /\ IsJob(i) /\ i.op = "write"
        /\ i.part = 1 /\ i.at = j.at + 1
    BY <1>2, <2>1, WriteMoved
  <2>3. i.at \in 1 .. 7 /\ i.at # 7
    BY <1>3, <2>2
  <2>4. WriteAsked(i, d, many)
    <3>1. Still(d) /\ Sent(d, Part(i), i.at)
      BY <2>1, <2>2
    <3> QED
      BY <2>2, <2>3, <3>1, Zenon DEF WriteAsked
  <2> QED
    BY <1>1, <1>2, <2>1, <2>2, <2>4 DEF IsWriteOf, SameCard, Still
<1>4. CASE j.at = 6
  <2>1. /\ Moved(i, j, j.part, 7)
        /\ \E m : /\ Still(m) /\ SameCard(m, c) /\ m.cmd[1] = 64 + k
                  /\ Arg(m.cmd) = a /\ d = SentOnDemand(Executed(m))
    BY <1>1, <1>2, <1>4, CommandStepLast
  <2>2. PICK m : /\ Still(m) /\ SameCard(m, c) /\ m.cmd[1] = 64 + k
                 /\ Arg(m.cmd) = a /\ d = SentOnDemand(Executed(m))
    BY <2>1
  <2>3. /\ d \in Cards /\ d.cmd = << >> /\ d.readQueue = <<0>>
        /\ d.writeAddress = a /\ d.writeOffset = 0 /\ ~d.gotToken
        /\ d.writing /\ (d.multi <=> many) /\ ~d.reading
        /\ d.file = m.file /\ (d.idle <=> m.idle) /\ ~d.appCmd
    <3>1. m.cmd[1] = (IF many THEN 89 ELSE 88) /\ ~m.appCmd
      BY <1>1, <1>2, <2>2 DEF SameCard
    <3>2. a \in Nat
      BY <1>1, <1>2, WriteStartIs
    <3> QED
      BY <1>2, <2>2, <3>1, <3>2, WritingAnswer
  <2>4. d.file = c.file /\ ~d.idle
    BY <1>2, <2>2, <2>3 DEF SameCard
  <2>5. /\ WriteParts(i, n, many) /\ IsJob(i) /\ i.op = "write"
        /\ i.part = 1 /\ i.at = 7 /\ Start(i) = a
    BY <1>1, <1>2, <2>1, WriteMoved
  <2>6. WriteAsked(i, d, many)
    BY <2>3, <2>5 DEF WriteAsked, Writing
  <2> QED
    BY <1>1, <2>3, <2>4, <2>5, <2>6 DEF IsWriteOf
<1> QED
  BY <1>3, <1>4

(* A part after the first begins, the card being ready for it.             *)
LEMMA NextBlock ==
  ASSUME NEW i, NEW d, NEW n, NEW many,
         IsJob(i), i.op = "write", WriteParts(i, n, many), d \in Cards,
         ~d.appCmd, ~d.idle, Ready(d, many), i.part \in 2 .. Len(i.parts), i.at = 1,
         d.writeAddress = Address(i), WrittenTo(i, d, i.part - 2)
  PROVE  IsWriteOf(i, d, n, many)
<1>1. n \in Nat /\ Len(i.parts) = IF many THEN n + 2 ELSE n + 1
  BY DEF WriteParts
<1>2. CASE i.part <= n + 1
  <2>1. i.part \in 2 .. n + 1
    BY <1>1, <1>2
  <2> QED
    BY <2>1 DEF IsWriteOf, WriteBegins
<1>3. CASE ~(i.part <= n + 1)
  <2>1. many = TRUE /\ i.part = n + 2 /\ i.part - 2 = n
    BY <1>1, <1>3 DEF WriteParts
  <2>2. many = TRUE /\ WriteStopping(i, d, n)
    BY <2>1 DEF WriteStopping
  <2> QED
    BY <2>2 DEF IsWriteOf
<1> QED
  BY <1>2, <1>3

LEMMA WriteAskedHears ==
  ASSUME NEW j, NEW c, NEW n, NEW many, IsWriteOf(j, c, n, many),
         WriteAsked(j, c, many), j.at = 7, NEW d, d = Clocks(c)
  PROVE  /\ Comes(c) = 0 /\ d.file = c.file /\ Rest(j) # NoJob
         /\ IsWriteOf(Rest(j), d, n, many)
<1>1. PICK i, a : i = Rest(j) /\ a = Start(j)
  OBVIOUS
<1>2. /\ IsJob(j) /\ WriteParts(j, n, many) /\ c \in Cards /\ Writing(c, FALSE)
      /\ (c.multi <=> many) /\ c.writeOffset = 0 /\ c.readQueue = <<0>>
      /\ c.writeAddress = a /\ j.part = 1 /\ ~c.appCmd /\ ~c.idle /\ j.op = "write"
  BY <1>1 DEF IsWriteOf, WriteAsked
<1>3. 0 \in Values
  BY DEF Values
<1>4. /\ d \in Cards /\ SameCard(d, c) /\ d.cmd = << >> /\ d.readQueue = << >>
      /\ Comes(c) = 0
  BY <1>2, <1>3, OneByteComes DEF Writing
<1>5. Moved(i, j, 1 + 1, 1)
  <2>1. Len(Part(j)) = 7 /\ Len(j.parts) > 1
    BY <1>2 DEF WriteParts, Part, IsCmd
  <2>2. ~(j.at < Len(Part(j))) /\ j.part < Len(j.parts)
    BY <1>2, <2>1
  <2> QED
    BY <1>1, <1>2, <2>2, RestNextPart
<1>6. /\ WriteParts(i, n, many) /\ IsJob(i) /\ i.op = "write"
      /\ i.part = 1 + 1 /\ i.at = 1 /\ Start(i) = a
  BY <1>1, <1>2, <1>5, WriteMoved
<1>7. Ready(d, many) /\ d.writeAddress = a /\ ~d.appCmd /\ ~d.idle /\ d.file = c.file
  BY <1>2, <1>4 DEF Ready, Writing, SameCard
<1>8. Address(i) = a
  <2>1. i.block + i.part - 2 = i.block
    BY <1>6 DEF WriteParts
  <2> QED
    BY <1>6, <2>1 DEF Address, Start
<1>9. i.part \in 2 .. Len(i.parts) /\ WrittenTo(i, d, i.part - 2)
  BY <1>6 DEF WriteParts, WrittenTo
<1>10. IsWriteOf(i, d, n, many)
  BY <1>4, <1>6, <1>7, <1>8, <1>9, NextBlock
<1>11. i # NoJob
  BY <1>6, NoJobIs
<1> QED
  BY <1>1, <1>4, <1>7, <1>10, <1>11

(* The steps of a block that is sent.                                      *)
LEMMA OutgoingMoves ==
  ASSUME NEW j, NEW c, NEW n, NEW many, IsWriteOf(j, c, n, many),
         j.part \in 2 .. n + 1, j.at \in 1 .. BlockSize + 4
  PROVE  /\ Moved(Rest(j), j, j.part, j.at + 1) /\ Rest(j) # NoJob
         /\ WriteParts(Rest(j), n, many) /\ Address(Rest(j)) = Address(j)
         /\ IsOutgoing(Part(j), IF many THEN MultiToken ELSE StartToken,
                       j.datas[j.part - 1])
<1>1. IsJob(j) /\ WriteParts(j, n, many) /\ j.op = "write"
  BY DEF IsWriteOf
<1>2. IsOutgoing(Part(j), IF many THEN MultiToken ELSE StartToken, j.datas[j.part - 1])
  BY <1>1 DEF WriteParts, Part
<1>3. j.at < Len(Part(j))
  <2>1. Len(Part(j)) = BlockSize + 5 /\ BlockSize \in Nat
    BY <1>2, CardAssumption DEF IsOutgoing
  <2> QED
    BY <2>1
<1>4. Moved(Rest(j), j, j.part, j.at + 1)
  BY <1>1, <1>3, RestInPart
<1>5. WriteParts(Rest(j), n, many) /\ Rest(j).op = "write"
  BY <1>1, <1>4, WriteMoved
<1>6. Address(Rest(j)) = Address(j)
  BY <1>4 DEF Moved, Address
<1> QED
  BY <1>2, <1>4, <1>5, <1>6, NoJobIs

LEMMA WriteBeginsSends ==
  ASSUME NEW j, NEW c, NEW n, NEW many, IsWriteOf(j, c, n, many),
         WriteBegins(j, c, n, many), NEW d, d = Write(c, Now(j).val)
  PROVE  IsWriteOf(Rest(j), d, n, many) /\ d.file = c.file
<1>1. PICK i, v : i = Rest(j) /\ v = Now(j).val
  OBVIOUS
<1>2. /\ c \in Cards /\ ~c.appCmd /\ ~c.idle /\ Writing(c, FALSE) /\ (c.multi <=> many)
      /\ c.writeOffset = 0 /\ c.readQueue = << >> /\ c.writeAddress = Address(j)
      /\ WrittenTo(j, c, j.part - 2) /\ j.part \in 2 .. n + 1 /\ j.at = 1
      /\ WriteParts(j, n, many) /\ j.op = "write"
  BY DEF IsWriteOf, WriteBegins, Ready
<1>3. BlockSize \in Nat \ {0}
  BY CardAssumption
<1>4. /\ Moved(i, j, j.part, 1 + 1) /\ WriteParts(i, n, many) /\ Address(i) = Address(j)
      /\ IsOutgoing(Part(j), IF many THEN MultiToken ELSE StartToken, j.datas[j.part - 1])
  BY <1>1, <1>2, <1>3, OutgoingMoves
<1>5. v = TokenOf(c)
  BY <1>1, <1>2, <1>4 DEF Now, IsOutgoing, TokenOf
<1>6. /\ Alike(d, c) /\ Writing(d, TRUE) /\ (d.multi <=> c.multi)
      /\ d.writeAddress = c.writeAddress /\ d.writeOffset = c.writeOffset
  <2>1. d = Write(c, TokenOf(c)) /\ Writing(c, FALSE)
    BY <1>1, <1>2, <1>5
  <2> QED
    BY <2>1, TokenIs
<1>7. d.file = c.file /\ ~d.appCmd /\ ~d.idle /\ d \in Cards /\ d.readQueue = << >>
  BY <1>2, <1>6 DEF Alike
<1>8. IsJob(i) /\ i.op = "write" /\ i.part = j.part /\ i.at = 1 + 1 /\ i.datas = j.datas
  BY <1>2, <1>4 DEF Moved
<1>9. WrittenTo(i, d, i.part - 2)
  BY <1>2, <1>4, <1>7, <1>8, SameWritten, WriteMoved
<1>10. /\ i.at \in 2 .. BlockSize + 3 /\ d.writeOffset = i.at - 2
       /\ \A x \in 0 .. BlockSize - 1 : ~(x < i.at - 2)
  BY <1>2, <1>3, <1>6, <1>8
<1>11. WriteGoing(i, d, n, many)
  BY <1>2, <1>4, <1>6, <1>7, <1>8, <1>9, <1>10 DEF WriteGoing
<1> QED
  BY <1>1, <1>4, <1>7, <1>8, <1>11 DEF IsWriteOf

LEMMA WriteGoesOn ==
  ASSUME NEW j, NEW c, NEW n, NEW many, IsWriteOf(j, c, n, many),
         WriteGoing(j, c, n, many), j.at \in 2 .. BlockSize + 2,
         NEW d, d = Write(c, Now(j).val)
  PROVE  IsWriteOf(Rest(j), d, n, many) /\ d.file = c.file
<1>1. PICK i, v, o : i = Rest(j) /\ v = Now(j).val /\ o = j.at - 2
  OBVIOUS
<1>2. /\ c \in Cards /\ ~c.appCmd /\ ~c.idle /\ Writing(c, TRUE) /\ (c.multi <=> many)
      /\ c.writeOffset = o /\ c.readQueue = << >> /\ c.writeAddress = Address(j)
      /\ WrittenTo(j, c, j.part - 2) /\ j.part \in 2 .. n + 1
      /\ WriteParts(j, n, many) /\ j.op = "write"
      /\ \A x \in 0 .. BlockSize - 1 : x < o => c.writeBuf[x] = j.datas[j.part - 1][x + 1]
  <2>1. /\ c \in Cards /\ ~c.appCmd /\ ~c.idle /\ WriteParts(j, n, many) /\ j.op = "write"
    BY DEF IsWriteOf
  <2> QED
    BY <1>1, <2>1 DEF WriteGoing
<1>3. BlockSize \in Nat \ {0} /\ o \in 0 .. BlockSize /\ j.at = o + 2
  BY <1>1, CardAssumption
<1>4. /\ Moved(i, j, j.part, j.at + 1) /\ WriteParts(i, n, many) /\ Address(i) = Address(j)
      /\ IsOutgoing(Part(j), IF many THEN MultiToken ELSE StartToken, j.datas[j.part - 1])
  <2>1. j.at \in 1 .. BlockSize + 4
    BY <1>3
  <2> QED
    BY <1>1, <1>2, <2>1, OutgoingMoves
<1>5. v \in Values /\ (o < BlockSize => v = j.datas[j.part - 1][o + 1])
  <2>1. PICK P, k : P = Part(j) /\ k = j.at
    OBVIOUS
  <2>2. k \in 1 .. BlockSize + 3 /\ (o < BlockSize => k \in 2 .. BlockSize + 1)
        /\ k - 1 = o + 1
    BY <1>3, <2>1
  <2>3. P[k].val \in Values
    BY <1>4, <2>1, <2>2 DEF IsOutgoing
  <2>4. o < BlockSize => P[k].val = j.datas[j.part - 1][k - 1]
    BY <1>4, <2>1, <2>2 DEF IsOutgoing
  <2> QED
    BY <1>1, <2>1, <2>2, <2>3, <2>4 DEF Now
<1>6. /\ Alike(d, c) /\ Writing(d, TRUE) /\ (d.multi <=> c.multi)
      /\ d.writeAddress = c.writeAddress /\ d.writeOffset = o + 1
      /\ d.writeBuf = IF o < BlockSize THEN [c.writeBuf EXCEPT ![o] = v] ELSE c.writeBuf
  <2>1. c.writeOffset # BlockSize + 1
    BY <1>2, <1>3
  <2> QED
    <3>1. d = Write(c, v) /\ Writing(c, TRUE) /\ v \in Values
      BY <1>1, <1>2, <1>5
    <3>2. /\ Alike(d, c) /\ Writing(d, TRUE) /\ (d.multi <=> c.multi)
          /\ d.writeAddress = c.writeAddress /\ d.writeOffset = c.writeOffset + 1
          /\ d.writeBuf = IF c.writeOffset < BlockSize
                          THEN [c.writeBuf EXCEPT ![c.writeOffset] = v] ELSE c.writeBuf
      BY <2>1, <3>1, DataByteIs, Zenon
    <3> QED
      BY <1>2, <3>2
<1>7. d.file = c.file /\ ~d.appCmd /\ ~d.idle /\ d \in Cards /\ d.readQueue = << >>
  BY <1>2, <1>6 DEF Alike
<1>8. IsJob(i) /\ i.op = "write" /\ i.part = j.part /\ i.at = j.at + 1 /\ i.datas = j.datas
  BY <1>2, <1>4 DEF Moved
<1>9. WrittenTo(i, d, i.part - 2)
  BY <1>2, <1>4, <1>7, <1>8, SameWritten, WriteMoved
<1>10. i.at \in 2 .. BlockSize + 3 /\ d.writeOffset = i.at - 2 /\ i.at - 2 = o + 1
  BY <1>3, <1>6, <1>8
<1>11. ASSUME NEW x \in 0 .. BlockSize - 1, x < o + 1
       PROVE  d.writeBuf[x] = j.datas[j.part - 1][x + 1]
  <2>1. DOMAIN c.writeBuf = 0 .. BlockSize - 1
    BY <1>2 DEF Cards
  <2>2. CASE x = o
    <3>1. o < BlockSize /\ d.writeBuf = [c.writeBuf EXCEPT ![o] = v]
      BY <1>3, <1>6, <2>2
    <3> QED
      BY <1>5, <2>1, <2>2, <3>1
  <2>3. CASE x # o
    <3>1. x < o
      BY <1>3, <1>11, <2>3
    <3>2. d.writeBuf[x] = c.writeBuf[x]
      BY <1>6, <2>1, <2>3
    <3> QED
      BY <1>2, <3>1, <3>2
  <2> QED
    BY <2>2, <2>3
<1>12. WriteGoing(i, d, n, many)
  BY <1>2, <1>4, <1>6, <1>7, <1>8, <1>9, <1>10, <1>11 DEF WriteGoing
<1> QED
  BY <1>1, <1>4, <1>7, <1>8, <1>12 DEF IsWriteOf

LEMMA NothingWritten ==
  ASSUME NEW j, NEW i, NEW c, NEW d, d.file = c.file,
         j.op # "write" \/ i # NoJob
  PROVE  Outcome(j, i, c, d)
<1>1. \A b : FileBlock(d, b) = FileBlock(c, b)
  BY SameWritten
<1> QED
  BY <1>1 DEF Outcome

LEMMA AllWritten ==
  ASSUME NEW j, NEW i, NEW c, NEW d, d.file = c.file,
         NEW n, NEW many, WriteParts(j, n, many), WrittenTo(j, c, n)
  PROVE  Outcome(j, i, c, d)
<1>1. \A b : FileBlock(d, b) = FileBlock(c, b)
  BY SameWritten
<1>2. DOMAIN j.datas = 1 .. n /\ n \in Nat /\ j.block \in Nat
  BY DEF WriteParts
<1>3. NumBlocks \in Int
  BY CardAssumption, DivisionIs DEF NumBlocks
<1>4. ASSUME NEW b \in Blocks, b - j.block + 1 \in DOMAIN j.datas
      PROVE  FileBlock(c, b) = j.datas[b - j.block + 1]
  <2>1. PICK k : k = b - j.block + 1
    OBVIOUS
  <2>2. k \in 1 .. n /\ j.block + k - 1 = b
    BY <1>2, <1>3, <1>4, <2>1 DEF Blocks
  <2>3. FileBlock(c, j.block + k - 1) = j.datas[k]
    BY <2>2 DEF WrittenTo
  <2> QED
    BY <2>1, <2>2, <2>3
<1> QED
  BY <1>1, <1>4 DEF Outcome

(* The block with data k becomes what was sent for it, and the others stay. *)
LEMMA OneWritten ==
  ASSUME NEW j, NEW i, NEW c, NEW d, i # NoJob, j # NoJob, j.op = "write",
         NEW n, NEW many, WriteParts(j, n, many), NEW k \in 1 .. n,
         FileBlock(d, j.block + k - 1) = j.datas[k],
         \A y \in Nat : y # j.block + k - 1 /\ y + 1 <= NumBlocks =>
           FileBlock(d, y) = FileBlock(c, y)
  PROVE  Outcome(j, i, c, d)
<1>1. DOMAIN j.datas = 1 .. n /\ n \in Nat /\ j.block \in Nat
  BY DEF WriteParts
<1>2. NumBlocks \in Int
  BY CardAssumption, DivisionIs DEF NumBlocks
<1>3. PICK x : x = j.block + k - 1
  OBVIOUS
<1>4. ASSUME NEW b \in Blocks, b # x
      PROVE  FileBlock(d, b) = FileBlock(c, b)
  <2>1. b \in Nat /\ b + 1 <= NumBlocks
    BY <1>2 DEF Blocks
  <2> QED
    BY <1>3, <1>4, <2>1
<1>5. x - j.block + 1 = k /\ k \in DOMAIN j.datas
  BY <1>1, <1>3
<1>6. FileBlock(d, x) = j.datas[x - j.block + 1]
  BY <1>3, <1>5
<1> QED
  BY <1>4, <1>5, <1>6 DEF Outcome

LEMMA WriteCommits ==
  ASSUME NEW j, NEW c, NEW n, NEW many, IsWriteOf(j, c, n, many),
         WriteGoing(j, c, n, many), j.at = BlockSize + 3,
         NEW d, d = Write(c, Now(j).val)
  PROVE  IsWriteOf(Rest(j), d, n, many) /\ Outcome(j, Rest(j), c, d)
<1>1. PICK i, v, x, k : /\ i = Rest(j) /\ v = Now(j).val
                        /\ x = j.block + j.part - 2 /\ k = j.part - 1
  OBVIOUS
<1>2. BlockSize \in Nat \ {0} /\ j.at = BlockSize + 3 /\ j.at - 2 = BlockSize + 1
  BY CardAssumption
<1>3. /\ c \in Cards /\ ~c.appCmd /\ ~c.idle /\ Writing(c, TRUE) /\ (c.multi <=> many)
      /\ c.writeOffset = BlockSize + 1 /\ c.readQueue = << >>
      /\ c.writeAddress = Address(j)
      /\ WrittenTo(j, c, j.part - 2) /\ j.part \in 2 .. n + 1
      /\ WriteParts(j, n, many) /\ j.op = "write"
      /\ \A z \in 0 .. BlockSize - 1 : c.writeBuf[z] = j.datas[k][z + 1]
  <2>1. /\ c \in Cards /\ ~c.appCmd /\ ~c.idle /\ WriteParts(j, n, many) /\ j.op = "write"
    BY DEF IsWriteOf
  <2>2. \A z \in 0 .. BlockSize - 1 : z < j.at - 2
    BY <1>2
  <2> QED
    BY <1>1, <1>2, <2>1, <2>2 DEF WriteGoing
<1>4. /\ Moved(i, j, j.part, j.at + 1) /\ WriteParts(i, n, many)
      /\ Address(i) = Address(j) /\ i # NoJob
  <2>1. j.at \in 1 .. BlockSize + 4
    BY <1>2
  <2> QED
    BY <1>1, <1>3, <2>1, OutgoingMoves
<1>5. /\ d \in Cards /\ d.cmd = << >> /\ d.readQueue = <<Accepted, Busy>>
      /\ (d.idle <=> c.idle) /\ (d.appCmd <=> c.appCmd) /\ ~d.reading
      /\ (d.writing <=> c.multi) /\ (d.multi <=> c.multi)
      /\ c.multi => ~d.gotToken /\ d.writeOffset = 0
      /\ d.writeAddress = c.writeAddress + BlockSize /\ d.file = Stored(c)
  <2>1. d = Write(c, v)
    BY <1>1
  <2> QED
    <3>1. Writing(c, TRUE) /\ c.writeOffset = BlockSize + 1 /\ c.readQueue = << >>
      BY <1>3
    <3> QED
      BY <2>1, <3>1, CommitIs
<1>6. /\ x \in Nat /\ x + 1 <= NumBlocks /\ Address(j) = x * BlockSize
      /\ n \in Nat /\ j.block \in Nat
  BY <1>1, <1>3, WriteBlockIs
<1>7. /\ FileBlock(d, x) = Held(c)
      /\ \A y \in Nat : y # x /\ y + 1 <= NumBlocks => FileBlock(d, y) = FileBlock(c, y)
  <2>1. c.writeAddress = x * BlockSize
    BY <1>3, <1>6
  <2> QED
    <3>1. c \in Cards /\ x \in Nat /\ x + 1 <= NumBlocks /\ d.file = Stored(c)
      BY <1>3, <1>5, <1>6
    <3> QED
      BY <2>1, <3>1, StoredBlock
<1>8. k \in 1 .. n /\ x = j.block + k - 1 /\ j.part - 2 = k - 1
  <2>1. j.part \in 2 .. n + 1 /\ n \in Nat /\ j.block \in Nat
    BY <1>3, <1>6
  <2> QED
    BY <1>1, <2>1
<1>9. FileBlock(d, x) = j.datas[k]
  <2>1. j.datas[k] \in [1 .. BlockSize -> Values]
    BY <1>3, <1>8 DEF WriteParts
  <2>2. ASSUME NEW z \in 1 .. BlockSize
        PROVE  c.writeBuf[z - 1] = j.datas[k][z]
    <3>1. PICK y : y = z - 1
      OBVIOUS
    <3>2. y \in 0 .. BlockSize - 1 /\ y + 1 = z
      BY <1>2, <3>1
    <3> QED
      BY <1>3, <3>1, <3>2
  <2>3. Held(c) = j.datas[k]
    BY <2>1, <2>2 DEF Held
  <2> QED
    BY <1>7, <2>3
<1>10. Outcome(j, i, c, d)
  <2>1. j # NoJob
    BY <1>3, NoJobIs
  <2> QED
    BY <1>3, <1>4, <1>7, <1>8, <1>9, <2>1, OneWritten
<1>11. WrittenTo(j, d, k)
  <2>1. ASSUME NEW p \in 1 .. k
        PROVE  FileBlock(d, j.block + p - 1) = j.datas[p]
    <3>1. CASE p = k
      BY <1>8, <1>9, <3>1
    <3>2. CASE p # k
      <4>1. p \in 1 .. j.part - 2
        BY <1>8, <3>2
      <4>2. FileBlock(c, j.block + p - 1) = j.datas[p]
        BY <1>3, <4>1 DEF WrittenTo
      <4>3. PICK y : y = j.block + p - 1
        OBVIOUS
      <4>4. y \in Nat /\ y # x /\ y + 1 <= NumBlocks
        <5>1. NumBlocks \in Int
          BY CardAssumption, DivisionIs DEF NumBlocks
        <5> QED
          BY <1>6, <1>8, <3>2, <4>3, <5>1
      <4>5. FileBlock(d, y) = FileBlock(c, y)
        BY <1>7, <4>4
      <4> QED
        BY <4>2, <4>3, <4>5
    <3> QED
      BY <3>1, <3>2
  <2> QED
    BY <2>1 DEF WrittenTo
<1>12. /\ IsJob(i) /\ i.op = "write" /\ i.part = j.part /\ i.at = j.at + 1
       /\ WrittenTo(i, d, i.part - 1)
  <2>1. IsJob(i) /\ i.op = "write" /\ i.part = j.part /\ i.at = j.at + 1
    BY <1>3, <1>4 DEF Moved
  <2>2. WrittenTo(i, d, k)
    BY <1>3, <1>4, <1>11, WriteMoved
  <2> QED
    BY <1>1, <2>1, <2>2
<1>13. i.at = BlockSize + 4 /\ i.at \in BlockSize + 4 .. BlockSize + 5 /\ i.at # BlockSize + 5
  BY <1>2, <1>12
<1>14. WriteTaken(i, d, n, many)
  <2>1. (d.writing <=> many) /\ (d.multi <=> many) /\ (many => ~d.gotToken /\ d.writeOffset = 0)
    BY <1>3, <1>5
  <2>2. d.writeAddress = Address(i) + BlockSize /\ i.part \in 2 .. n + 1
    BY <1>3, <1>4, <1>5, <1>12
  <2> QED
    BY <1>5, <1>12, <1>13, <2>1, <2>2, Zenon DEF WriteTaken
<1>15. ~d.appCmd /\ ~d.idle
  BY <1>3, <1>5
<1>16. IsWriteOf(i, d, n, many)
  BY <1>4, <1>5, <1>12, <1>14, <1>15 DEF IsWriteOf
<1> QED
  BY <1>1, <1>10, <1>16

LEMMA WriteStops ==
  ASSUME NEW j, NEW c, NEW n, IsWriteOf(j, c, n, TRUE),
         WriteStopping(j, c, n), NEW d, d = Write(c, Now(j).val)
  PROVE  /\ Rest(j) = NoJob /\ Free(d) /\ ~d.idle /\ Outcome(j, Rest(j), c, d)
<1>1. /\ IsJob(j) /\ WriteParts(j, n, TRUE) /\ ~c.appCmd /\ ~c.idle
      /\ j.part = n + 2 /\ j.at = 1 /\ Writing(c, FALSE) /\ c.multi
      /\ c.readQueue = << >> /\ WrittenTo(j, c, n)
  BY DEF IsWriteOf, WriteStopping, Ready
<1>2. Part(j) = <<Send(StopToken)>> /\ Len(j.parts) = n + 2 /\ n \in Nat
  BY <1>1 DEF WriteParts, Part
<1>3. Now(j).val = StopToken
  <2>1. Now(j) = Send(StopToken)
    BY <1>1, <1>2 DEF Now
  <2> QED
    BY <2>1 DEF Send
<1>4. Rest(j) = NoJob
  <2>1. Len(Part(j)) = 1
    BY <1>2
  <2>2. ~(j.at < Len(Part(j))) /\ ~(j.part < Len(j.parts))
    BY <1>1, <1>2, <2>1
  <2> QED
    BY <2>2, RestIsNone
<1>5. Alike(d, c) /\ Calm(d)
  <2>1. d = Write(c, StopToken)
    BY <1>3
  <2> QED
    BY <1>1, <2>1, StopTokenIs
<1>6. Free(d) /\ ~d.idle /\ d.file = c.file
  BY <1>1, <1>5 DEF Alike, Free, Still
<1>7. Outcome(j, Rest(j), c, d)
  BY <1>1, <1>6, AllWritten
<1> QED
  BY <1>4, <1>6, <1>7

LEMMA TwoBytes ==
  ASSUME NEW v \in Values, NEW w \in Values
  PROVE  <<v, w>> = <<v>> \o <<w>>
<1>1. PICK a, b, s : a = <<v>> /\ b = <<w>> /\ s = <<v, w>>
  OBVIOUS
<1>2. /\ a \in Seq(Values) /\ b \in Seq(Values) /\ s \in Seq(Values)
      /\ Len(a) = 1 /\ Len(b) = 1 /\ Len(s) = 2
      /\ a[1] = v /\ b[1] = w /\ s[1] = v /\ s[2] = w
  BY <1>1
<1>3. PICK t : t = a \o b
  OBVIOUS
<1>4. t \in Seq(Values) /\ Len(t) = 2 /\ t[1] = v /\ t[2] = w
  <2>1. t \in Seq(Values) /\ Len(t) = Len(a) + Len(b)
    BY <1>2, <1>3, Joined
  <2>2. \A i \in 1 .. Len(a) + Len(b) :
          t[i] = IF i <= Len(a) THEN a[i] ELSE b[i - Len(a)]
    BY <1>2, <1>3, Joined
  <2> QED
    BY <1>2, <2>1, <2>2
<1>5. \A i \in 1 .. 2 : i = 1 \/ i = 2
  OBVIOUS
<1>6. s = t
  BY <1>2, <1>4, <1>5, SeqEqual
<1> QED
  BY <1>1, <1>3, <1>6

LEMMA WriteTakenHears ==
  ASSUME NEW j, NEW c, NEW n, NEW many, IsWriteOf(j, c, n, many),
         WriteTaken(j, c, n, many), j.at = BlockSize + 4, NEW d, d = Clocks(c)
  PROVE  /\ Comes(c) = Accepted /\ d.file = c.file /\ Rest(j) # NoJob
         /\ IsWriteOf(Rest(j), d, n, many)
<1>1. PICK i, q : i = Rest(j) /\ q = <<Busy>>
  OBVIOUS
<1>2. BlockSize \in Nat \ {0}
  BY CardAssumption
<1>3. /\ c \in Cards /\ ~c.appCmd /\ ~c.idle /\ WriteParts(j, n, many) /\ j.op = "write"
      /\ j.part \in 2 .. n + 1 /\ c.cmd = << >> /\ ~c.reading
      /\ (c.writing <=> many) /\ (c.multi <=> many)
      /\ (many => ~c.gotToken /\ c.writeOffset = 0)
      /\ c.writeAddress = Address(j) + BlockSize
      /\ c.readQueue = <<Accepted, Busy>> /\ WrittenTo(j, c, j.part - 1)
  <2>1. /\ c \in Cards /\ ~c.appCmd /\ ~c.idle /\ WriteParts(j, n, many) /\ j.op = "write"
    BY DEF IsWriteOf
  <2> QED
    BY <2>1 DEF WriteTaken
<1>4. /\ Moved(i, j, j.part, j.at + 1) /\ WriteParts(i, n, many)
      /\ Address(i) = Address(j) /\ i # NoJob
  <2>1. j.at \in 1 .. BlockSize + 4
    BY <1>2
  <2> QED
    BY <1>1, <1>3, <2>1, OutgoingMoves
<1>5. Accepted \in Values /\ Busy \in Values
  BY DEF Values, Accepted, Busy
<1>6. /\ d \in Cards /\ SameCard(d, c) /\ d.cmd = << >> /\ d.readQueue = q
      /\ Comes(c) = Accepted
  <2>1. q \in Seq(Values) /\ c.readQueue = <<Accepted>> \o q
    <3>1. q \in Seq(Values)
      BY <1>1, <1>5, ShortIs
    <3>2. <<Accepted, Busy>> = <<Accepted>> \o q
      BY <1>1, <1>5, TwoBytes
    <3> QED
      BY <1>3, <3>1, <3>2
  <2>2. ~(c.writing /\ c.gotToken)
    BY <1>3
  <2> QED
    BY <1>3, <1>5, <2>1, <2>2, QueueComes
<1>7. /\ d.file = c.file /\ ~d.appCmd /\ ~d.idle /\ ~d.reading
      /\ (d.writing <=> many) /\ (d.multi <=> many)
      /\ (many => ~d.gotToken /\ d.writeOffset = 0)
      /\ d.writeAddress = Address(i) + BlockSize
  BY <1>3, <1>4, <1>6 DEF SameCard
<1>8. IsJob(i) /\ i.op = "write" /\ i.part = j.part /\ i.at = j.at + 1
  BY <1>3, <1>4 DEF Moved
<1>9. WrittenTo(i, d, i.part - 1)
  BY <1>3, <1>4, <1>7, <1>8, SameWritten, WriteMoved
<1>10. i.at = BlockSize + 5 /\ i.at \in BlockSize + 4 .. BlockSize + 5 /\ i.at # BlockSize + 4
  BY <1>2, <1>8
<1>11. WriteTaken(i, d, n, many)
  <2>1. i.part \in 2 .. n + 1 /\ d.readQueue = <<Busy>>
    BY <1>1, <1>3, <1>6, <1>8
  <2> QED
    BY <1>6, <1>7, <1>9, <1>10, <2>1, Zenon DEF WriteTaken
<1>12. IsWriteOf(i, d, n, many)
  BY <1>4, <1>6, <1>7, <1>8, <1>11 DEF IsWriteOf
<1> QED
  BY <1>1, <1>4, <1>6, <1>7, <1>12

LEMMA WriteTakenAwaits ==
  ASSUME NEW j, NEW c, NEW n, NEW many, IsWriteOf(j, c, n, many),
         WriteTaken(j, c, n, many), j.at = BlockSize + 5, NEW d, d = Clocks(c)
  PROVE  /\ d.file = c.file
         /\ Comes(c) # Empty => IsWriteOf(j, d, n, many)
         /\ Comes(c) = Empty =>
              /\ Rest(j) = NoJob => Free(d) /\ ~d.idle
              /\ Rest(j) # NoJob => IsWriteOf(Rest(j), d, n, many)
              /\ Outcome(j, Rest(j), c, d)
<1>1. PICK i : i = Rest(j)
  OBVIOUS
<1>2. BlockSize \in Nat \ {0}
  BY CardAssumption
<1>3. /\ c \in Cards /\ ~c.appCmd /\ ~c.idle /\ WriteParts(j, n, many) /\ j.op = "write"
      /\ IsJob(j) /\ j.part \in 2 .. n + 1 /\ c.cmd = << >> /\ ~c.reading
      /\ (c.writing <=> many) /\ (c.multi <=> many)
      /\ (many => ~c.gotToken /\ c.writeOffset = 0)
      /\ c.writeAddress = Address(j) + BlockSize
      /\ (c.readQueue = <<Busy>> \/ c.readQueue = << >>) /\ WrittenTo(j, c, j.part - 1)
  <2>1. /\ c \in Cards /\ ~c.appCmd /\ ~c.idle /\ WriteParts(j, n, many) /\ j.op = "write"
        /\ IsJob(j)
    BY DEF IsWriteOf
  <2> QED
    BY <2>1 DEF WriteTaken
<1>4. ~(c.writing /\ c.gotToken)
  BY <1>3
<1>5. CASE c.readQueue = <<Busy>>
  <2>1. Busy \in Values /\ Busy # Empty
    BY DEF Values, Busy, Empty
  <2>2. /\ d \in Cards /\ SameCard(d, c) /\ d.cmd = << >> /\ d.readQueue = << >>
        /\ Comes(c) = Busy
    BY <1>3, <1>4, <1>5, <2>1, OneByteComes
  <2>3. /\ d.file = c.file /\ ~d.appCmd /\ ~d.idle /\ ~d.reading
        /\ (d.writing <=> many) /\ (d.multi <=> many)
        /\ (many => ~d.gotToken /\ d.writeOffset = 0)
        /\ d.writeAddress = Address(j) + BlockSize
    BY <1>3, <2>2 DEF SameCard
  <2>4. WrittenTo(j, d, j.part - 1)
    BY <1>3, <2>3, SameWritten
  <2>5. j.at \in BlockSize + 4 .. BlockSize + 5 /\ j.at # BlockSize + 4
    BY <1>2
  <2>6. WriteTaken(j, d, n, many)
    BY <1>3, <2>2, <2>3, <2>4, <2>5, Zenon DEF WriteTaken
  <2>7. IsWriteOf(j, d, n, many)
    BY <1>3, <2>2, <2>3, <2>6 DEF IsWriteOf
  <2> QED
    BY <2>1, <2>2, <2>3, <2>7
<1>6. CASE c.readQueue = << >>
  <2>1. Upcoming(c) = << >>
    BY <1>3, <1>6 DEF Upcoming, OnDemand
  <2>2. /\ d \in Cards /\ SameCard(d, c) /\ d.cmd = << >> /\ d.readQueue = << >>
        /\ Comes(c) = Empty
    BY <1>3, <1>4, <2>1, ClockIs
  <2>3. /\ d.file = c.file /\ ~d.appCmd /\ ~d.idle /\ ~d.reading
        /\ (d.writing <=> many) /\ (d.multi <=> many)
        /\ (many => ~d.gotToken /\ d.writeOffset = 0)
        /\ d.writeAddress = Address(j) + BlockSize
    BY <1>3, <2>2 DEF SameCard
  <2>4. /\ IsOutgoing(Part(j), IF many THEN MultiToken ELSE StartToken, j.datas[j.part - 1])
        /\ Len(j.parts) = (IF many THEN n + 2 ELSE n + 1) /\ n \in Nat
    BY <1>3 DEF WriteParts, Part
  <2>5. ~(j.at < Len(Part(j)))
    BY <1>2, <2>4 DEF IsOutgoing
  <2>6. CASE j.part < Len(j.parts)
    <3>1. Moved(i, j, j.part + 1, 1)
      BY <1>1, <1>3, <2>5, <2>6, RestNextPart
    <3>2. /\ WriteParts(i, n, many) /\ IsJob(i) /\ i.op = "write"
          /\ i.part = j.part + 1 /\ i.at = 1 /\ i.block = j.block
          /\ WrittenTo(i, c, j.part - 1)
      BY <1>3, <3>1, WriteMoved
    <3>3. many = TRUE
      <4>1. many \in BOOLEAN /\ (~many => n = 1)
        BY <1>3 DEF WriteParts
      <4> QED
        BY <1>3, <2>4, <2>6, <4>1
    <3>4. Ready(d, many)
      BY <2>2, <2>3, <3>3 DEF Ready, Writing
    <3>5. d.writeAddress = Address(i)
      <4>1. j.block \in Nat /\ j.part \in Int
        BY <1>3, <2>4 DEF WriteParts
      <4> QED
        BY <2>3, <3>2, <4>1, NextAddress DEF Address
    <3>6. i.part \in 2 .. Len(i.parts) /\ i.part - 2 = j.part - 1
      <4>1. i.parts = j.parts
        BY <3>1 DEF Moved
      <4> QED
        BY <1>3, <2>4, <2>6, <3>2, <4>1
    <3>7. WrittenTo(i, d, i.part - 2)
      BY <2>3, <3>2, <3>6, SameWritten
    <3>8. IsWriteOf(i, d, n, many)
      BY <2>2, <2>3, <3>2, <3>4, <3>5, <3>6, <3>7, NextBlock
    <3>9. i # NoJob
      BY <3>2, NoJobIs
    <3>10. Outcome(j, i, c, d)
      BY <2>3, <3>9, NothingWritten
    <3> QED
      BY <1>1, <2>2, <2>3, <3>8, <3>9, <3>10
  <2>7. CASE ~(j.part < Len(j.parts))
    <3>1. Rest(j) = NoJob
      BY <2>5, <2>7, RestIsNone
    <3>2. ~many /\ j.part - 1 = n
      BY <1>3, <2>4, <2>7
    <3>3. Free(d)
      BY <2>2, <2>3, <3>2 DEF Free, Still, Calm
    <3>4. WrittenTo(j, c, n)
      BY <1>3, <3>2
    <3>5. Outcome(j, Rest(j), c, d)
      BY <1>3, <2>3, <3>4, AllWritten
    <3> QED
      BY <2>2, <2>3, <3>1, <3>3, <3>5
  <2> QED
    BY <2>6, <2>7
<1> QED
  BY <1>3, <1>5, <1>6

(* Each kind of step, while it writes. *)
LEMMA WriteSends ==
  ASSUME NEW j, NEW c, IsWrite(j, c), Now(j).kind = "send",
         NEW d, d = Write(c, Now(j).val)
  PROVE  /\ Rest(j) = NoJob => Free(d) /\ ~d.idle
         /\ Rest(j) # NoJob => IsWrite(Rest(j), d)
         /\ Outcome(j, Rest(j), c, d)
<1>1. PICK n, many : IsWriteOf(j, c, n, many)
  BY DEF IsWrite
<1>2. \A i, e : IsWriteOf(i, e, n, many) => IsWrite(i, e) /\ i # NoJob
  <2>1. \A i, e : IsWriteOf(i, e, n, many) => i.op = "write"
    BY DEF IsWriteOf
  <2> QED
    BY <2>1, NoJobIs DEF IsWrite
<1>3. CASE WriteAsked(j, c, many) /\ j.at \in 1 .. 6
  <2>1. IsWriteOf(Rest(j), d, n, many) /\ d.file = c.file
    BY <1>1, <1>3, WriteAskedSends
  <2> QED
    BY <1>2, <2>1, NothingWritten
<1>4. CASE WriteBegins(j, c, n, many)
  <2>1. IsWriteOf(Rest(j), d, n, many) /\ d.file = c.file
    BY <1>1, <1>4, WriteBeginsSends
  <2> QED
    BY <1>2, <2>1, NothingWritten
<1>5. CASE WriteGoing(j, c, n, many)
  <2>1. j.at \in 2 .. BlockSize + 2 \/ j.at = BlockSize + 3
    BY <1>5, CardAssumption DEF WriteGoing
  <2>2. CASE j.at \in 2 .. BlockSize + 2
    <3>1. IsWriteOf(Rest(j), d, n, many) /\ d.file = c.file
      BY <1>1, <1>5, <2>2, WriteGoesOn
    <3> QED
      BY <1>2, <3>1, NothingWritten
  <2>3. CASE j.at = BlockSize + 3
    <3>1. IsWriteOf(Rest(j), d, n, many) /\ Outcome(j, Rest(j), c, d)
      BY <1>1, <1>5, <2>3, WriteCommits
    <3> QED
      BY <1>2, <3>1
  <2> QED
    BY <2>1, <2>2, <2>3
<1>6. CASE many = TRUE /\ WriteStopping(j, c, n)
  <2>1. IsWriteOf(j, c, n, TRUE) /\ WriteStopping(j, c, n)
    BY <1>1, <1>6
  <2> QED
    BY <2>1, WriteStops
<1>7. \/ WriteAsked(j, c, many) /\ j.at \in 1 .. 6
      \/ WriteBegins(j, c, n, many)
      \/ WriteGoing(j, c, n, many)
      \/ many = TRUE /\ WriteStopping(j, c, n)
  BY <1>1, WriteSteps
<1> QED
  BY <1>3, <1>4, <1>5, <1>6, <1>7, Zenon

LEMMA WriteHears ==
  ASSUME NEW j, NEW c, IsWrite(j, c), Now(j).kind = "reply", NEW d, d = Clocks(c)
  PROVE  /\ Comes(c) = Now(j).val /\ Comes(c) # Empty
         /\ Rest(j) # NoJob /\ IsWrite(Rest(j), d)
         /\ Outcome(j, Rest(j), c, d)
<1>1. PICK n, many : IsWriteOf(j, c, n, many)
  BY DEF IsWrite
<1>2. 0 # Empty /\ Accepted # Empty
  BY DEF Empty, Accepted
<1>3. CASE WriteAsked(j, c, many) /\ j.at = 7 /\ Now(j).val = 0
  <2>1. /\ Comes(c) = 0 /\ d.file = c.file /\ Rest(j) # NoJob
        /\ IsWriteOf(Rest(j), d, n, many)
    BY <1>1, <1>3, WriteAskedHears
  <2> QED
    BY <1>2, <1>3, <2>1, NothingWritten DEF IsWrite
<1>4. CASE WriteTaken(j, c, n, many) /\ j.at = BlockSize + 4 /\ Now(j).val = Accepted
  <2>1. /\ Comes(c) = Accepted /\ d.file = c.file /\ Rest(j) # NoJob
        /\ IsWriteOf(Rest(j), d, n, many)
    BY <1>1, <1>4, WriteTakenHears
  <2> QED
    BY <1>2, <1>4, <2>1, NothingWritten DEF IsWrite
<1> QED
  BY <1>1, <1>3, <1>4, WriteSteps

LEMMA WriteAwaits ==
  ASSUME NEW j, NEW c, IsWrite(j, c), Now(j).kind = "until", NEW d, d = Clocks(c)
  PROVE  /\ Comes(c) # Now(j).val => IsWrite(j, d) /\ Outcome(j, j, c, d)
         /\ Comes(c) = Now(j).val =>
              /\ Rest(j) = NoJob => Free(d) /\ ~d.idle
              /\ Rest(j) # NoJob => IsWrite(Rest(j), d)
              /\ Outcome(j, Rest(j), c, d)
<1>1. PICK n, many : IsWriteOf(j, c, n, many)
  BY DEF IsWrite
<1>2. WriteTaken(j, c, n, many) /\ j.at = BlockSize + 5 /\ Now(j).val = Empty
  BY <1>1, WriteSteps
<1>3. /\ d.file = c.file
      /\ Comes(c) # Empty => IsWriteOf(j, d, n, many)
      /\ Comes(c) = Empty =>
           /\ Rest(j) = NoJob => Free(d) /\ ~d.idle
           /\ Rest(j) # NoJob => IsWriteOf(Rest(j), d, n, many)
           /\ Outcome(j, Rest(j), c, d)
  BY <1>1, <1>2, WriteTakenAwaits
<1>4. j # NoJob
  BY <1>1, NoJobIs DEF IsWriteOf
<1>5. Outcome(j, j, c, d)
  BY <1>3, <1>4, NothingWritten
<1> QED
  BY <1>2, <1>3, <1>5 DEF IsWrite

-----------------------------------------------------------------------------
(* Operations that begin. *)
Fresh(i, op, b, datas, parts) ==
  /\ IsJob(i) /\ i.op = op /\ i.block = b /\ i.datas = datas /\ i.parts = parts
  /\ i.got = << >> /\ i.part = 1 /\ i.at = 1

LEMMA BegunIs ==
  ASSUME NEW op, NEW b, NEW datas, NEW parts
  PROVE  Fresh([NoJob EXCEPT !.op = op, !.block = b, !.datas = datas,
                             !.parts = parts], op, b, datas, parts)
<1>1. PICK z, i : /\ z = NoJob
                  /\ i = [z EXCEPT !.op = op, !.block = b, !.datas = datas,
                                   !.parts = parts]
  OBVIOUS
<1>2. IsJob(z) /\ z.got = << >> /\ z.part = 1 /\ z.at = 1
  BY <1>1, NoJobIs
<1>3. /\ IsJob(i) /\ i.op = op /\ i.block = b /\ i.datas = datas /\ i.parts = parts
      /\ i.got = z.got /\ i.part = z.part /\ i.at = z.at
  BY <1>1, <1>2 DEF IsJob
<1> QED
  BY <1>1, <1>2, <1>3 DEF Fresh

LEMMA NothingSent ==
  ASSUME NEW c, Free(c), NEW P
  PROVE  Still(c) /\ Sent(c, P, 1) /\ c \in Cards /\ ~c.appCmd
BY DEF Free, Still, Sent

LEMMA BlocksAre ==
  /\ NumBlocks \in Nat
  /\ \A b \in Blocks : b \in Nat /\ b + 1 <= NumBlocks /\ b * BlockSize \in Addresses
<1>1. NumBlocks \in Nat
  BY CardAssumption, DivisionIs DEF NumBlocks
<1>2. ASSUME NEW b \in Blocks
      PROVE  b \in Nat /\ b + 1 <= NumBlocks /\ b * BlockSize \in Addresses
  <2>1. b \in Nat /\ b + 1 <= NumBlocks
    BY <1>1 DEF Blocks
  <2>2. b * BlockSize \in Nat /\ b * BlockSize + BlockSize <= FileSize
    BY <2>1, InFile
  <2>3. BlockSize \in Nat /\ FileSize \in Nat /\ FileSize + BlockSize <= MaxInt /\ MaxInt \in Int
    BY CardAssumption DEF MaxInt
  <2> QED
    BY <2>1, <2>2, <2>3 DEF Addresses
<1> QED
  BY <1>1, <1>2

LEMMA InitialiseBegins ==
  ASSUME NEW i, NEW c, Free(c), Fresh(i, "initialise", 0, << >>, Initialise)
  PROVE  IsInitialise(i, c)
<1>1. Still(c) /\ Sent(c, Part(i), 1) /\ ~c.appCmd
  BY NothingSent
<1> QED
  BY <1>1 DEF Fresh, IsInitialise

LEMMA RegisterBegins ==
  ASSUME NEW i, NEW c, Free(c), ~c.idle, Fresh(i, "register", 0, << >>, ReadRegister)
  PROVE  IsRegister(i, c)
<1>1. Still(c) /\ Sent(c, Part(i), 1) /\ c \in Cards /\ ~c.appCmd /\ Calm(c)
  BY NothingSent DEF Still
<1>2. RegisterAsked(i, c)
  BY <1>1 DEF Fresh, RegisterAsked
<1> QED
  BY <1>1, <1>2 DEF Fresh, IsRegister

LEMMA ReadBegins ==
  ASSUME NEW i, NEW c, Free(c), ~c.idle, NEW b, NEW parts,
         Fresh(i, "read", b, << >>, parts), NEW n, NEW many, ReadParts(i, n, many)
  PROVE  IsRead(i, c)
<1>1. Still(c) /\ Sent(c, Part(i), 1) /\ c \in Cards /\ ~c.appCmd
  BY NothingSent
<1>2. IsJob(i) /\ i.op = "read" /\ i.got = << >> /\ i.part = 1 /\ i.at = 1
  BY DEF Fresh
<1>3. ReadAsked(i, c, many)
  BY <1>1, <1>2 DEF ReadAsked
<1>4. GotIs(i, c)
  BY <1>2 DEF GotIs
<1>5. IsReadOf(i, c, n, many)
  BY <1>1, <1>2, <1>3, <1>4 DEF IsReadOf
<1> QED
  BY <1>5 DEF IsRead

LEMMA WriteStarts ==
  ASSUME NEW i, NEW c, Free(c), ~c.idle, NEW b, NEW datas, NEW parts,
         Fresh(i, "write", b, datas, parts), NEW n, NEW many, WriteParts(i, n, many)
  PROVE  IsWrite(i, c)
<1>1. Still(c) /\ Sent(c, Part(i), 1) /\ c \in Cards /\ ~c.appCmd
  BY NothingSent
<1>2. IsJob(i) /\ i.op = "write" /\ i.part = 1 /\ i.at = 1
  BY DEF Fresh
<1>3. WriteAsked(i, c, many)
  BY <1>1, <1>2 DEF WriteAsked
<1>4. IsWriteOf(i, c, n, many)
  BY <1>1, <1>2, <1>3 DEF IsWriteOf
<1> QED
  BY <1>4 DEF IsWrite

LEMMA ReadOneIs ==
  ASSUME NEW b \in Blocks, NEW i, Fresh(i, "read", b, << >>, ReadOne(b))
  PROVE  ReadParts(i, 1, FALSE)
<1>1. PICK x, y, a, k : /\ x = Cmd(17, a, 0) /\ y = Incoming(BlockSize, k)
                        /\ a = b * BlockSize /\ k = 0
  OBVIOUS
<1>2. i.parts = <<x, y>> /\ i.block = b
  BY <1>1 DEF Fresh, ReadOne
<1>3. Len(i.parts) = 2 /\ i.parts[1] = x /\ i.parts[2] = y
  BY <1>2
<1>4. IsCmd(x, 17, a, 0) /\ Start(i) = a
  <2>1. 0 \in Values /\ a \in Addresses
    BY <1>1, BlocksAre DEF Values
  <2> QED
    BY <1>1, <1>2, <2>1, CmdIs DEF Start
<1>5. k \in 0 .. BlockSize + 2 /\ IsIncoming(y, BlockSize, k)
  <2>1. BlockSize \in Nat /\ k \in 0 .. BlockSize + 2
    BY <1>1, CardAssumption
  <2> QED
    BY <1>1, <2>1, IncomingIs
<1>6. ASSUME NEW p \in 2 .. 1 + 1
      PROVE  \E cut \in 0 .. BlockSize + 2 :
               /\ IsIncoming(i.parts[p], BlockSize, cut)
               /\ cut = 0 \/ (FALSE /\ p = 1 + 1)
  <2>1. p = 2
    OBVIOUS
  <2> QED
    BY <1>1, <1>3, <1>5, <2>1
<1>7. i.block \in Nat /\ i.block + 1 <= NumBlocks
  BY <1>2, BlocksAre
<1> QED
  BY <1>3, <1>4, <1>6, <1>7 DEF ReadParts

LEMMA ReadManyIs ==
  ASSUME NEW b \in Blocks, NEW n \in Nat, NEW cut \in 0 .. BlockSize + 2,
         b + n <= NumBlocks,
         NEW i, Fresh(i, "read", b, << >>, ReadMany(b, n, cut))
  PROVE  ReadParts(i, n, TRUE)
<1>1. PICK x, a, P : x = Cmd(18, a, 0) /\ a = b * BlockSize /\ P = ReadMany(b, n, cut)
  OBVIOUS
<1>2. i.parts = P /\ i.block = b
  BY <1>1 DEF Fresh
<1>3. Len(P) = n + 2 /\ P[1] = x /\ P[n + 2] = Stop
      /\ \A p \in 2 .. n + 1 : P[p] = Incoming(BlockSize, IF p = n + 1 THEN cut ELSE 0)
  <2>1. P = [p \in 1 .. n + 2 |->
               IF p = 1 THEN x ELSE IF p = n + 2 THEN Stop
               ELSE Incoming(BlockSize, IF p = n + 1 THEN cut ELSE 0)]
    BY <1>1 DEF ReadMany
  <2>2. Len(P) = n + 2
    BY <2>1
  <2>3. P[1] = x
    BY <2>1
  <2>4. P[n + 2] = Stop
    <3>1. n + 2 \in 1 .. n + 2 /\ n + 2 # 1
      OBVIOUS
    <3> QED
      BY <2>1, <3>1
  <2>5. ASSUME NEW p \in 2 .. n + 1
        PROVE  P[p] = Incoming(BlockSize, IF p = n + 1 THEN cut ELSE 0)
    <3>1. p \in 1 .. n + 2 /\ p # 1 /\ p # n + 2
      OBVIOUS
    <3> QED
      BY <2>1, <3>1
  <2> QED
    BY <2>2, <2>3, <2>4, <2>5
<1>4. IsCmd(x, 18, a, 0) /\ Start(i) = a
  <2>1. 0 \in Values /\ a \in Addresses
    BY <1>1, BlocksAre DEF Values
  <2> QED
    BY <1>1, <1>2, <2>1, CmdIs DEF Start
<1>5. ASSUME NEW p \in 2 .. n + 1
      PROVE  \E k \in 0 .. BlockSize + 2 :
               /\ IsIncoming(i.parts[p], BlockSize, k)
               /\ k = 0 \/ (TRUE /\ p = n + 1)
  <2>1. PICK k : k = IF p = n + 1 THEN cut ELSE 0
    OBVIOUS
  <2>2. BlockSize \in Nat /\ k \in 0 .. BlockSize + 2 /\ (k = 0 \/ p = n + 1)
    BY <2>1, CardAssumption
  <2>3. IsIncoming(Incoming(BlockSize, k), BlockSize, k)
    BY <2>2, IncomingIs
  <2>4. i.parts[p] = Incoming(BlockSize, k)
    BY <1>2, <1>3, <2>1
  <2> QED
    BY <2>2, <2>3, <2>4
<1>6. i.block \in Nat /\ i.block + 1 <= NumBlocks
  BY <1>2, BlocksAre
<1> QED
  BY <1>2, <1>3, <1>4, <1>5, <1>6, StopIs DEF ReadParts

LEMMA WriteOneIs ==
  ASSUME NEW b \in Blocks, NEW data \in Data,
         NEW i, Fresh(i, "write", b, <<data>>, WriteOne(b, data))
  PROVE  WriteParts(i, 1, FALSE)
<1>1. PICK x, y, a : /\ x = Cmd(24, a, 0) /\ y = Outgoing(StartToken, data)
                     /\ a = b * BlockSize
  OBVIOUS
<1>2. i.parts = <<x, y>> /\ i.block = b /\ i.datas = <<data>>
  BY <1>1 DEF Fresh, WriteOne
<1>3. Len(i.parts) = 2 /\ i.parts[1] = x /\ i.parts[2] = y /\ i.datas[1] = data
  BY <1>2
<1>4. IsCmd(x, 24, a, 0) /\ Start(i) = a
  <2>1. 0 \in Values /\ a \in Addresses
    BY <1>1, BlocksAre DEF Values
  <2> QED
    BY <1>1, <1>2, <2>1, CmdIs DEF Start
<1>5. data \in [1 .. BlockSize -> Values]
  BY SdAssumption DEF Values
<1>6. IsOutgoing(y, StartToken, data)
  <2>1. StartToken \in Values
    BY DEF Values, StartToken
  <2> QED
    BY <1>1, <1>5, <2>1, OutgoingIs
<1>7. ASSUME NEW p \in 2 .. 1 + 1
      PROVE  IsOutgoing(i.parts[p], StartToken, i.datas[p - 1])
  <2>1. p = 2 /\ p - 1 = 1
    OBVIOUS
  <2> QED
    BY <1>3, <1>6, <2>1
<1>8. i.block \in Nat /\ i.block + 1 <= NumBlocks
  BY <1>2, BlocksAre
<1>9. i.datas \in [1 .. 1 -> [1 .. BlockSize -> Values]]
  BY <1>2, <1>5
<1> QED
  BY <1>3, <1>4, <1>7, <1>8, <1>9 DEF WriteParts

LEMMA WriteManyIs ==
  ASSUME NEW b \in Blocks, NEW n \in Nat \ {0}, NEW datas \in [1 .. n -> Data],
         b + n <= NumBlocks,
         NEW i, Fresh(i, "write", b, datas, WriteMany(b, datas))
  PROVE  WriteParts(i, n, TRUE)
<1>1. PICK x, a, P : x = Cmd(25, a, 0) /\ a = b * BlockSize /\ P = WriteMany(b, datas)
  OBVIOUS
<1>2. i.parts = P /\ i.block = b /\ i.datas = datas
  BY <1>1 DEF Fresh
<1>3. Len(P) = n + 2 /\ P[1] = x /\ P[n + 2] = <<Send(StopToken)>>
      /\ \A p \in 2 .. n + 1 : P[p] = Outgoing(MultiToken, datas[p - 1])
  <2>1. Len(datas) = n
    OBVIOUS
  <2>2. PICK s : s = <<Send(StopToken)>>
    OBVIOUS
  <2>3. P = [p \in 1 .. n + 2 |->
               IF p = 1 THEN x ELSE IF p = n + 2 THEN s
               ELSE Outgoing(MultiToken, datas[p - 1])]
    BY <1>1, <2>1, <2>2 DEF WriteMany
  <2>4. Len(P) = n + 2 /\ P[1] = x /\ P[n + 2] = s
        /\ \A p \in 2 .. n + 1 : P[p] = Outgoing(MultiToken, datas[p - 1])
    BY <2>3
  <2> QED
    BY <2>2, <2>4
<1>4. IsCmd(x, 25, a, 0) /\ Start(i) = a
  <2>1. 0 \in Values /\ a \in Addresses
    BY <1>1, BlocksAre DEF Values
  <2> QED
    BY <1>1, <1>2, <2>1, CmdIs DEF Start
<1>5. datas \in [1 .. n -> [1 .. BlockSize -> Values]]
  BY SdAssumption DEF Values
<1>6. ASSUME NEW p \in 2 .. n + 1
      PROVE  IsOutgoing(i.parts[p], MultiToken, i.datas[p - 1])
  <2>1. MultiToken \in Values
    BY DEF Values, MultiToken
  <2>2. PICK e : e = datas[p - 1]
    OBVIOUS
  <2>3. e \in [1 .. BlockSize -> Values]
    BY <1>5, <2>2
  <2>4. IsOutgoing(Outgoing(MultiToken, e), MultiToken, e)
    BY <2>1, <2>3, OutgoingIs
  <2> QED
    BY <1>2, <1>3, <2>2, <2>4
<1>7. i.block \in Nat /\ i.block + 1 <= NumBlocks
  BY <1>2, BlocksAre
<1> QED
  BY <1>2, <1>3, <1>4, <1>5, <1>6, <1>7 DEF WriteParts

-----------------------------------------------------------------------------
(* A step of whatever the firmware does: it goes on, or ends with a card   *)
(* that is free. *)
Working(j, c) ==
  \/ IsInitialise(j, c) \/ IsRegister(j, c) \/ IsRead(j, c) \/ IsWrite(j, c)

After(i, d) == (i = NoJob /\ Free(d) /\ ~d.idle) \/ Working(i, d)

LEMMA WorkingIs ==
  ASSUME NEW j, NEW c, Working(j, c)
  PROVE  /\ j # NoJob /\ j.op \in {"initialise", "register", "read", "write"}
         /\ j.op = "initialise" => IsInitialise(j, c)
         /\ j.op = "register" => IsRegister(j, c)
         /\ j.op = "read" => IsRead(j, c)
         /\ j.op = "write" => IsWrite(j, c)
<1>1. /\ IsInitialise(j, c) => j.op = "initialise"
      /\ IsRegister(j, c) => j.op = "register"
      /\ IsRead(j, c) => j.op = "read"
      /\ IsWrite(j, c) => j.op = "write"
  BY DEF IsInitialise, IsRegister, IsRead, IsReadOf, IsWrite, IsWriteOf
<1>2. j.op \in {"initialise", "register", "read", "write"}
  BY <1>1 DEF Working
<1> QED
  BY <1>1, <1>2, NoJobIs DEF Working

LEMMA StepSends ==
  ASSUME NEW j, NEW c, Working(j, c), Now(j).kind = "send",
         NEW d, d = Write(c, Now(j).val)
  PROVE  After(Rest(j), d) /\ Outcome(j, Rest(j), c, d)
<1>1. CASE IsInitialise(j, c)
  <2>1. IsInitialise(Rest(j), d) /\ d.file = c.file
    BY <1>1, InitialiseSends
  <2>2. j.op = "initialise"
    BY <1>1 DEF IsInitialise
  <2> QED
    BY <2>1, <2>2, NothingWritten DEF After, Working
<1>2. CASE IsRegister(j, c)
  <2>1. IsRegister(Rest(j), d) /\ d.file = c.file /\ j.op = "register"
    BY <1>2, RegisterSends DEF IsRegister
  <2> QED
    BY <2>1, NothingWritten DEF After, Working
<1>3. CASE IsRead(j, c)
  <2>1. PICK n, many : IsReadOf(j, c, n, many)
    BY <1>3 DEF IsRead
  <2>2. IsReadOf(Rest(j), d, n, many) /\ d.file = c.file
    <3>1. CASE ReadAsked(j, c, many) /\ j.at \in 1 .. 6
      BY <2>1, <3>1, ReadAskedSends
    <3>2. CASE many = TRUE /\ ReadStopping(j, c, n) /\ j.at \in 1 .. 6
      BY <2>1, <3>2, StopSends
    <3>3. \/ ReadAsked(j, c, many) /\ j.at \in 1 .. 6
          \/ many = TRUE /\ ReadStopping(j, c, n) /\ j.at \in 1 .. 6
      BY <2>1, ReadSteps
    <3> QED
      BY <3>1, <3>2, <3>3, Zenon
  <2>3. IsRead(Rest(j), d) /\ j.op = "read"
    BY <2>1, <2>2 DEF IsRead, IsReadOf
  <2> QED
    BY <2>2, <2>3, NothingWritten DEF After, Working
<1>4. CASE IsWrite(j, c)
  BY <1>4, WriteSends DEF After, Working
<1> QED
  BY <1>1, <1>2, <1>3, <1>4 DEF Working

LEMMA StepHears ==
  ASSUME NEW j, NEW c, Working(j, c), Now(j).kind = "reply", NEW d, d = Clocks(c)
  PROVE  /\ Comes(c) = Now(j).val /\ Comes(c) # Empty
         /\ After(Rest(j), d) /\ Outcome(j, Rest(j), c, d)
<1>1. CASE IsInitialise(j, c)
  <2>1. /\ Comes(c) = Now(j).val /\ Comes(c) # Empty /\ d.file = c.file
        /\ Rest(j) = NoJob => Free(d) /\ ~d.idle
        /\ Rest(j) # NoJob => IsInitialise(Rest(j), d)
    BY <1>1, InitialiseHears
  <2>2. j.op = "initialise"
    BY <1>1 DEF IsInitialise
  <2> QED
    BY <2>1, <2>2, NothingWritten DEF After, Working
<1>2. CASE IsRegister(j, c)
  <2>1. /\ Comes(c) = Now(j).val /\ Comes(c) # Empty /\ d.file = c.file
        /\ IsRegister(Rest(j), d) /\ j.op = "register"
    BY <1>2, RegisterHears DEF IsRegister
  <2> QED
    BY <2>1, NothingWritten DEF After, Working
<1>3. CASE IsRead(j, c)
  <2>1. PICK n, many : IsReadOf(j, c, n, many)
    BY <1>3 DEF IsRead
  <2>2. j.op = "read" /\ 0 # Empty
    BY <2>1 DEF IsReadOf, Empty
  <2>3. CASE ReadAsked(j, c, many) /\ j.at = 7
    <3>1. IsReadOf(Rest(j), d, n, many) /\ d.file = c.file /\ Comes(c) = 0
      BY <2>1, <2>3, ReadAskedHears
    <3>2. Now(j).val = 0
      BY <2>1, ReadSteps
    <3>3. IsRead(Rest(j), d)
      BY <3>1 DEF IsRead
    <3> QED
      BY <2>2, <3>1, <3>2, <3>3, NothingWritten DEF After, Working
  <2>4. CASE many = TRUE /\ ReadStopping(j, c, n) /\ j.at = 8
    <3>1. IsReadOf(j, c, n, TRUE)
      BY <2>1, <2>4
    <3>2. /\ Comes(c) = 0 /\ d.file = c.file /\ Rest(j) = NoJob
          /\ Free(d) /\ ~d.idle
      BY <2>4, <3>1, StopHears
    <3>3. Now(j).val = 0
      BY <2>1, ReadSteps
    <3> QED
      BY <2>2, <3>2, <3>3, NothingWritten DEF After
  <2>5. \/ ReadAsked(j, c, many) /\ j.at = 7
        \/ many = TRUE /\ ReadStopping(j, c, n) /\ j.at = 8
    BY <2>1, ReadSteps
  <2> QED
    BY <2>3, <2>4, <2>5, Zenon
<1>4. CASE IsWrite(j, c)
  BY <1>4, WriteHears DEF After, Working
<1> QED
  BY <1>1, <1>2, <1>3, <1>4 DEF Working

LEMMA StepAwaits ==
  ASSUME NEW j, NEW c, Working(j, c), Now(j).kind = "until", NEW d, d = Clocks(c)
  PROVE  /\ Comes(c) # Now(j).val => After(j, d) /\ Outcome(j, j, c, d)
         /\ Comes(c) = Now(j).val => After(Rest(j), d) /\ Outcome(j, Rest(j), c, d)
<1>1. ~IsInitialise(j, c)
  BY InitialiseSteps
<1>2. CASE IsRegister(j, c)
  <2>1. /\ Comes(c) = Now(j).val /\ d.file = c.file /\ IsRegister(Rest(j), d)
        /\ j.op = "register"
    BY <1>2, RegisterAwaits DEF IsRegister
  <2> QED
    BY <2>1, NothingWritten DEF After, Working
<1>3. CASE IsRead(j, c)
  <2>1. PICK n, many : IsReadOf(j, c, n, many)
    BY <1>3 DEF IsRead
  <2>2. Now(j).val = StartToken /\ ReadComing(j, c, n, many) /\ j.at = 1
    BY <2>1, ReadSteps
  <2>3. /\ d.file = c.file
        /\ Comes(c) = StartToken => IsReadOf(Rest(j), d, n, many)
        /\ Comes(c) # StartToken => IsReadOf(j, d, n, many)
    BY <2>1, <2>2, ReadAwaits
  <2>4. j.op = "read"
    BY <2>1 DEF IsReadOf
  <2>5. \A i : Outcome(j, i, c, d)
    BY <2>3, <2>4, NothingWritten
  <2> QED
    BY <2>2, <2>3, <2>5 DEF After, Working, IsRead
<1>4. CASE IsWrite(j, c)
  BY <1>4, WriteAwaits DEF After, Working
<1> QED
  BY <1>1, <1>2, <1>3, <1>4 DEF Working

LEMMA StepCollects ==
  ASSUME NEW j, NEW c, Working(j, c), Now(j).kind = "collect", NEW d, d = Clocks(c),
         NEW i, i = [Rest(j) EXCEPT !.got = Append(@, Comes(c))]
  PROVE  After(i, d) /\ Outcome(j, i, c, d)
<1>1. ~IsInitialise(j, c)
  BY InitialiseSteps
<1>2. ~IsWrite(j, c)
  BY WriteSteps DEF IsWrite
<1>3. CASE IsRegister(j, c)
  <2>1. d.file = c.file /\ IsRegister(i, d) /\ j.op = "register"
    BY <1>3, RegisterCollects DEF IsRegister
  <2> QED
    BY <2>1, NothingWritten DEF After, Working
<1>4. CASE IsRead(j, c)
  <2>1. PICK n, many : IsReadOf(j, c, n, many)
    BY <1>4 DEF IsRead
  <2>2. ReadComing(j, c, n, many) /\ j.at \in 2 .. BlockSize + 1
    BY <2>1, ReadSteps
  <2>3. IsReadOf(i, d, n, many) /\ d.file = c.file
    BY <2>1, <2>2, ReadCollects
  <2>4. IsRead(i, d) /\ j.op = "read"
    BY <2>1, <2>3 DEF IsRead, IsReadOf
  <2> QED
    BY <2>3, <2>4, NothingWritten DEF After, Working
<1> QED
  BY <1>1, <1>2, <1>3, <1>4 DEF Working

LEMMA StepSkips ==
  ASSUME NEW j, NEW c, Working(j, c), Now(j).kind = "skip", NEW d, d = Clocks(c)
  PROVE  After(Rest(j), d) /\ Outcome(j, Rest(j), c, d)
<1>1. ~IsInitialise(j, c)
  BY InitialiseSteps
<1>2. ~IsWrite(j, c)
  BY WriteSteps DEF IsWrite
<1>3. CASE IsRegister(j, c)
  <2>1. /\ d.file = c.file /\ j.op = "register"
        /\ Rest(j) = NoJob => Free(d) /\ ~d.idle
        /\ Rest(j) # NoJob => IsRegister(Rest(j), d)
    BY <1>3, RegisterSkips DEF IsRegister
  <2> QED
    BY <2>1, NothingWritten DEF After, Working
<1>4. CASE IsRead(j, c)
  <2>1. PICK n, many : IsReadOf(j, c, n, many)
    BY <1>4 DEF IsRead
  <2>2. j.op = "read"
    BY <2>1 DEF IsReadOf
  <2>3. CASE ReadComing(j, c, n, many) /\ j.at > BlockSize + 1
    <3>1. /\ d.file = c.file
          /\ Rest(j) = NoJob => Free(d) /\ ~d.idle
          /\ Rest(j) # NoJob => IsReadOf(Rest(j), d, n, many)
      BY <2>1, <2>3, ReadSkips
    <3>2. Rest(j) # NoJob => IsRead(Rest(j), d)
      BY <3>1 DEF IsRead
    <3> QED
      BY <2>2, <3>1, <3>2, NothingWritten DEF After, Working
  <2>4. CASE many = TRUE /\ ReadStopping(j, c, n) /\ j.at = 7
    <3>1. IsReadOf(j, c, n, TRUE)
      BY <2>1, <2>4
    <3>2. IsReadOf(Rest(j), d, n, TRUE) /\ d.file = c.file
      BY <2>4, <3>1, StopSkips
    <3>3. IsRead(Rest(j), d)
      BY <3>2 DEF IsRead
    <3> QED
      BY <2>2, <3>2, <3>3, NothingWritten DEF After, Working
  <2>5. \/ ReadComing(j, c, n, many) /\ j.at > BlockSize + 1
        \/ many = TRUE /\ ReadStopping(j, c, n) /\ j.at = 7
    BY <2>1, ReadSteps
  <2> QED
    BY <2>3, <2>4, <2>5, Zenon
<1> QED
  BY <1>1, <1>2, <1>3, <1>4 DEF Working

-----------------------------------------------------------------------------
(* The invariant: the firmware does nothing and the card is free, or every *)
(* byte of the job so far has had its effect on the card. *)
IInv ==
  /\ RepliesAreForThis
  /\ \/ job = NoJob /\ Free(card) /\ (up => ~card.idle)
     \/ Working(job, card)

LEMMA InitIInv == Init => IInv
<1> SUFFICES ASSUME Init
             PROVE  IInv
  OBVIOUS
<1>1. PICK b : b = [i \in 0 .. BlockSize - 1 |-> 0]
  OBVIOUS
<1>2. /\ b \in [0 .. BlockSize - 1 -> Values] /\ File \in [0 .. FileSize - 1 -> Values]
      /\ 0 \in 0 .. BlockSize + 1
  BY <1>1, CardAssumption, SdAssumption DEF Values
<1>3. PICK e : e = << >>
  OBVIOUS
<1>4. e \in Seq(Values)
  BY <1>3
<1>5. card = [didWrite |-> FALSE, idle |-> FALSE, appCmd |-> FALSE, multi |-> FALSE,
              reading |-> FALSE, writing |-> FALSE, gotToken |-> FALSE,
              readAddress |-> 0, writeAddress |-> 0, writeOffset |-> 0,
              writeBuf |-> b, cmd |-> e, readQueue |-> e, file |-> File]
  BY <1>1, <1>3 DEF Init, Blank
<1>6. /\ card \in Cards /\ ~card.reading /\ ~card.writing /\ ~card.multi
      /\ card.readQueue = e /\ card.cmd = e /\ ~card.appCmd
  BY <1>2, <1>4, <1>5 DEF Cards
<1>7. Free(card)
  BY <1>3, <1>6 DEF Free, Still, Calm
<1> QED
  BY <1>7 DEF Init, IInv, RepliesAreForThis

(* A step of the job keeps it. *)
LEMMA Kept ==
  ASSUME RepliesAreForThis', After(job', card')
  PROVE  IInv'
BY DEF IInv, After

LEMMA AtWork ==
  ASSUME IInv, job # NoJob
  PROVE  Working(job, card) /\ RepliesAreForThis
BY DEF IInv

LEMMA ClockedIn ==
  ASSUME ClockIn
  PROVE  card' = Clocks(card) /\ In = Comes(card)
BY DEF ClockIn, Clocked, Clocks, In, Comes

LEMMA SendByteStep == ASSUME IInv, SendByte PROVE IInv' /\ Outcome(job, job', card, card')
<1>1. /\ job # NoJob /\ Now(job).kind = "send" /\ card' = Write(card, Now(job).val)
      /\ job' = Rest(job) /\ reply' = reply
  BY DEF SendByte, Doing
<1>2. Working(job, card) /\ RepliesAreForThis
  BY <1>1, AtWork
<1>3. After(Rest(job), card') /\ Outcome(job, Rest(job), card, card')
  BY <1>1, <1>2, StepSends
<1>4. RepliesAreForThis'
  BY <1>1, <1>2 DEF RepliesAreForThis
<1> QED
  BY <1>1, <1>3, <1>4, Kept

LEMMA AwaitReplyStep == ASSUME IInv, AwaitReply PROVE IInv' /\ Outcome(job, job', card, card')
<1>1. /\ job # NoJob /\ Now(job).kind = "reply" /\ ClockIn
      /\ job' = (IF In # Empty THEN Rest(job) ELSE job)
      /\ reply' = (IF In # Empty THEN [got |-> In, want |-> Now(job).val] ELSE reply)
  BY DEF AwaitReply, Doing
<1>2. Working(job, card) /\ RepliesAreForThis
  BY <1>1, AtWork
<1>3. card' = Clocks(card) /\ In = Comes(card)
  BY <1>1, ClockedIn
<1>4. /\ In = Now(job).val /\ In # Empty
      /\ After(Rest(job), card') /\ Outcome(job, Rest(job), card, card')
  BY <1>1, <1>2, <1>3, StepHears
<1>5. job' = Rest(job) /\ reply' = [got |-> In, want |-> Now(job).val]
  BY <1>1, <1>4
<1>6. RepliesAreForThis'
  BY <1>4, <1>5 DEF RepliesAreForThis
<1> QED
  BY <1>4, <1>5, <1>6, Kept

LEMMA AwaitByteStep == ASSUME IInv, AwaitByte PROVE IInv' /\ Outcome(job, job', card, card')
<1>1. /\ job # NoJob /\ Now(job).kind = "until" /\ ClockIn
      /\ job' = (IF In = Now(job).val THEN Rest(job) ELSE job) /\ reply' = reply
  BY DEF AwaitByte, Doing, Receive
<1>2. Working(job, card) /\ RepliesAreForThis
  BY <1>1, AtWork
<1>3. card' = Clocks(card) /\ In = Comes(card)
  BY <1>1, ClockedIn
<1>4. /\ In # Now(job).val => After(job, card') /\ Outcome(job, job, card, card')
      /\ In = Now(job).val => After(Rest(job), card') /\ Outcome(job, Rest(job), card, card')
  BY <1>1, <1>2, <1>3, StepAwaits
<1>5. After(job', card') /\ Outcome(job, job', card, card')
  BY <1>1, <1>4
<1>6. RepliesAreForThis'
  BY <1>1, <1>2 DEF RepliesAreForThis
<1> QED
  BY <1>5, <1>6, Kept

LEMMA CollectByteStep == ASSUME IInv, CollectByte PROVE IInv' /\ Outcome(job, job', card, card')
<1>1. /\ job # NoJob /\ Now(job).kind = "collect" /\ ClockIn
      /\ job' = [Rest(job) EXCEPT !.got = Append(@, In)] /\ reply' = reply
  BY DEF CollectByte, Doing, Receive
<1>2. Working(job, card) /\ RepliesAreForThis
  BY <1>1, AtWork
<1>3. card' = Clocks(card) /\ In = Comes(card)
  BY <1>1, ClockedIn
<1>4. job' = [Rest(job) EXCEPT !.got = Append(@, Comes(card))]
  BY <1>1, <1>3
<1>5. After(job', card') /\ Outcome(job, job', card, card')
  BY <1>1, <1>2, <1>3, <1>4, StepCollects
<1>6. RepliesAreForThis'
  BY <1>1, <1>2 DEF RepliesAreForThis
<1> QED
  BY <1>5, <1>6, Kept

LEMMA SkipByteStep == ASSUME IInv, SkipByte PROVE IInv' /\ Outcome(job, job', card, card')
<1>1. /\ job # NoJob /\ Now(job).kind = "skip" /\ ClockIn
      /\ job' = Rest(job) /\ reply' = reply
  BY DEF SkipByte, Doing, Receive
<1>2. Working(job, card) /\ RepliesAreForThis
  BY <1>1, AtWork
<1>3. card' = Clocks(card)
  BY <1>1, ClockedIn
<1>4. After(Rest(job), card') /\ Outcome(job, Rest(job), card, card')
  BY <1>1, <1>2, <1>3, StepSkips
<1>5. RepliesAreForThis'
  BY <1>1, <1>2 DEF RepliesAreForThis
<1> QED
  BY <1>1, <1>4, <1>5, Kept

(* A card that is free sends nothing and stays as it is. *)
LEMMA IdleClockStep == ASSUME IInv, IdleClock PROVE IInv' /\ Outcome(job, job', card, card')
<1>1. job = NoJob /\ ClockIn /\ job' = job /\ reply' = reply /\ up' = up
  BY DEF IdleClock, Receive
<1>2. Free(card) /\ (up => ~card.idle) /\ RepliesAreForThis
  <2>1. ~Working(job, card)
    BY <1>1, WorkingIs
  <2> QED
    BY <2>1 DEF IInv
<1>3. card' = Clocks(card)
  BY <1>1, ClockedIn
<1>4. /\ card \in Cards /\ card.cmd = << >> /\ ~card.writing /\ Upcoming(card) = << >>
      /\ Calm(card) /\ ~card.appCmd
  BY <1>2 DEF Free, Still, Calm, Upcoming, OnDemand
<1>5. /\ card' \in Cards /\ SameCard(card', card) /\ (card').cmd = << >>
      /\ (card').readQueue = << >>
  BY <1>3, <1>4, ClockIs
<1>6. Free(card') /\ ((card').idle <=> card.idle) /\ (card').file = card.file
  BY <1>4, <1>5 DEF Free, Still, Calm, SameCard
<1>7. Outcome(job, job', card, card')
  BY <1>1, <1>6, NothingWritten, NoJobIs
<1>8. RepliesAreForThis'
  BY <1>1, <1>2 DEF RepliesAreForThis
<1> QED
  BY <1>1, <1>2, <1>6, <1>7, <1>8 DEF IInv

(* An operation begins only when nothing else is done.                     *)
LEMMA BeginStep ==
  ASSUME IInv, NEW op, NEW b, NEW datas, NEW parts, Begin(op, b, datas, parts),
         up \/ op = "initialise",
         ASSUME Free(card), up => ~card.idle, Fresh(job', op, b, datas, parts)
         PROVE  Working(job', card)
  PROVE  IInv' /\ Outcome(job, job', card, card')
<1>1. /\ job = NoJob /\ card' = card /\ reply' = reply
      /\ Fresh(job', op, b, datas, parts)
  BY BegunIs DEF Begin
<1>2. Free(card) /\ (up => ~card.idle) /\ RepliesAreForThis
  <2>1. ~Working(job, card)
    BY <1>1, WorkingIs
  <2> QED
    BY <2>1 DEF IInv
<1>3. Working(job', card)
  BY <1>1, <1>2
<1>4. Outcome(job, job', card, card')
  BY <1>1, NothingWritten, NoJobIs
<1>5. RepliesAreForThis'
  BY <1>1, <1>2 DEF RepliesAreForThis
<1>6. Working(job', card')
  BY <1>1, <1>3
<1> QED
  BY <1>4, <1>5, <1>6 DEF IInv

LEMMA BeginsInitialise ==
  ASSUME IInv, BeginInitialise PROVE IInv' /\ Outcome(job, job', card, card')
<1>1. Begin("initialise", 0, << >>, Initialise)
  BY DEF BeginInitialise
<1>2. ASSUME Free(card), Fresh(job', "initialise", 0, << >>, Initialise)
      PROVE  Working(job', card)
  BY <1>2, InitialiseBegins DEF Working
<1> QED
  BY <1>1, <1>2, BeginStep

LEMMA BeginsRegister ==
  ASSUME IInv, BeginRegister PROVE IInv' /\ Outcome(job, job', card, card')
<1>1. up /\ Begin("register", 0, << >>, ReadRegister)
  BY DEF BeginRegister
<1>2. ASSUME Free(card), up => ~card.idle,
             Fresh(job', "register", 0, << >>, ReadRegister)
      PROVE  Working(job', card)
  BY <1>1, <1>2, RegisterBegins DEF Working
<1> QED
  BY <1>1, <1>2, BeginStep

LEMMA BeginsRead ==
  ASSUME IInv, BeginRead PROVE IInv' /\ Outcome(job, job', card, card')
<1>1. PICK b \in Blocks : up /\ Begin("read", b, << >>, ReadOne(b))
  BY DEF BeginRead
<1>2. ASSUME Free(card), up => ~card.idle, Fresh(job', "read", b, << >>, ReadOne(b))
      PROVE  Working(job', card)
  BY <1>1, <1>2, ReadOneIs, ReadBegins DEF Working
<1> QED
  BY <1>1, <1>2, BeginStep

LEMMA BeginsReadMany ==
  ASSUME IInv, BeginReadMany PROVE IInv' /\ Outcome(job, job', card, card')
<1>1. PICK b \in Blocks, n \in 0 .. MaxBlocks, cut \in 0 .. BlockSize + 2 :
        up /\ b + n <= NumBlocks /\ Begin("read", b, << >>, ReadMany(b, n, cut))
  BY DEF BeginReadMany
<1>2. n \in Nat
  BY SdAssumption
<1>3. ASSUME Free(card), up => ~card.idle,
             Fresh(job', "read", b, << >>, ReadMany(b, n, cut))
      PROVE  Working(job', card)
  <2>1. ReadParts(job', n, TRUE)
    BY <1>1, <1>2, <1>3, ReadManyIs
  <2> QED
    BY <1>1, <1>3, <2>1, ReadBegins DEF Working
<1> QED
  BY <1>1, <1>3, BeginStep

LEMMA BeginsWrite ==
  ASSUME IInv, BeginWrite PROVE IInv' /\ Outcome(job, job', card, card')
<1>1. PICK b \in Blocks, d \in Data : up /\ Begin("write", b, <<d>>, WriteOne(b, d))
  BY DEF BeginWrite
<1>2. ASSUME Free(card), up => ~card.idle, Fresh(job', "write", b, <<d>>, WriteOne(b, d))
      PROVE  Working(job', card)
  <2>1. WriteParts(job', 1, FALSE)
    BY <1>2, WriteOneIs
  <2> QED
    BY <1>1, <1>2, <2>1, WriteStarts DEF Working
<1> QED
  BY <1>1, <1>2, BeginStep

LEMMA BeginsWriteMany ==
  ASSUME IInv, BeginWriteMany PROVE IInv' /\ Outcome(job, job', card, card')
<1>1. up
  BY DEF BeginWriteMany
<1>2. PICK b \in Blocks, n \in 1 .. MaxBlocks :
        \E ds \in [1 .. n -> Data] :
          b + n <= NumBlocks /\ Begin("write", b, ds, WriteMany(b, ds))
  BY DEF BeginWriteMany
<1>3. PICK ds \in [1 .. n -> Data] :
        b + n <= NumBlocks /\ Begin("write", b, ds, WriteMany(b, ds))
  BY <1>2
<1>4. n \in Nat \ {0}
  BY SdAssumption
<1>5. ASSUME Free(card), up => ~card.idle, Fresh(job', "write", b, ds, WriteMany(b, ds))
      PROVE  Working(job', card)
  <2>1. WriteParts(job', n, TRUE)
    BY <1>3, <1>4, <1>5, WriteManyIs
  <2> QED
    BY <1>1, <1>5, <2>1, WriteStarts DEF Working
<1> QED
  BY <1>1, <1>3, <1>5, BeginStep

LEMMA BootWriteStep ==
  ASSUME IInv, BootWrite PROVE IInv' /\ card' = card /\ job' = job
BY DEF BootWrite, IInv, RepliesAreForThis

LEMMA SameJob ==
  ASSUME IInv, card' = card, job' = job
  PROVE  Outcome(job, job', card, card')
<1>1. job.op # "write" \/ job # NoJob
  BY NoJobIs
<1> QED
  BY <1>1, NothingWritten

LEMMA NextKeepsIInv ==
  ASSUME IInv, [Next]_vars
  PROVE  IInv' /\ [Outcome(job, job', card, card')]_vars
<1>1. CASE UNCHANGED vars
  BY <1>1 DEF vars, IInv, RepliesAreForThis
<1>2. CASE BootWrite
  BY <1>2, BootWriteStep, SameJob
<1>3. CASE SendByte
  BY <1>3, SendByteStep
<1>4. CASE AwaitReply
  BY <1>4, AwaitReplyStep
<1>5. CASE AwaitByte
  BY <1>5, AwaitByteStep
<1>6. CASE CollectByte
  BY <1>6, CollectByteStep
<1>7. CASE SkipByte
  BY <1>7, SkipByteStep
<1>8. CASE IdleClock
  BY <1>8, IdleClockStep
<1>9. CASE BeginInitialise
  BY <1>9, BeginsInitialise
<1>10. CASE BeginRegister
  BY <1>10, BeginsRegister
<1>11. CASE BeginRead
  BY <1>11, BeginsRead
<1>12. CASE BeginReadMany
  BY <1>12, BeginsReadMany
<1>13. CASE BeginWrite
  BY <1>13, BeginsWrite
<1>14. CASE BeginWriteMany
  BY <1>14, BeginsWriteMany
<1> QED
  BY <1>1, <1>2, <1>3, <1>4, <1>5, <1>6, <1>7, <1>8, <1>9, <1>10, <1>11, <1>12,
     <1>13, <1>14 DEF Next, Firmware

LEMMA IInvReads == IInv => ReadsTheBlocks
<1> SUFFICES ASSUME IInv
             PROVE  ReadsTheBlocks
  OBVIOUS
<1>1. CASE job = NoJob
  BY <1>1, NoJobIs DEF ReadsTheBlocks
<1>2. CASE Working(job, card)
  <2>1. job.op \in {"initialise", "register", "read", "write"}
    BY <1>2, WorkingIs
  <2>2. CASE job.op = "register"
    <3>1. IsRegister(job, card)
      BY <1>2, <2>2, WorkingIs
    <3>2. RegisterAsked(job, card) \/ RegisterComing(job, card)
      BY <3>1 DEF IsRegister
    <3>3. \A i \in 1 .. Len(job.got) : job.got[i] = Register[i]
      BY <3>2 DEF RegisterAsked, RegisterComing
    <3> QED
      BY <2>2, <3>3 DEF ReadsTheBlocks
  <2>3. CASE job.op = "read"
    <3>1. IsRead(job, card)
      BY <1>2, <2>3, WorkingIs
    <3>2. GotIs(job, card)
      BY <3>1 DEF IsRead, IsReadOf
    <3> QED
      BY <2>3, <3>2 DEF ReadsTheBlocks, GotIs, Start
  <2>4. CASE job.op \in {"initialise", "write"}
    BY <2>4 DEF ReadsTheBlocks
  <2> QED
    BY <2>1, <2>2, <2>3, <2>4
<1> QED
  BY <1>1, <1>2 DEF IInv

-----------------------------------------------------------------------------
(* The invariant holds of every behaviour (BootSerial.cpp: SDCard and what *)
(* the firmware sends it). *)
THEOREM Invariant == Spec => []IInv
<1>1. Init => IInv
  BY InitIInv
<1>2. IInv /\ [Next]_vars => IInv'
  BY NextKeepsIInv
<1> QED
  BY <1>1, <1>2, PTL DEF Spec

(* Whatever answers a command is that command's own answer                 *)
(* (BootSerial.cpp: SDCard::executeCommand and the queue that read()       *)
(* takes from), for blocks, files and registers of every size.             *)
THEOREM RepliesOfThis == Spec => []RepliesAreForThis
<1>1. IInv => RepliesAreForThis
  BY DEF IInv
<1> QED
  BY <1>1, Invariant, PTL

(* Every byte collected is the byte of the file, or of the register, at    *)
(* its place (BootSerial.cpp: SDCard::sendBlock), also when a multiple     *)
(* read is stopped in the middle of a block. *)
THEOREM ReadsAreOfTheFile == Spec => []ReadsTheBlocks
<1>1. IInv => ReadsTheBlocks
  BY IInvReads
<1> QED
  BY <1>1, Invariant, PTL

(* A step changes the file only in a block of the write that is going on,  *)
(* to what was sent for it, and a write that ends has written them all     *)
(* (BootSerial.cpp: SDCard::write). *)
THEOREM WritesAreWhole == Spec => WritesTheBlocks
<1>1. IInv /\ [Next]_vars => [Outcome(job, job', card, card')]_vars
  BY NextKeepsIInv
<1> QED
  BY <1>1, Invariant, PTL DEF Spec, WritesTheBlocks
=============================================================================
