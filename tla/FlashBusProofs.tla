--------------------------- MODULE FlashBusProofs ---------------------------
(***************************************************************************)
(* The flash chips of a cartridge, for every page size a command can       *)
(* address, every number of pages and chips, and every length of the       *)
(* operations: what a chip answers, what it programs, and that the chips   *)
(* are page stores.                                                        *)
(***************************************************************************)
EXTENDS FlashBus, SequenceTheorems, WellFoundedInduction, TLAPS

(* A set of numbers that is not empty has a least element: being less is
   well-founded. *)
LEMMA LeastNumber ==
  ASSUME NEW S \in SUBSET Nat, S # {}
  PROVE  \E m \in S : \A k \in S : m <= k
<1> DEFINE Below == {p \in Nat \X Nat : p[1] < p[2]}
<1>1. IsWellFoundedOn(Below, Nat)
  BY NatLessThanWellFounded, Zenon DEF OpToRel
<1>2. \A k, m \in Nat : k < m => <<k, m>> \in Below
  OBVIOUS
<1> HIDE DEF Below
<1>3. \E m \in S : \A k \in S : <<k, m>> \notin Below
  BY <1>1, WFMin
<1>4. \A k, m \in S : <<k, m>> \notin Below => m <= k
  <2>1. \A k, m \in S : k \in Nat /\ m \in Nat
    OBVIOUS
  <2>2. \A k, m \in Nat : ~(k < m) => m <= k
    OBVIOUS
  <2> QED
    BY <1>2, <2>1, <2>2, Zenon
<1> QED
  BY <1>3, <1>4

(* A bounded one has a greatest.                                           *)
LEMMA GreatestNumber ==
  ASSUME NEW n \in Nat, NEW S \in SUBSET (0 .. n), S # {}
  PROVE  \E m \in S : \A k \in S : k <= m
<1> DEFINE T == {n - k : k \in S}
<1>1. PICK t \in T : \A u \in T : t <= u
  <2>1. \A k \in S : n - k \in Nat
    OBVIOUS
  <2>2. T \in SUBSET Nat
    BY <2>1
  <2>3. T # {}
    OBVIOUS
  <2> HIDE DEF T
  <2> QED
    BY <2>2, <2>3, LeastNumber
<1>2. PICK m \in S : t = n - m
  OBVIOUS
<1>3. \A k \in S : n - m <= n - k
  BY <1>1, <1>2
<1> QED
  BY <1>3

-----------------------------------------------------------------------------
(* Addresses.  A page's bytes are those of the memory from its start on,   *)
(* and no two pages share one. *)

LEMMA StartsApart ==
  ASSUME NEW p \in Nat, NEW q \in Nat, p < q
  PROVE  p * PageSize + PageSize <= q * PageSize
<1>1. PageSize \in Nat
  BY FlashAssumption
<1>2. PICK d \in Nat : q = p + 1 + d
  <2>1. q - p - 1 \in Nat /\ q = p + 1 + (q - p - 1)
    OBVIOUS
  <2> QED
    BY <2>1
<1>3. q * PageSize = p * PageSize + PageSize + d * PageSize
  BY <1>1, <1>2
<1>4. d * PageSize \in Nat /\ p * PageSize \in Nat
  BY <1>1
<1> QED
  BY <1>1, <1>3, <1>4

LEMMA InPage ==
  ASSUME NEW p \in Pages, NEW i \in Offsets
  PROVE  p * PageSize + i \in Addresses
<1>1. PageSize \in Nat /\ NumPages \in Nat /\ p \in Nat /\ p < NumPages
  BY FlashAssumption DEF Pages
<1>2. p * PageSize + PageSize <= NumPages * PageSize
  BY <1>1, StartsApart
<1>3. p * PageSize \in Nat
  BY <1>1
<1>4. NumPages * PageSize = TotalBytes /\ TotalBytes \in Nat
  BY <1>1 DEF TotalBytes
<1> QED
  BY <1>1, <1>2, <1>3, <1>4 DEF Addresses, Offsets

LEMMA OnePage ==
  ASSUME NEW p \in Pages, NEW q \in Pages, NEW i \in Offsets
  PROVE  (p * PageSize + i) - q * PageSize \in Offsets <=> p = q
<1>1. PageSize \in Nat /\ p \in Nat /\ q \in Nat
  BY FlashAssumption DEF Pages
<1>2. p * PageSize \in Nat /\ q * PageSize \in Nat
  BY <1>1
<1>3. CASE p = q
  BY <1>2, <1>3 DEF Offsets
<1>4. CASE p < q
  <2>1. p * PageSize + PageSize <= q * PageSize
    BY <1>1, <1>4, StartsApart
  <2> QED
    BY <1>1, <1>2, <1>4, <2>1 DEF Offsets
<1>5. CASE q < p
  <2>1. q * PageSize + PageSize <= p * PageSize
    BY <1>1, <1>5, StartsApart
  <2> QED
    BY <1>1, <1>2, <1>5, <2>1 DEF Offsets
<1> QED
  BY <1>1, <1>3, <1>4, <1>5

LEMMA PlaceInPage ==
  ASSUME NEW p \in Nat, NEW i \in Offsets
  PROVE  (p * PageSize + i) % PageSize = i
<1>1. PageSize \in Nat \ {0} /\ i \in Nat /\ i < PageSize
  BY FlashAssumption DEF Offsets
<1>2. p * PageSize \in Nat
  BY <1>1
<1> DEFINE a == p * PageSize + i
<1>3. a \in Nat
  BY <1>1, <1>2
<1>4. /\ a = PageSize * (a \div PageSize) + (a % PageSize)
      /\ a % PageSize \in 0 .. PageSize - 1
      /\ a \div PageSize \in Int
  BY <1>1, <1>3
<1>5. a \div PageSize = p
  <2> DEFINE q == a \div PageSize
  <2>1. q * PageSize = PageSize * q
    BY <1>1, <1>4
  <2>2. CASE q < p
    <3>1. q \in Nat
      BY <1>1, <1>3
    <3>2. q * PageSize + PageSize <= p * PageSize
      BY <1>1, <2>2, <3>1, StartsApart
    <3> QED
      BY <1>1, <1>2, <1>4, <2>1, <3>2
  <2>3. CASE p < q
    <3>1. q \in Nat
      BY <1>1, <1>3
    <3>2. p * PageSize + PageSize <= q * PageSize
      BY <1>1, <2>3, <3>1, StartsApart
    <3> QED
      BY <1>1, <1>2, <1>4, <2>1, <3>2
  <2> QED
    BY <1>1, <1>4, <2>2, <2>3
<1> QED
  BY <1>1, <1>2, <1>4, <1>5

(* The chip finds the address the firmware put into the command.           *)
LEMMA AddressCarried ==
  ASSUME NEW p \in Pages, NEW i \in Offsets, NEW buf,
         buf[1] = p \div 128, buf[2] = (p % 128) * 2 + (i \div 256),
         buf[3] = i % 256
  PROVE  AddressOf(buf) = p * PageSize + i
<1>1. p \in Nat /\ i \in Nat /\ i < 512 /\ PageSize \in Nat
  BY FlashAssumption DEF Pages, Offsets
<1>2. /\ buf[2] \div 2 = p % 128
      /\ buf[2] % 2 = i \div 256
  BY <1>1
<1>3. buf[2] \div 2 + buf[1] * 128 = p
  BY <1>1, <1>2
<1>4. buf[3] + (buf[2] % 2) * 256 = i
  BY <1>1, <1>2
<1>5. p * PageSize \in Nat
  BY <1>1
<1> QED
  BY <1>1, <1>2, <1>3, <1>4, <1>5 DEF AddressOf

-----------------------------------------------------------------------------
(* One chip.  Between two transfers it has been read from since it was     *)
(* last written to, and does not wait. *)

Fields == {"cs", "didWrite", "wait", "outputStatus", "opCode", "buf", "len",
           "readAddr", "readOff", "writeAddr", "writeOff", "writeBuf"}

Settled(f) == DOMAIN f = Fields /\ f.didWrite = FALSE /\ f.wait = FALSE

NoCommand(f) == f.opCode = 0 /\ f.buf = << >> /\ f.len = 0

NoOperation(f) == ~f.outputStatus /\ f.readAddr = None /\ f.writeAddr = None

SameBuffer(f, g) == f.writeBuf = g.writeBuf /\ f.writeOff = g.writeOff

(* What a transfer leaves of a selected chip that is read from.            *)
Exchanged(f, val) == Read(Write(f, val))

(* A byte that is no argument and no data is an opcode.                    *)
LEMMA GetsOpcode ==
  ASSUME NEW f, Settled(f), ~f.cs, NoCommand(f), NoOperation(f),
         NEW op \in DOMAIN Opcodes,
         NEW g, g = Exchanged(f, Opcodes[op])
  PROVE  /\ Settled(g) /\ ~g.cs /\ SameBuffer(f, g) /\ g.readOff = f.readOff
         /\ op = "status" =>
              /\ NoCommand(g) /\ g.outputStatus
              /\ g.readAddr = None /\ g.writeAddr = None
         /\ op # "status" =>
              /\ NoOperation(g)
              /\ g.opCode = Opcodes[op] /\ g.buf = << >>
              /\ g.len = IF op = "read" THEN 7 ELSE 3
<1> DEFINE d == [f EXCEPT !.didWrite = TRUE]
<1>1. op \in {"read", "status", "compare", "program"}
  BY DEF Opcodes
<1>2. Write(f, Opcodes[op]) = Opcode(d, Opcodes[op])
  BY DEF Write, NoCommand, NoOperation
<1>3. CASE op = "status"
  <2>1. Opcodes[op] = StatusRead
    BY <1>3 DEF Opcodes
  <2>2. Opcode(d, Opcodes[op]) = [[d EXCEPT !.buf = << >>] EXCEPT !.outputStatus = TRUE]
    BY <2>1 DEF Opcode
  <2>3. g = [[[d EXCEPT !.buf = << >>] EXCEPT !.outputStatus = TRUE] EXCEPT !.didWrite = FALSE]
    BY <1>2, <2>2 DEF Exchanged, Read, Settled, Fields
  <2> QED
    BY <1>3, <2>3 DEF Settled, Fields, NoCommand, NoOperation, SameBuffer
<1>4. CASE op # "status"
  <2>1. /\ Opcodes[op] \in DOMAIN Arguments
        /\ Opcodes[op] # StatusRead
        /\ Arguments[Opcodes[op]] = IF op = "read" THEN 7 ELSE 3
    BY <1>1, <1>4 DEF Opcodes, Arguments, MemoryRead, MemoryWrite, Compare, StatusRead
  <2>2. Opcode(d, Opcodes[op]) =
          [[d EXCEPT !.buf = << >>] EXCEPT !.opCode = Opcodes[op],
                                           !.len = Arguments[Opcodes[op]]]
    BY <2>1 DEF Opcode
  <2> DEFINE w == [[d EXCEPT !.buf = << >>] EXCEPT !.opCode = Opcodes[op],
                                           !.len = Arguments[Opcodes[op]]]
  <2>3. ~w.outputStatus /\ w.wait = FALSE /\ w.readAddr = None
    BY DEF Settled, Fields, NoOperation
  <2>4. g = [w EXCEPT !.didWrite = FALSE]
    BY <1>2, <2>2, <2>3 DEF Exchanged, Read
  <2> QED
    BY <1>4, <2>1, <2>4 DEF Settled, Fields, NoCommand, NoOperation, SameBuffer
<1> QED
  BY <1>3, <1>4

(* The arguments of a command are collected, all but the last.             *)
LEMMA GetsArgument ==
  ASSUME NEW f, Settled(f), ~f.cs, NoOperation(f), f.len # 0,
         f.buf \in Seq(Nat), NEW val \in Nat, Len(f.buf) + 1 # f.len,
         NEW g, g = Exchanged(f, val)
  PROVE  /\ Settled(g) /\ ~g.cs /\ SameBuffer(f, g) /\ g.readOff = f.readOff
         /\ NoOperation(g)
         /\ g.opCode = f.opCode /\ g.len = f.len /\ g.buf = Append(f.buf, val)
<1> DEFINE d == [f EXCEPT !.didWrite = TRUE]
           w == [d EXCEPT !.buf = Append(@, val)]
<1>1. Write(f, val) = Argument(d, val)
  BY DEF Write, NoOperation
<1>2. /\ w.buf = Append(f.buf, val) /\ w.len = f.len
      /\ Len(Append(f.buf, val)) = Len(f.buf) + 1
  BY DEF Settled, Fields
<1>3. Argument(d, val) = w
  BY <1>2 DEF Argument
<1>4. ~w.outputStatus /\ w.wait = FALSE /\ w.readAddr = None
  BY DEF Settled, Fields, NoOperation
<1>5. g = [w EXCEPT !.didWrite = FALSE]
  BY <1>1, <1>3, <1>4 DEF Exchanged, Read
<1> QED
  BY <1>2, <1>5 DEF Settled, Fields, NoOperation, SameBuffer

(* With the last one the operation begins, from the start of the buffer.   *)
LEMMA GetsLastArgument ==
  ASSUME NEW f, Settled(f), ~f.cs, NoOperation(f), f.len # 0,
         f.buf \in Seq(Nat), NEW val \in Nat, Len(f.buf) + 1 = f.len,
         NEW g, g = Exchanged(f, val),
         NEW a, a = AddressOf(Append(f.buf, val))
  PROVE  /\ Settled(g) /\ ~g.cs /\ NoCommand(g) /\ ~g.outputStatus
         /\ g.writeBuf = f.writeBuf
         /\ f.opCode = MemoryRead =>
              /\ g.readAddr = a /\ g.readOff = 0
              /\ g.writeAddr = None /\ g.writeOff = f.writeOff
         /\ f.opCode = MemoryWrite =>
              /\ g.writeAddr = a /\ g.writeOff = 0
              /\ g.readAddr = None /\ g.readOff = f.readOff
         /\ f.opCode \notin {MemoryRead, MemoryWrite} =>
              NoOperation(g) /\ g.writeOff = f.writeOff /\ g.readOff = f.readOff
<1> DEFINE d == [f EXCEPT !.didWrite = TRUE]
           w == [d EXCEPT !.buf = Append(@, val)]
<1>1. Write(f, val) = Argument(d, val)
  BY DEF Write, NoOperation
<1>2. /\ w.buf = Append(f.buf, val) /\ w.len = f.len /\ w.opCode = f.opCode
      /\ Len(Append(f.buf, val)) = Len(f.buf) + 1
  BY DEF Settled, Fields
<1>3. Argument(d, val) = Begun(w)
  BY <1>2 DEF Argument
<1>4. CASE f.opCode = MemoryRead
  <2> DEFINE b == [w EXCEPT !.readAddr = a, !.readOff = 0, !.wait = TRUE]
             e == [b EXCEPT !.len = 0, !.opCode = 0, !.buf = << >>]
  <2>1. Begun(w) = e
    <3>1. BegunReading(w) = b
      BY <1>2 DEF BegunReading
    <3>2. w.opCode = MemoryRead
      BY <1>2, <1>4
    <3> HIDE DEF w, b
    <3> QED
      BY <3>1, <3>2 DEF Begun, MemoryRead, MemoryWrite
  <2>2. /\ DOMAIN b = Fields /\ b.wait /\ ~b.cs /\ ~b.outputStatus
        /\ b.readAddr = a /\ b.readOff = 0 /\ b.writeAddr = None
        /\ b.writeOff = f.writeOff /\ b.writeBuf = f.writeBuf
    BY DEF Settled, Fields, NoOperation
  <2> HIDE DEF b
  <2>3. g = [[e EXCEPT !.didWrite = FALSE] EXCEPT !.wait = FALSE]
    <3>1. ~e.outputStatus /\ e.wait
      BY <2>2 DEF Fields
    <3> QED
      BY <1>1, <1>3, <2>1, <3>1 DEF Exchanged, Read
  <2> QED
    BY <1>4, <2>2, <2>3 DEF Settled, Fields, NoCommand, MemoryRead, MemoryWrite
<1>5. CASE f.opCode = MemoryWrite
  <2> DEFINE b == [w EXCEPT !.writeAddr = a, !.writeOff = 0]
             e == [b EXCEPT !.len = 0, !.opCode = 0, !.buf = << >>]
  <2>1. Begun(w) = e
    BY <1>2, <1>5 DEF Begun, BegunWriting, MemoryRead, MemoryWrite
  <2>2. ~e.outputStatus /\ e.wait = FALSE /\ e.readAddr = None
    BY DEF Settled, Fields, NoOperation
  <2>3. g = [e EXCEPT !.didWrite = FALSE]
    BY <1>1, <1>3, <2>1, <2>2 DEF Exchanged, Read
  <2> QED
    BY <1>5, <2>3 DEF Settled, Fields, NoOperation, NoCommand, MemoryRead, MemoryWrite
<1>6. CASE f.opCode \notin {MemoryRead, MemoryWrite}
  <2> DEFINE e == [w EXCEPT !.len = 0, !.opCode = 0, !.buf = << >>]
  <2>1. Begun(w) = e
    BY <1>2, <1>6 DEF Begun
  <2>2. ~e.outputStatus /\ e.wait = FALSE /\ e.readAddr = None
    BY DEF Settled, Fields, NoOperation
  <2>3. g = [e EXCEPT !.didWrite = FALSE]
    BY <1>1, <1>3, <2>1, <2>2 DEF Exchanged, Read
  <2> QED
    BY <1>6, <2>3 DEF Settled, Fields, NoOperation, NoCommand
<1> QED
  BY <1>4, <1>5, <1>6

(* A byte of what is to be programmed goes into the buffer.                *)
LEMMA GetsData ==
  ASSUME NEW f, Settled(f), ~f.cs, NoCommand(f), ~f.outputStatus,
         f.readAddr = None, f.writeAddr # None,
         NEW val, NEW g, g = Exchanged(f, val)
  PROVE  /\ Settled(g) /\ ~g.cs /\ NoCommand(g) /\ ~g.outputStatus
         /\ g.readAddr = None /\ g.readOff = f.readOff
         /\ g.writeAddr = f.writeAddr
         /\ g.writeOff = (f.writeOff + 1) % PageSize
         /\ g.writeBuf = [f.writeBuf EXCEPT ![f.writeOff] = val]
<1> DEFINE d == [f EXCEPT !.didWrite = TRUE]
           w == [d EXCEPT !.writeBuf[f.writeOff] = val,
                          !.writeOff = (@ + 1) % PageSize]
<1>1. Write(f, val) = Buffered(d, val)
  BY DEF Write
<1>2. d.writeOff = f.writeOff
  BY DEF Settled, Fields
<1>3. Buffered(d, val) = w
  BY <1>2 DEF Buffered
<1>4. ~w.outputStatus /\ w.wait = FALSE /\ w.readAddr = None
  BY DEF Settled, Fields
<1>5. g = [w EXCEPT !.didWrite = FALSE]
  BY <1>1, <1>3, <1>4 DEF Exchanged, Read
<1> QED
  BY <1>5 DEF Settled, Fields, NoCommand

(* A chip that answers is not disturbed by what it is sent.                *)
LEMMA Answers ==
  ASSUME NEW f, Settled(f), ~f.cs, NoCommand(f), f.writeAddr = None,
         f.outputStatus \/ f.readAddr # None,
         NEW val, NEW g, g = Exchanged(f, val), NEW m
  PROVE  /\ Settled(g) /\ ~g.cs /\ NoCommand(g) /\ SameBuffer(f, g)
         /\ g.writeAddr = None /\ g.readAddr = f.readAddr
         /\ g.outputStatus = f.outputStatus
         /\ g.readOff = IF f.outputStatus THEN f.readOff
                        ELSE (f.readOff + 1) % PageSize
         /\ Answer(Write(f, val), m) =
              IF f.outputStatus THEN Ready
              ELSE Stored(m, f.readAddr + f.readOff)
<1> DEFINE d == [f EXCEPT !.didWrite = TRUE]
<1>1. Write(f, val) = d
  BY DEF Write
<1>2. /\ d.outputStatus = f.outputStatus /\ d.wait = FALSE
      /\ d.readAddr = f.readAddr /\ d.readOff = f.readOff
  BY DEF Settled, Fields
<1>3. Answer(d, m) = IF f.outputStatus THEN Ready
                     ELSE Stored(m, f.readAddr + f.readOff)
  BY <1>2 DEF Answer
<1>4. CASE f.outputStatus
  <2>1. g = [d EXCEPT !.didWrite = FALSE]
    BY <1>1, <1>2, <1>4 DEF Exchanged, Read
  <2> QED
    BY <1>1, <1>3, <1>4, <2>1 DEF Settled, Fields, NoCommand, SameBuffer
<1>5. CASE ~f.outputStatus
  <2>1. g = [[d EXCEPT !.didWrite = FALSE] EXCEPT !.readOff = (@ + 1) % PageSize]
    BY <1>1, <1>2, <1>5 DEF Exchanged, Read
  <2> QED
    BY <1>1, <1>3, <1>5, <2>1 DEF Settled, Fields, NoCommand, SameBuffer
<1> QED
  BY <1>4, <1>5

(* A selected chip that was written to is read from, and one that is not   *)
(* selected takes no part. *)
LEMMA Listens ==
  ASSUME NEW f, Settled(f), NEW val
  PROVE  /\ f.cs => Write(f, val) = f
         /\ ~f.cs => canRead(Write(f, val))
<1>1. CASE f.cs
  BY <1>1 DEF Write
<1>2. CASE ~f.cs
  <2> DEFINE d == [f EXCEPT !.didWrite = TRUE]
  <2>1. \A x : [d EXCEPT !.buf = x].didWrite = TRUE
    BY DEF Settled, Fields
  <2>2. d.didWrite = TRUE
    BY DEF Settled, Fields
  <2>3. Buffered(d, val).didWrite = TRUE
    BY DEF Settled, Fields, Buffered
  <2>4. Opcode(d, val).didWrite = TRUE
    BY DEF Settled, Fields, Opcode
  <2>5. Argument(d, val).didWrite = TRUE
    BY DEF Settled, Fields, Argument, Begun, BegunReading, BegunWriting
  <2> QED
    BY <1>2, <2>2, <2>3, <2>4, <2>5 DEF Write, canRead
<1> QED
  BY <1>1, <1>2

-----------------------------------------------------------------------------
(* The bytes sent to be programmed. *)

LEMMA Advance ==
  ASSUME NEW i \in Offsets
  PROVE  /\ (i + 1) % PageSize \in Offsets
         /\ i + 1 < PageSize => (i + 1) % PageSize = i + 1
<1>1. PageSize \in Nat /\ PageSize > 0 /\ i \in Nat /\ i < PageSize
  BY FlashAssumption DEF Offsets
<1>2. CASE i + 1 = PageSize
  BY <1>1, <1>2 DEF Offsets
<1>3. CASE i + 1 < PageSize
  BY <1>1, <1>3 DEF Offsets
<1> QED
  BY <1>1, <1>2, <1>3

(* Counting the bytes round the buffer is advancing the offset.            *)
LEMMA AdvanceCounts ==
  ASSUME NEW n \in Nat
  PROVE  /\ n % PageSize \in Offsets
         /\ (n + 1) % PageSize = ((n % PageSize) + 1) % PageSize
<1>1. PageSize \in Nat \ {0}
  BY FlashAssumption
<1> DEFINE q == n \div PageSize
           r == n % PageSize
<1>2. n = PageSize * q + r /\ r \in 0 .. PageSize - 1 /\ q \in Nat
  BY <1>1
<1>3. CASE r + 1 < PageSize
  <2>1. n + 1 = q * PageSize + (r + 1)
    BY <1>1, <1>2
  <2>2. (n + 1) % PageSize = r + 1
    <3>1. r + 1 \in Offsets
      BY <1>1, <1>2, <1>3 DEF Offsets
    <3> HIDE DEF q, r
    <3> QED
      BY <1>2, <2>1, <3>1, PlaceInPage
  <2>3. (r + 1) % PageSize = r + 1
    BY <1>1, <1>2, <1>3
  <2> QED
    BY <1>1, <1>2, <2>2, <2>3 DEF Offsets
<1>4. CASE r + 1 = PageSize
  <2>1. n + 1 = (q + 1) * PageSize + 0
    BY <1>1, <1>2, <1>4
  <2>2. (n + 1) % PageSize = 0
    <3>1. q + 1 \in Nat /\ 0 \in Offsets
      BY <1>1, <1>2 DEF Offsets
    <3> HIDE DEF q
    <3> QED
      BY <2>1, <3>1, PlaceInPage
  <2>3. (r + 1) % PageSize = 0
    BY <1>1, <1>4
  <2> QED
    BY <1>1, <1>2, <2>2, <2>3 DEF Offsets
<1> QED
  BY <1>1, <1>2, <1>3, <1>4

LEMMA OverlaidNothing ==
  ASSUME NEW page \in [Offsets -> Byte]
  PROVE  Overlaid(page, << >>) = page
<1>1. \A i \in Offsets : {k \in 1 .. Len(<< >>) : (k - 1) % PageSize = i} = {}
  OBVIOUS
<1> QED
  BY <1>1 DEF Overlaid

(* One more byte goes where the count of those before it says.             *)
LEMMA OverlaidMore ==
  ASSUME NEW page, NEW data \in Seq(Nat), NEW b \in Nat
  PROVE  Overlaid(page, Append(data, b)) =
           [Overlaid(page, data) EXCEPT ![Len(data) % PageSize] = b]
<1> DEFINE n == Len(data)
           more == Append(data, b)
           Here(i, top) == {k \in 1 .. top : (k - 1) % PageSize = i}
           At(i) == IF Here(i, n) = {} THEN page[i] ELSE data[Max(Here(i, n))]
           Then(i) == IF Here(i, n + 1) = {} THEN page[i]
                      ELSE more[Max(Here(i, n + 1))]
<1>1. /\ n \in Nat /\ more \in Seq(Nat) /\ Len(more) = n + 1
      /\ more[n + 1] = b
      /\ \A k \in 1 .. n : more[k] = data[k]
  OBVIOUS
<1>2. /\ Overlaid(page, data) = [i \in Offsets |-> At(i)]
      /\ Overlaid(page, more) = [i \in Offsets |-> Then(i)]
  BY <1>1 DEF Overlaid
<1>3. Then(n % PageSize) = b
  <2>1. n + 1 \in Here(n % PageSize, n + 1)
    BY <1>1
  <2>2. \A k \in Here(n % PageSize, n + 1) : n + 1 >= k
    BY <1>1
  <2>3. Here(n % PageSize, n + 1) \subseteq Int
    BY <1>1
  <2>4. Max(Here(n % PageSize, n + 1)) = n + 1
    BY <1>1, <2>1, <2>2, <2>3 DEF Max
  <2> QED
    BY <1>1, <2>1, <2>4
<1>4. ASSUME NEW i \in Offsets, i # n % PageSize
      PROVE  Then(i) = At(i)
  <2>1. Here(i, n + 1) = Here(i, n)
    BY <1>1, <1>4
  <2>2. CASE Here(i, n) = {}
    BY <2>1, <2>2
  <2>3. CASE Here(i, n) # {}
    <3>1. Here(i, n) \in SUBSET (0 .. n)
      BY <1>1
    <3>2. PICK m \in Here(i, n) : \A k \in Here(i, n) : k <= m
      <4> HIDE DEF Here
      <4> QED
        BY <1>1, <2>3, <3>1, GreatestNumber
    <3>3. Max(Here(i, n)) \in Here(i, n)
      BY <3>1, <3>2 DEF Max
    <3> QED
      BY <1>1, <2>1, <2>3, <3>1, <3>3
  <2> QED
    BY <2>2, <2>3
<1> HIDE DEF At, Then
<1>5. PICK o \in Offsets : o = n % PageSize
  BY <1>1, AdvanceCounts
<1>6. [i \in Offsets |-> Then(i)] = [[i \in Offsets |-> At(i)] EXCEPT ![o] = b]
  BY <1>3, <1>4, <1>5
<1> QED
  BY <1>1, <1>2, <1>5, <1>6

-----------------------------------------------------------------------------
(* The inductive invariant. *)

JobFields == {"op", "chip", "page", "off", "command", "sent", "got", "before"}

(* Every chip between two transfers, and the memories.                     *)
Shapes ==
  /\ flash = [c \in Names |-> flash[c]]
  /\ mem \in [Names -> [Addresses -> Byte]]
  /\ \A c \in Names :
       /\ Settled(flash[c])
       /\ flash[c].writeBuf \in [Offsets -> Byte]
       /\ flash[c].writeOff \in Offsets /\ flash[c].readOff \in Offsets

JobOK ==
  job # NoJob =>
    /\ DOMAIN job = JobFields
    /\ job.op \in DOMAIN Opcodes /\ job.chip \in Names
    /\ job.page \in Pages /\ job.off \in Offsets
    /\ job.command = Command(job.op, job.page, job.off)
    /\ job.sent \in Seq(Nat) /\ job.got \in Seq(Nat)
    /\ Len(job.got) = Len(job.sent)
    /\ job.before \in [Offsets -> Byte]

(* A chip the firmware does not use is not selected, and knows no command. *)
Resting ==
  \A c \in Names : job = NoJob \/ c # job.chip =>
    flash[c].cs /\ NoCommand(flash[c]) /\ NoOperation(flash[c])

(* What the chip the firmware uses has been told: a part of the command,   *)
Told ==
  job # NoJob /\ Commanding =>
    LET f == flash[job.chip]
        n == Len(job.sent)
    IN  /\ ~f.cs /\ NoOperation(f) /\ f.writeBuf = job.before
        /\ n = 0 => NoCommand(f)
        /\ n > 0 => /\ f.opCode = Opcodes[job.op]
                    /\ f.len = Len(job.command) - 1
                    /\ f.buf \in Seq(Nat) /\ Len(f.buf) = n - 1
                    /\ \A i \in 1 .. n - 1 : f.buf[i] = job.command[i + 1]

(* or all of it, and then it is where the bytes since then have brought it.*)
Operating ==
  job # NoJob /\ ~Commanding =>
    LET f == flash[job.chip]
        address == job.page * PageSize + job.off
        n == Len(DataSent)
    IN  /\ ~f.cs /\ NoCommand(f)
        /\ f.outputStatus <=> job.op = "status"
        /\ f.readAddr = IF job.op = "read" THEN address ELSE None
        /\ f.writeAddr = IF job.op = "program" THEN address ELSE None
        /\ job.op = "read" /\ n < Limit => f.readOff = n
        /\ job.op = "program" => /\ f.writeOff = n % PageSize
                                 /\ f.writeBuf = Overlaid(job.before, DataSent)

IInv == /\ Shapes /\ JobOK /\ Resting /\ Told /\ Operating
        /\ AnswersFollowCommands

(* A command is its opcode and, but for the status, an address; a read     *)
(* has four bytes more to wait for its answer. *)
CommandIs(c, op, p, o) ==
  /\ c \in Seq(Nat)
  /\ Len(c) = IF op = "status" THEN 1 ELSE IF op = "read" THEN 8 ELSE 4
  /\ c[1] = Opcodes[op]
  /\ op # "status" => /\ c[2] = p \div 128
                      /\ c[3] = (p % 128) * 2 + (o \div 256)
                      /\ c[4] = o % 256

LEMMA CommandBytes ==
  ASSUME NEW op \in DOMAIN Opcodes, NEW p \in Pages, NEW o \in Offsets
  PROVE  CommandIs(Command(op, p, o), op, p, o)
<1> DEFINE c == Command(op, p, o)
<1> DEFINE a == p \div 128
           b == (p % 128) * 2 + (o \div 256)
           d == o % 256
           k == Opcodes[op]
<1>1. a \in Nat /\ b \in Nat /\ d \in Nat
  BY FlashAssumption DEF Pages, Offsets
<1>2. /\ op \in {"read", "status", "compare", "program"}
      /\ k \in Nat
  BY DEF Opcodes, MemoryRead, MemoryWrite, Compare, StatusRead
<1> DEFINE wait == IF op = "read" THEN <<0, 0, 0, 0>> ELSE << >>
           rest == IF op = "status" THEN << >> ELSE <<a, b, d>> \o wait
<1>3. c = <<k>> \o rest
  BY DEF Command
<1> HIDE DEF a, b, d, k, c
<1>4. wait \in Seq(Nat) /\ Len(wait) = IF op = "read" THEN 4 ELSE 0
  OBVIOUS
<1>5. /\ <<a, b, d>> \in Seq(Nat) /\ Len(<<a, b, d>>) = 3
      /\ <<a, b, d>>[1] = a /\ <<a, b, d>>[2] = b /\ <<a, b, d>>[3] = d
      /\ <<k>> \in Seq(Nat) /\ Len(<<k>>) = 1 /\ <<k>>[1] = k
  BY <1>1, <1>2
<1> HIDE DEF wait
<1>6. /\ rest \in Seq(Nat)
      /\ Len(rest) = IF op = "status" THEN 0 ELSE IF op = "read" THEN 7 ELSE 3
      /\ op # "status" => rest[1] = a /\ rest[2] = b /\ rest[3] = d
  <2>1. CASE op = "status"
    BY <2>1
  <2>2. CASE op # "status"
    <3> DEFINE t == <<a, b, d>>
    <3> HIDE DEF t
    <3>1. /\ t \o wait \in Seq(Nat)
          /\ Len(t \o wait) = Len(t) + Len(wait)
          /\ \A i \in 1 .. Len(t) + Len(wait) :
               (t \o wait)[i] = IF i <= Len(t) THEN t[i] ELSE wait[i - Len(t)]
      BY <1>4, <1>5, ConcatProperties DEF t
    <3>2. rest = t \o wait
      BY <2>2 DEF t
    <3>3. Len(t) = 3 /\ t[1] = a /\ t[2] = b /\ t[3] = d
      BY <1>5 DEF t
    <3> HIDE DEF rest
    <3>4. rest \in Seq(Nat) /\ Len(rest) = IF op = "read" THEN 7 ELSE 3
      BY <1>4, <3>1, <3>2, <3>3
    <3>5. \A i \in 1 .. 3 : rest[i] = t[i]
      <4>1. \A i \in 1 .. 3 : i \in 1 .. Len(t) + Len(wait) /\ i <= Len(t)
        BY <1>4, <3>3
      <4> QED
        BY <3>1, <3>2, <4>1
    <3>6. rest[1] = a /\ rest[2] = b /\ rest[3] = d
      BY <3>3, <3>5
    <3> QED
      BY <2>2, <3>4, <3>6
  <2> QED
    BY <2>1, <2>2
<1> DEFINE o1 == <<k>>
<1>7. o1 \in Seq(Nat) /\ Len(o1) = 1 /\ o1[1] = k
  BY <1>5
<1> HIDE DEF o1, rest
<1>8. /\ o1 \o rest \in Seq(Nat)
      /\ Len(o1 \o rest) = Len(o1) + Len(rest)
      /\ \A i \in 1 .. Len(o1) + Len(rest) :
           (o1 \o rest)[i] = IF i <= Len(o1) THEN o1[i] ELSE rest[i - Len(o1)]
  BY <1>6, <1>7, ConcatProperties
<1>9. c = o1 \o rest
  BY <1>3 DEF o1
<1>10. /\ c \in Seq(Nat) /\ Len(c) = 1 + Len(rest) /\ c[1] = k
       /\ \A i \in 2 .. 1 + Len(rest) : c[i] = rest[i - 1]
  <2>1. Len(rest) \in Nat
    BY <1>6
  <2> QED
    BY <1>7, <1>8, <1>9, <2>1
<1>11. op # "status" => c[2] = a /\ c[3] = b /\ c[4] = d
  BY <1>6, <1>10
<1> QED
  BY <1>6, <1>10, <1>11 DEF a, b, d, k, c, CommandIs

-----------------------------------------------------------------------------
(* A transfer reaches the chip the firmware uses, and no other.            *)

LEMMA FirstOfOne ==
  ASSUME NEW c \in Names
  PROVE  First({c}) = c
<1> DEFINE P(i) == Chips[i] \in {c} /\ \A k \in 1 .. i - 1 : Chips[k] \notin {c}
<1>1. PICK i \in DOMAIN Chips : Chips[i] = c
  BY DEF Names, Range
<1>2. \A k \in DOMAIN Chips : Chips[k] = c => k = i
  BY <1>1, BusAssumption DEF IsInjective
<1>3. /\ DOMAIN Chips = 1 .. Len(Chips) /\ Len(Chips) \in Nat
  BY BusAssumption
<1>4. P(i)
  BY <1>1, <1>2, <1>3
<1>5. \A j \in DOMAIN Chips : P(j) => Chips[j] = c
  OBVIOUS
<1>6. \E j \in DOMAIN Chips : P(j)
  BY <1>4
<1>7. First({c}) = Chips[CHOOSE j \in DOMAIN Chips : P(j)]
  BY DEF First
<1> HIDE DEF P
<1> QED
  BY <1>5, <1>6, <1>7

LEMMA OneSelected ==
  ASSUME IInv, job # NoJob
  PROVE  Selected = {job.chip} /\ ~flash[job.chip].cs
<1>1. ~flash[job.chip].cs
  BY DEF IInv, Told, Operating
<1>2. job.chip \in Names
  BY DEF IInv, JobOK
<1>3. \A c \in Names : c # job.chip => flash[c].cs
  BY DEF IInv, Resting
<1> QED
  BY <1>1, <1>2, <1>3 DEF Selected

LEMMA TransferReaches ==
  ASSUME IInv, job # NoJob, NEW val \in Nat, Transfer(val)
  PROVE  /\ flash' = [flash EXCEPT ![job.chip] = Exchanged(flash[job.chip], val)]
         /\ job' = [job EXCEPT
                      !.sent = Append(@, val),
                      !.got = Append(@, Answer(Write(flash[job.chip], val),
                                               mem[job.chip]))]
         /\ mem' = mem
<1> DEFINE c == job.chip
           after == Written(val)
<1>1. /\ Selected = {c} /\ First(Selected) = c /\ c \in Names
      /\ \A x \in Names : Settled(flash[x])
  BY OneSelected, FirstOfOne DEF IInv, JobOK, Shapes
<1>2. /\ after[c] = Write(flash[c], val)
      /\ canRead(after[c])
  BY <1>1, OneSelected, Listens DEF Written
<1>3. after = [flash EXCEPT ![c] = Write(flash[c], val)]
  <2>1. \A x \in Names : x # c => Write(flash[x], val) = flash[x]
    BY <1>1, Listens DEF IInv, Resting
  <2>2. flash = [x \in Names |-> flash[x]]
    BY DEF IInv, Shapes
  <2> QED
    BY <1>1, <2>1, <2>2 DEF Written
<1>4. [after EXCEPT ![c] = Read(@)] = [flash EXCEPT ![c] = Exchanged(flash[c], val)]
  BY <1>1, <1>2, <1>3 DEF Exchanged, IInv, Shapes
<1> QED
  BY <1>1, <1>2, <1>4 DEF Transfer

(* What every transfer does, whatever the byte means to the chip.          *)
Transferred(val, ans) ==
  /\ job' # NoJob /\ DOMAIN job' = JobFields
  /\ job'.op = job.op /\ job'.chip = job.chip /\ job'.page = job.page
  /\ job'.off = job.off /\ job'.command = job.command /\ job'.before = job.before
  /\ job'.sent = Append(job.sent, val) /\ job'.got = Append(job.got, ans)
  /\ Len(job'.sent) = Len(job.sent) + 1
  /\ flash' = [x \in Names |-> flash'[x]] /\ mem' = mem
  /\ flash'[job.chip] = Exchanged(flash[job.chip], val)
  /\ \A x \in Names : x # job.chip => flash'[x] = flash[x]

LEMMA TransferDoes ==
  ASSUME IInv, job # NoJob, NEW val \in Nat, Transfer(val)
  PROVE  Transferred(val, Answer(Write(flash[job.chip], val), mem[job.chip]))
<1> DEFINE ans == Answer(Write(flash[job.chip], val), mem[job.chip])
           g == Exchanged(flash[job.chip], val)
<1>1. /\ flash' = [flash EXCEPT ![job.chip] = g]
      /\ job' = [job EXCEPT !.sent = Append(@, val), !.got = Append(@, ans)]
      /\ mem' = mem
  BY TransferReaches
<1>2. DOMAIN job = JobFields /\ job.sent \in Seq(Nat) /\ job.chip \in Names
  BY DEF IInv, JobOK
<1>3. flash = [x \in Names |-> flash[x]]
  BY DEF IInv, Shapes
<1> HIDE DEF ans, g
<1>4. /\ DOMAIN job' = JobFields
      /\ job'.op = job.op /\ job'.chip = job.chip /\ job'.page = job.page
      /\ job'.off = job.off /\ job'.command = job.command
      /\ job'.before = job.before
      /\ job'.sent = Append(job.sent, val) /\ job'.got = Append(job.got, ans)
  BY <1>1, <1>2 DEF JobFields
<1>5. job' # NoJob
  <2>1. "chip" \in DOMAIN job' /\ "chip" \notin DOMAIN NoJob
    BY <1>4 DEF JobFields, NoJob
  <2> QED
    BY <2>1
<1>6. Len(Append(job.sent, val)) = Len(job.sent) + 1
  BY <1>2
<1>7. /\ flash' = [x \in Names |-> flash'[x]]
      /\ flash'[job.chip] = g
      /\ \A x \in Names : x # job.chip => flash'[x] = flash[x]
  BY <1>1, <1>2, <1>3
<1> QED
  BY <1>1, <1>4, <1>5, <1>6, <1>7 DEF Transferred, ans, g

(* The invariant after a transfer, but for what the chip has been told and *)
(* what it answered. *)
LEMMA TransferKeeps ==
  ASSUME IInv, job # NoJob, NEW val \in Nat, NEW ans \in Nat,
         Transferred(val, ans),
         Settled(flash'[job.chip]),
         flash'[job.chip].writeBuf \in [Offsets -> Byte],
         flash'[job.chip].writeOff \in Offsets,
         flash'[job.chip].readOff \in Offsets
  PROVE  Shapes' /\ JobOK' /\ Resting'
<1>1. Shapes'
  BY DEF IInv, Shapes, Transferred
<1>2. JobOK'
  <2>1. /\ Append(job.sent, val) \in Seq(Nat)
        /\ Append(job.got, ans) \in Seq(Nat)
        /\ Len(Append(job.got, ans)) = Len(job.got) + 1
    BY DEF IInv, JobOK
  <2> QED
    BY <2>1 DEF IInv, JobOK, Transferred
<1>3. Resting'
  BY DEF IInv, Resting, Transferred
<1> QED
  BY <1>1, <1>2, <1>3

LEMMA BytesAreNumbers == Byte \subseteq Nat /\ 0 \in Byte
BY BusAssumption

LEMMA AnswerIsByte ==
  ASSUME NEW f, NEW m \in [Addresses -> Byte]
  PROVE  Answer(f, m) \in Nat
<1>1. ASSUME NEW a
      PROVE  Stored(m, a) \in Nat
  <2>1. a \in Addresses => m[a] \in Nat
    BY BytesAreNumbers
  <2> QED
    BY <2>1 DEF Stored, Idle
<1>2. Answer(f, m) \in {Ready, Idle, Stored(m, f.readAddr + f.readOff)}
  BY DEF Answer
<1> QED
  BY <1>1, <1>2 DEF Idle, Ready

(* The bytes after the first k, and one more.                              *)
LEMMA After ==
  ASSUME NEW s \in Seq(Nat), NEW k \in 0 .. Len(s), NEW v \in Nat
  PROVE  /\ SubSeq(s, k + 1, Len(s)) \in Seq(Nat)
         /\ Len(SubSeq(s, k + 1, Len(s))) = Len(s) - k
         /\ SubSeq(Append(s, v), k + 1, Len(Append(s, v)))
              = Append(SubSeq(s, k + 1, Len(s)), v)
<1> DEFINE n == Len(s)
           t == SubSeq(s, k + 1, n)
           u == SubSeq(Append(s, v), k + 1, n + 1)
<1>1. /\ n \in Nat /\ Append(s, v) \in Seq(Nat) /\ Len(Append(s, v)) = n + 1
      /\ Append(s, v)[n + 1] = v
      /\ \A i \in 1 .. n : Append(s, v)[i] = s[i]
  OBVIOUS
<1>2. /\ t \in Seq(Nat) /\ Len(t) = n - k
      /\ \A i \in 1 .. n - k : t[i] = s[k + i]
  BY <1>1
<1>3. /\ u \in Seq(Nat) /\ Len(u) = n + 1 - k
      /\ \A i \in 1 .. n + 1 - k : u[i] = Append(s, v)[k + i]
  BY <1>1
<1>4. /\ Append(t, v) \in Seq(Nat) /\ Len(Append(t, v)) = n + 1 - k
      /\ \A i \in 1 .. n - k : Append(t, v)[i] = t[i]
      /\ Append(t, v)[n + 1 - k] = v
  BY <1>1, <1>2
<1> HIDE DEF t, u
<1>5. ASSUME NEW i \in 1 .. n + 1 - k
      PROVE  u[i] = Append(t, v)[i]
  <2>1. CASE i <= n - k
    <3>1. i \in 1 .. n - k /\ k + i \in 1 .. n
      BY <1>1, <2>1
    <3> QED
      BY <1>1, <1>2, <1>3, <1>4, <3>1
  <2>2. CASE i = n + 1 - k
    <3>1. k + i = n + 1
      BY <1>1, <2>2
    <3>2. u[i] = Append(s, v)[n + 1]
      BY <1>3, <3>1
    <3>3. Append(t, v)[i] = v
      BY <1>4, <2>2
    <3> QED
      BY <1>1, <3>2, <3>3
  <2>3. i <= n - k \/ i = n + 1 - k
    BY <1>1
  <2> QED
    BY <2>1, <2>2, <2>3
<1>6. u = Append(t, v)
  BY <1>3, <1>4, <1>5, SeqEqual
<1> QED
  BY <1>1, <1>2, <1>6 DEF t, u

-----------------------------------------------------------------------------
(* The invariant is inductive, action by action. *)

LEMMA SendCommandKeeps == IInv /\ SendCommand => IInv'
<1> SUFFICES ASSUME IInv, SendCommand
             PROVE  IInv'
  OBVIOUS
<1> DEFINE f == flash[job.chip]
           n == Len(job.sent)
           val == job.command[n + 1]
           ans == Answer(Write(f, val), mem[job.chip])
           g == Exchanged(f, val)
           address == job.page * PageSize + job.off
<1>1. /\ job # NoJob /\ Commanding /\ n < Len(job.command)
      /\ Transfer(val)
  BY DEF SendCommand, Commanding
<1>2. /\ job.op \in DOMAIN Opcodes /\ job.chip \in Names
      /\ job.page \in Pages /\ job.off \in Offsets
      /\ job.command = Command(job.op, job.page, job.off)
      /\ job.sent \in Seq(Nat) /\ n \in Nat
      /\ Settled(f) /\ f.writeBuf \in [Offsets -> Byte]
      /\ f.writeOff \in Offsets /\ f.readOff \in Offsets
      /\ job.before \in [Offsets -> Byte]
      /\ mem[job.chip] \in [Addresses -> Byte]
  BY <1>1 DEF IInv, JobOK, Shapes
<1>3. CommandIs(job.command, job.op, job.page, job.off)
  BY <1>2, CommandBytes
<1>4. /\ job.command \in Seq(Nat)
      /\ Len(job.command) = IF job.op = "status" THEN 1
                            ELSE IF job.op = "read" THEN 8 ELSE 4
      /\ job.command[1] = Opcodes[job.op]
  BY <1>3 DEF CommandIs
<1>5. val \in Nat
  BY <1>1, <1>2, <1>4, Z3
<1>6. ans \in Nat
  BY <1>2, AnswerIsByte
<1>7. Transferred(val, ans)
  BY <1>1, <1>5, TransferDoes
<1>8. /\ ~f.cs /\ NoOperation(f) /\ f.writeBuf = job.before
      /\ n = 0 => NoCommand(f)
      /\ n > 0 => /\ f.opCode = Opcodes[job.op]
                  /\ f.len = Len(job.command) - 1
                  /\ f.buf \in Seq(Nat) /\ Len(f.buf) = n - 1
                  /\ \A i \in 1 .. n - 1 : f.buf[i] = job.command[i + 1]
  BY <1>1 DEF IInv, Told
<1>9. /\ flash'[job'.chip] = g /\ job' # NoJob
      /\ Len(job'.sent) = n + 1 /\ job'.command = job.command
      /\ job'.op = job.op /\ job'.before = job.before
      /\ job'.page = job.page /\ job'.off = job.off
      /\ Commanding' <=> n + 1 < Len(job.command)
  BY <1>7 DEF Transferred, Commanding
<1> HIDE DEF f, n, val, ans, g
<1>10. ASSUME ~Commanding'
      PROVE  DataSent' = << >> /\ Len(DataSent)' = 0
  <2>1. Len(job'.command) \in Int /\ Len(job'.sent) = Len(job'.command)
    BY <1>1, <1>2, <1>4, <1>9, <1>10
  <2>2. DataSent' = SubSeq(job'.sent, Len(job'.command) + 1, Len(job'.sent))
    BY DEF DataSent
  <2>3. DataSent' = << >>
    BY <2>1, <2>2, SubSeqEmpty
  <2> QED
    BY <2>3
<1>11. AnswersFollowCommands'
  <2>1. CASE Commanding'
    BY <2>1 DEF AnswersFollowCommands
  <2>2. CASE ~Commanding'
    BY <1>10, <2>2 DEF AnswersFollowCommands
  <2> QED
    BY <2>1, <2>2
<1>12. ASSUME Settled(g), g.writeBuf \in [Offsets -> Byte],
              g.writeOff \in Offsets, g.readOff \in Offsets, Told', Operating'
       PROVE  IInv'
  <2>1. flash'[job.chip] = g
    BY <1>7, <1>9 DEF Transferred
  <2>2. Shapes' /\ JobOK' /\ Resting'
    BY <1>1, <1>5, <1>6, <1>7, <1>12, <2>1, TransferKeeps
  <2> QED
    BY <1>11, <1>12, <2>2 DEF IInv
<1> DEFINE told == /\ ~g.cs /\ NoOperation(g) /\ g.writeBuf = job.before
                   /\ g.opCode = Opcodes[job.op]
                   /\ g.len = Len(job.command) - 1
                   /\ g.buf \in Seq(Nat) /\ Len(g.buf) = n
                   /\ \A i \in 1 .. n : g.buf[i] = job.command[i + 1]
<1>13. ASSUME n + 1 < Len(job.command) => told
       PROVE  Told'
  <2>1. n + 1 # 0 /\ (n + 1) - 1 = n
    BY <1>2
  <2> QED
    BY <1>9, <1>13, <2>1 DEF Told
<1>14. CASE n = 0
  <2>1. val = Opcodes[job.op]
    BY <1>4, <1>14 DEF val
  <2>2. /\ Settled(g) /\ ~g.cs /\ SameBuffer(f, g) /\ g.readOff = f.readOff
        /\ job.op = "status" =>
              /\ NoCommand(g) /\ g.outputStatus
              /\ g.readAddr = None /\ g.writeAddr = None
        /\ job.op # "status" =>
              /\ NoOperation(g)
              /\ g.opCode = Opcodes[job.op] /\ g.buf = << >>
              /\ g.len = IF job.op = "read" THEN 7 ELSE 3
    BY <1>2, <1>8, <1>14, <2>1, GetsOpcode DEF g
  <2>3. Told'
    <3>1. << >> \in Seq(Nat) /\ Len(<< >>) = n /\ 1 .. n = {}
      BY <1>14
    <3>2. n + 1 < Len(job.command) => job.op # "status"
      BY <1>4, <1>14
    <3>3. n + 1 < Len(job.command) => g.len = Len(job.command) - 1
      BY <1>4, <2>2, <3>2
    <3> QED
      BY <1>8, <1>13, <2>2, <3>1, <3>2, <3>3 DEF SameBuffer
  <2>4. Operating'
    BY <1>4, <1>9, <1>14, <2>2 DEF Operating
  <2> QED
    BY <1>2, <1>12, <2>2, <2>3, <2>4 DEF SameBuffer
<1>15. ASSUME n > 0
       PROVE  LET all == Append(f.buf, val)
              IN  /\ all \in Seq(Nat) /\ Len(all) = n
                  /\ \A i \in 1 .. n : all[i] = job.command[i + 1]
  <2> DEFINE all == Append(f.buf, val)
  <2>1. f.buf \in Seq(Nat) /\ Len(f.buf) = n - 1
    BY <1>8, <1>15
  <2>2. /\ all \in Seq(Nat) /\ Len(all) = (n - 1) + 1
        /\ all[(n - 1) + 1] = val
        /\ \A i \in 1 .. n - 1 : all[i] = f.buf[i]
    BY <1>5, <2>1
  <2> HIDE DEF all
  <2>3. (n - 1) + 1 = n
    BY <1>2
  <2>4. all[n] = job.command[n + 1]
    BY <2>2, <2>3 DEF val
  <2>5. \A i \in 1 .. n - 1 : all[i] = job.command[i + 1]
    BY <1>8, <1>15, <2>2
  <2>6. \A i \in 1 .. n : i = n \/ i \in 1 .. n - 1
    BY <1>2
  <2> QED
    BY <2>2, <2>3, <2>4, <2>5, <2>6 DEF all
<1>16. CASE n > 0 /\ n + 1 < Len(job.command)
  <2>1. f.len # 0 /\ Len(f.buf) + 1 # f.len
    BY <1>2, <1>4, <1>8, <1>16
  <2>2. /\ Settled(g) /\ ~g.cs /\ SameBuffer(f, g) /\ g.readOff = f.readOff
        /\ NoOperation(g)
        /\ g.opCode = f.opCode /\ g.len = f.len /\ g.buf = Append(f.buf, val)
    BY <1>2, <1>5, <1>8, <1>16, <2>1, GetsArgument DEF g
  <2>3. /\ g.buf \in Seq(Nat) /\ Len(g.buf) = n
        /\ \A i \in 1 .. n : g.buf[i] = job.command[i + 1]
    BY <1>16, <1>15, <2>2
  <2>4. Told'
    BY <1>8, <1>16, <1>13, <2>2, <2>3 DEF SameBuffer
  <2>5. Operating'
    BY <1>9, <1>16 DEF Operating
  <2> QED
    BY <1>2, <1>12, <2>2, <2>4, <2>5 DEF SameBuffer
<1>17. CASE n > 0 /\ n + 1 = Len(job.command)
  <2> DEFINE all == Append(f.buf, val)
  <2>1. /\ f.len # 0 /\ Len(f.buf) + 1 = f.len /\ job.op # "status"
        /\ Len(job.command) >= 4
    <3>1. Len(job.command) = n + 1 /\ n > 0
      BY <1>17
    <3>2. job.op # "status" /\ Len(job.command) >= 4
      <4>1. Len(job.command) > 1
        BY <1>2, <3>1
      <4> QED
        BY <1>4, <4>1
    <3>3. f.len = n /\ Len(f.buf) = n - 1
      BY <1>2, <1>8, <3>1
    <3> QED
      BY <1>2, <3>1, <3>2, <3>3
  <2>2. \A i \in 1 .. n : all[i] = job.command[i + 1]
    BY <1>17, <1>15
  <2>3. AddressOf(all) = address
    <3>1. all[1] = job.command[2] /\ all[2] = job.command[3] /\ all[3] = job.command[4]
      <4>1. 1 \in 1 .. n /\ 2 \in 1 .. n /\ 3 \in 1 .. n
        BY <1>2, <1>17, <2>1
      <4> HIDE DEF all
      <4> QED
        BY <2>2, <4>1
    <3>2. /\ job.command[2] = job.page \div 128
          /\ job.command[3] = (job.page % 128) * 2 + (job.off \div 256)
          /\ job.command[4] = job.off % 256
      BY <1>3, <2>1 DEF CommandIs
    <3> HIDE DEF all
    <3> QED
      BY <1>2, <3>1, <3>2, AddressCarried
  <2> HIDE DEF all
  <2>4. /\ Settled(g) /\ ~g.cs /\ NoCommand(g) /\ ~g.outputStatus
        /\ g.writeBuf = f.writeBuf
        /\ f.opCode = MemoryRead =>
              /\ g.readAddr = address /\ g.readOff = 0
              /\ g.writeAddr = None /\ g.writeOff = f.writeOff
        /\ f.opCode = MemoryWrite =>
              /\ g.writeAddr = address /\ g.writeOff = 0
              /\ g.readAddr = None /\ g.readOff = f.readOff
        /\ f.opCode \notin {MemoryRead, MemoryWrite} =>
              NoOperation(g) /\ g.writeOff = f.writeOff /\ g.readOff = f.readOff
    BY <1>2, <1>5, <1>8, <1>17, <2>1, <2>3, GetsLastArgument DEF g, all
  <2>5. /\ job.op = "read" <=> f.opCode = MemoryRead
        /\ job.op = "program" <=> f.opCode = MemoryWrite
    BY <1>2, <1>8, <1>17 DEF Opcodes, MemoryRead, MemoryWrite, Compare, StatusRead
  <2>6. ~Commanding'
    BY <1>9, <1>17
  <2>7. Told'
    BY <2>6 DEF Told
  <2>8. 0 \in Offsets /\ 0 % PageSize = 0
    BY FlashAssumption DEF Offsets
  <2>9. Overlaid(job.before, << >>) = job.before
    BY <1>2, OverlaidNothing
  <2>10. Operating'
    <3>1. /\ g.readAddr = IF job.op = "read" THEN address ELSE None
          /\ g.writeAddr = IF job.op = "program" THEN address ELSE None
          /\ job.op = "read" => g.readOff = 0
          /\ job.op = "program" => g.writeOff = 0
      BY <2>4, <2>5 DEF NoOperation
    <3> QED
      BY <1>8, <1>9, <1>10, <2>1, <2>4, <2>6, <2>8, <2>9, <3>1 DEF Operating
  <2>11. g.writeOff \in Offsets /\ g.readOff \in Offsets
    BY <1>2, <2>4, <2>8
  <2> QED
    BY <1>2, <1>12, <2>4, <2>7, <2>10, <2>11
<1> QED
  BY <1>1, <1>2, <1>4, <1>14, <1>16, <1>17

(* After the command: the bytes since then, and one more.                  *)
LEMMA OneMore ==
  ASSUME IInv, job # NoJob, ~Commanding, NEW val \in Nat, NEW ans,
         Transferred(val, ans)
  PROVE  /\ DataSent \in Seq(Nat) /\ Len(DataSent) \in Nat
         /\ DataSent' = Append(DataSent, val)
         /\ Len(DataSent)' = Len(DataSent) + 1
         /\ Len(job.command) \in Nat
         /\ Len(job.sent) = Len(job.command) + Len(DataSent)
         /\ ~Commanding'
<1>1. /\ job.sent \in Seq(Nat) /\ Len(job.sent) \in Nat
      /\ Len(job.command) \in Nat
  BY CommandBytes DEF IInv, JobOK, CommandIs
<1>2. Len(job.command) \in 0 .. Len(job.sent)
  BY <1>1 DEF Commanding
<1> DEFINE k == Len(job.command)
<1>3. /\ DataSent \in Seq(Nat)
      /\ Len(DataSent) = Len(job.sent) - k
      /\ SubSeq(Append(job.sent, val), k + 1, Len(Append(job.sent, val)))
           = Append(DataSent, val)
  BY <1>1, <1>2, After DEF DataSent
<1>4. DataSent' = Append(DataSent, val)
  BY <1>3 DEF DataSent, Transferred
<1>5. Len(Append(DataSent, val)) = Len(DataSent) + 1
  <2>1. \A s \in Seq(Nat) : Len(Append(s, val)) = Len(s) + 1
    OBVIOUS
  <2> QED
    BY <1>3, <2>1
<1>6. ~Commanding'
  BY <1>1, <1>2 DEF Commanding, Transferred
<1> QED
  BY <1>1, <1>3, <1>4, <1>5, <1>6

LEMMA SendDataKeeps == IInv /\ SendData => IInv'
<1> SUFFICES ASSUME IInv, SendData
             PROVE  IInv'
  OBVIOUS
<1> DEFINE f == flash[job.chip]
           address == job.page * PageSize + job.off
<1>1. job # NoJob /\ ~Commanding /\ job.op = "program"
  BY DEF SendData
<1>2. PICK b \in Byte : Transfer(b)
  BY DEF SendData
<1> DEFINE ans == Answer(Write(f, b), mem[job.chip])
           g == Exchanged(f, b)
<1>3. /\ job.chip \in Names /\ job.page \in Pages /\ job.off \in Offsets
      /\ Settled(f) /\ f.writeBuf \in [Offsets -> Byte]
      /\ f.writeOff \in Offsets /\ f.readOff \in Offsets
      /\ mem[job.chip] \in [Addresses -> Byte]
  BY <1>1 DEF IInv, JobOK, Shapes
<1>4. b \in Nat /\ ans \in Nat
  BY <1>3, BytesAreNumbers, AnswerIsByte
<1>5. Transferred(b, ans)
  BY <1>1, <1>2, <1>4, TransferDoes
<1>6. /\ ~f.cs /\ NoCommand(f) /\ ~f.outputStatus
      /\ f.readAddr = None /\ f.writeAddr = address
      /\ f.writeOff = Len(DataSent) % PageSize
      /\ f.writeBuf = Overlaid(job.before, DataSent)
  BY <1>1 DEF IInv, Operating
<1>7. address # None
  <2>1. address \in Addresses
    BY <1>3, InPage
  <2> QED
    BY <2>1 DEF Addresses, None
<1>8. /\ Settled(g) /\ ~g.cs /\ NoCommand(g) /\ ~g.outputStatus
      /\ g.readAddr = None /\ g.readOff = f.readOff
      /\ g.writeAddr = address
      /\ g.writeOff = (f.writeOff + 1) % PageSize
      /\ g.writeBuf = [f.writeBuf EXCEPT ![f.writeOff] = b]
  BY <1>3, <1>6, <1>7, GetsData
<1>9. /\ DataSent' = Append(DataSent, b) /\ Len(DataSent)' = Len(DataSent) + 1
      /\ DataSent \in Seq(Nat) /\ Len(DataSent) \in Nat /\ ~Commanding'
  BY <1>1, <1>4, <1>5, OneMore
<1>10. /\ flash'[job'.chip] = g /\ flash'[job.chip] = g /\ job' # NoJob
       /\ job'.op = "program" /\ job'.before = job.before
       /\ job'.page = job.page /\ job'.off = job.off
  BY <1>1, <1>5 DEF Transferred
<1> HIDE DEF f, g, ans
<1>11. g.writeOff = (Len(DataSent) + 1) % PageSize
  BY <1>6, <1>8, <1>9, AdvanceCounts
<1>12. g.writeBuf = Overlaid(job.before, DataSent')
  BY <1>4, <1>6, <1>8, <1>9, OverlaidMore
<1>13. Operating'
  BY <1>8, <1>9, <1>10, <1>11, <1>12 DEF Operating
<1>14. Told'
  BY <1>9 DEF Told
<1>15. AnswersFollowCommands'
  BY <1>10 DEF AnswersFollowCommands
<1>16. g.writeBuf \in [Offsets -> Byte] /\ g.writeOff \in Offsets /\ g.readOff \in Offsets
  BY <1>3, <1>8, Advance
<1>17. Shapes' /\ JobOK' /\ Resting'
  BY <1>1, <1>4, <1>5, <1>8, <1>10, <1>16, TransferKeeps
<1> QED
  BY <1>13, <1>14, <1>15, <1>17 DEF IInv

LEMMA FetchKeeps == IInv /\ Fetch => IInv'
<1> SUFFICES ASSUME IInv, Fetch
             PROVE  IInv'
  OBVIOUS
<1> DEFINE f == flash[job.chip]
           address == job.page * PageSize + job.off
           n == Len(DataSent)
           ans == Answer(Write(f, Idle), mem[job.chip])
           g == Exchanged(f, Idle)
<1>1. /\ job # NoJob /\ ~Commanding /\ job.op \in {"read", "status"}
      /\ n < Limit /\ Transfer(Idle) /\ Idle \in Nat
  BY DEF Fetch, Idle
<1>2. /\ job.chip \in Names /\ job.page \in Pages /\ job.off \in Offsets
      /\ Settled(f) /\ f.writeBuf \in [Offsets -> Byte]
      /\ f.writeOff \in Offsets /\ f.readOff \in Offsets
      /\ mem[job.chip] \in [Addresses -> Byte]
      /\ job.got \in Seq(Nat) /\ Len(job.got) = Len(job.sent)
  BY <1>1 DEF IInv, JobOK, Shapes
<1>3. ans \in Nat
  BY <1>2, AnswerIsByte
<1>4. Transferred(Idle, ans)
  BY <1>1, TransferDoes
<1>5. /\ ~f.cs /\ NoCommand(f) /\ f.writeAddr = None
      /\ f.outputStatus <=> job.op = "status"
      /\ f.readAddr = IF job.op = "read" THEN address ELSE None
      /\ job.op = "read" => f.readOff = n
  BY <1>1 DEF IInv, Operating
<1>6. address \in Addresses /\ address # None
  <2>1. address \in Addresses
    BY <1>2, InPage
  <2> QED
    BY <2>1 DEF Addresses, None
<1>7. /\ Settled(g) /\ ~g.cs /\ NoCommand(g) /\ SameBuffer(f, g)
      /\ g.writeAddr = None /\ g.readAddr = f.readAddr
      /\ g.outputStatus = f.outputStatus
      /\ g.readOff = IF f.outputStatus THEN f.readOff
                     ELSE (f.readOff + 1) % PageSize
      /\ ans = IF f.outputStatus THEN Ready
               ELSE Stored(mem[job.chip], f.readAddr + f.readOff)
  <2>1. f.outputStatus \/ f.readAddr # None
    BY <1>1, <1>5, <1>6
  <2> QED
    BY <1>2, <1>5, <2>1, Answers, Z3
<1>8. /\ Len(DataSent)' = n + 1 /\ n \in Nat /\ ~Commanding'
      /\ Len(job.command) \in Nat /\ Len(job.sent) = Len(job.command) + n
  BY <1>1, <1>4, OneMore
<1>9. /\ flash'[job'.chip] = g /\ flash'[job.chip] = g /\ job' # NoJob
      /\ job'.op = job.op /\ job'.before = job.before /\ job'.chip = job.chip
      /\ job'.page = job.page /\ job'.off = job.off /\ job'.command = job.command
      /\ Limit' = Limit /\ mem' = mem /\ job'.got = Append(job.got, ans)
  BY <1>4 DEF Transferred, Limit
<1> HIDE DEF f, g, ans, n, address
<1>10. job.op = "read" => Limit = PageSize - job.off
  BY DEF Limit
<1>11. job.op = "read" /\ n + 1 < Limit => g.readOff = n + 1
  <2> SUFFICES ASSUME job.op = "read", n + 1 < Limit
               PROVE  g.readOff = n + 1
    OBVIOUS
  <2>1. n \in Offsets /\ n + 1 < PageSize
    BY <1>2, <1>8, <1>10, FlashAssumption DEF Offsets
  <2>2. g.readOff = (n + 1) % PageSize
    BY <1>5, <1>7
  <2> QED
    BY <2>1, <2>2, Advance
<1>12. Operating'
  BY <1>1, <1>5, <1>7, <1>8, <1>9, <1>11 DEF Operating, address
<1>13. Told'
  BY <1>8 DEF Told
<1>14. job.op = "read" => ans = mem[job.chip][address + n]
  <2> SUFFICES ASSUME job.op = "read"
               PROVE  ans = mem[job.chip][address + n]
    OBVIOUS
  <2>1. ans = Stored(mem[job.chip], address + n)
    BY <1>5, <1>7
  <2>2. address + n \in Addresses
    <3>1. job.off + n \in Offsets
      BY <1>1, <1>2, <1>8, <1>10, FlashAssumption DEF Offsets
    <3>2. job.page * PageSize + (job.off + n) \in Addresses
      BY <1>2, <3>1, InPage
    <3>3. job.page * PageSize \in Int /\ job.off \in Int
      BY <1>2, FlashAssumption DEF Pages, Offsets
    <3> QED
      BY <1>8, <3>2, <3>3 DEF address
  <2> QED
    BY <2>1, <2>2 DEF Stored
<1>15. job.op = "status" => ans = Ready
  BY <1>5, <1>7
<1>16. /\ \A i \in 1 .. n : Received(i)' = Received(i)
       /\ \A i \in {n + 1} : Received(i)' = ans
  <2> DEFINE k == Len(job.command)
             got == job.got
  <2>1. got \in Seq(Nat) /\ Len(got) = k + n /\ k \in Nat /\ n \in Nat
    BY <1>2, <1>8
  <2>2. job'.got = Append(got, ans) /\ Len(job'.command) = k
    BY <1>9
  <2> HIDE DEF k, got
  <2>3. /\ \A j \in 1 .. k + n : Append(got, ans)[j] = got[j]
        /\ Append(got, ans)[k + n + 1] = ans
    BY <1>3, <2>1
  <2>4. \A i \in 1 .. n : k + i \in 1 .. k + n
    BY <2>1
  <2>5. k + (n + 1) = k + n + 1
    BY <2>1
  <2>6. /\ \A i \in 1 .. n : job'.got[k + i] = got[k + i]
        /\ job'.got[k + (n + 1)] = ans
    BY <2>2, <2>3, <2>4, <2>5
  <2>7. ASSUME NEW i \in Nat
        PROVE  /\ Received(i)' = job'.got[Len(job'.command) + i]
               /\ Received(i) = got[k + i]
    BY DEF Received, got, k
  <2> QED
    BY <2>1, <2>2, <2>6, <2>7
<1>17. AnswersFollowCommands'
  <2> SUFFICES ASSUME NEW i \in 1 .. n + 1
               PROVE  /\ job.op = "read" => Received(i)' = mem[job.chip][address + i - 1]
                      /\ job.op = "status" => Received(i)' = Ready
    BY <1>8, <1>9 DEF AnswersFollowCommands, address
  <2>1. CASE i = n + 1
    <3>1. address + i - 1 = address + n
      BY <1>6, <1>8, <2>1 DEF Addresses
    <3>2. Received(i)' = ans
      BY <1>16, <2>1
    <3> QED
      BY <1>14, <1>15, <3>1, <3>2
  <2>2. CASE i \in 1 .. n
    <3>1. /\ job.op = "read" => Received(i) = mem[job.chip][address + i - 1]
          /\ job.op = "status" => Received(i) = Ready
      BY <1>1, <2>2 DEF IInv, AnswersFollowCommands, n, address
    <3> QED
      BY <1>16, <2>2, <3>1
  <2>3. i = n + 1 \/ i \in 1 .. n
    BY <1>8
  <2> QED
    BY <2>1, <2>2, <2>3
<1>18. g.writeBuf \in [Offsets -> Byte] /\ g.writeOff \in Offsets /\ g.readOff \in Offsets
  BY <1>2, <1>7, Advance DEF SameBuffer
<1>19. Shapes' /\ JobOK' /\ Resting'
  BY <1>1, <1>3, <1>4, <1>7, <1>9, <1>18, TransferKeeps
<1> QED
  BY <1>12, <1>13, <1>17, <1>19 DEF IInv

(* Selecting a chip changes nothing but that it listens.                   *)
LEMMA Selects ==
  ASSUME NEW f, Settled(f), NEW m, NEW g, g = SetCS(f, FALSE)
  PROVE  /\ Settled(g) /\ ~g.cs /\ SameBuffer(f, g) /\ g.readOff = f.readOff
         /\ NoCommand(f) => NoCommand(g)
         /\ NoOperation(f) => NoOperation(g)
         /\ Programmed(f, FALSE, m) = m
<1>1. g = [f EXCEPT !.cs = FALSE]
  BY DEF SetCS
<1> QED
  BY <1>1 DEF Settled, Fields, SameBuffer, NoCommand, NoOperation, Programmed

(* Deselecting it ends its operation.                                      *)
LEMMA Deselects ==
  ASSUME NEW f, Settled(f), ~f.cs, NEW g, g = SetCS(f, TRUE)
  PROVE  /\ Settled(g) /\ g.cs /\ SameBuffer(f, g) /\ g.readOff = f.readOff
         /\ NoCommand(f) => NoCommand(g)
         /\ NoOperation(g)
<1>1. g = [f EXCEPT !.cs = TRUE, !.outputStatus = FALSE, !.readAddr = None,
                    !.writeAddr = None]
  BY DEF SetCS
<1> QED
  BY <1>1 DEF Settled, Fields, SameBuffer, NoCommand, NoOperation

LEMMA SelectKeeps == IInv /\ Select => IInv' /\ mem' = mem
<1> SUFFICES ASSUME IInv, Select
             PROVE  IInv' /\ mem' = mem
  OBVIOUS
<1>1. PICK op \in DOMAIN Opcodes, c \in Names, p \in Pages, off \in Offsets :
        /\ ChipSelect(c, FALSE)
        /\ job' = [op |-> op, chip |-> c, page |-> p, off |-> off,
                   command |-> Command(op, p, off), sent |-> << >>,
                   got |-> << >>, before |-> flash[c].writeBuf]
  BY DEF Select
<1> DEFINE f == flash[c]
           g == SetCS(f, FALSE)
<1>2. /\ job = NoJob /\ Settled(f) /\ NoCommand(f) /\ NoOperation(f)
      /\ f.writeBuf \in [Offsets -> Byte]
      /\ f.writeOff \in Offsets /\ f.readOff \in Offsets
  BY DEF Select, IInv, Shapes, Resting
<1>3. /\ Settled(g) /\ ~g.cs /\ SameBuffer(f, g) /\ g.readOff = f.readOff
      /\ NoCommand(g) /\ NoOperation(g) /\ Programmed(f, FALSE, mem[c]) = mem[c]
  BY <1>2, Selects
<1>4. /\ flash' = [x \in Names |-> flash'[x]] /\ flash'[c] = g
      /\ \A x \in Names : x # c => flash'[x] = flash[x]
  BY <1>1 DEF ChipSelect, IInv, Shapes
<1>5. mem' = mem
  BY <1>1, <1>3 DEF ChipSelect, IInv, Shapes
<1>6. /\ DOMAIN job' = JobFields /\ job'.op = op /\ job'.chip = c /\ job'.page = p
      /\ job'.off = off /\ job'.command = Command(op, p, off)
      /\ job'.sent = << >> /\ job'.got = << >> /\ job'.before = f.writeBuf
  BY <1>1 DEF JobFields
<1> HIDE DEF f, g
<1>7. job' # NoJob
  <2>1. "chip" \in DOMAIN job' /\ "chip" \notin DOMAIN NoJob
    BY <1>6 DEF JobFields, NoJob
  <2> QED
    BY <2>1
<1>8. CommandIs(job'.command, op, p, off)
  BY <1>6, CommandBytes
<1>9. Commanding'
  <2>1. 0 < Len(job'.command)
    BY <1>8 DEF CommandIs
  <2>2. Len(job'.sent) = 0
    BY <1>6
  <2> QED
    BY <2>1, <2>2 DEF Commanding
<1>10. Shapes'
  BY <1>2, <1>3, <1>4, <1>5 DEF IInv, Shapes, SameBuffer
<1>11. JobOK'
  <2>1. << >> \in Seq(Nat)
    OBVIOUS
  <2> QED
    BY <1>2, <1>6, <2>1 DEF JobOK
<1>12. Resting'
  BY <1>2, <1>4, <1>6, <1>7 DEF IInv, Resting
<1>13. Told'
  <2>1. Len(job'.sent) = 0 /\ ~(0 > 0)
    BY <1>6
  <2> QED
    BY <1>3, <1>4, <1>6, <2>1 DEF Told, SameBuffer
<1>14. Operating' /\ AnswersFollowCommands'
  BY <1>9 DEF Operating, AnswersFollowCommands
<1> QED
  BY <1>5, <1>10, <1>11, <1>12, <1>13, <1>14 DEF IInv

(* What a deselection writes is the page the operation is for: all of it,  *)
(* from the buffer, and no other. *)
LEMMA WritesFromStart ==
  ASSUME NEW f, ~f.cs, NEW m, NEW p \in Pages, NEW i \in Offsets,
         f.writeAddr = p * PageSize + i
  PROVE  Programmed(f, TRUE, m) = ProgramFrom(f, p * PageSize, m)
<1>1. p * PageSize \in Int /\ i \in Int
  BY FlashAssumption DEF Pages, Offsets
<1>2. f.writeAddr # None
  BY InPage DEF Addresses, None
<1>3. f.writeAddr - (f.writeAddr % PageSize) = p * PageSize
  <2>1. (p * PageSize + i) % PageSize = i
    BY PlaceInPage DEF Pages
  <2> QED
    BY <1>1, <2>1
<1> QED
  BY <1>2, <1>3 DEF Programmed

LEMMA ProgramsPage ==
  ASSUME NEW f, f.writeBuf \in [Offsets -> Byte], NEW p \in Pages,
         NEW m \in [Addresses -> Byte],
         NEW after, after = ProgramFrom(f, p * PageSize, m)
  PROVE  /\ after \in [Addresses -> Byte]
         /\ PageOf(after, p) = f.writeBuf
         /\ \A q \in Pages : q # p => PageOf(after, q) = PageOf(m, q)
<1> DEFINE start == p * PageSize
<1>1. start \in Int
  BY FlashAssumption DEF Pages
<1>2. after = [a \in Addresses |-> IF (a - start) \in Offsets
                                   THEN f.writeBuf[a - start] ELSE m[a]]
  BY DEF ProgramFrom
<1>3. after \in [Addresses -> Byte]
  BY <1>2
<1>4. ASSUME NEW q \in Pages, NEW k \in Offsets
      PROVE  after[q * PageSize + k] =
               IF p = q THEN f.writeBuf[k] ELSE m[q * PageSize + k]
  <2>1. q * PageSize + k \in Addresses
    BY InPage
  <2>2. (q * PageSize + k) - start \in Offsets <=> q = p
    BY OnePage
  <2>3. q = p => (q * PageSize + k) - start = k
    <3>1. k \in Int
      BY DEF Offsets
    <3> QED
      BY <1>1, <3>1
  <2> HIDE DEF start
  <2> QED
    BY <1>2, <2>1, <2>2, <2>3
<1>5. PageOf(after, p) = f.writeBuf
  BY <1>4 DEF PageOf
<1>6. ASSUME NEW q \in Pages, q # p
      PROVE  PageOf(after, q) = PageOf(m, q)
  BY <1>4, <1>6 DEF PageOf
<1> QED
  BY <1>3, <1>5, <1>6

(* What a deselection does to the memories.                                *)
LEMMA DeselectPrograms ==
  ASSUME IInv, Deselect
  PROVE  /\ mem' \in [Names -> [Addresses -> Byte]]
         /\ job.op # "program" => mem' = mem
         /\ job.op = "program" =>
              \A c \in Names, p \in Pages :
                PageOf(mem'[c], p) = IF c = job.chip /\ p = job.page
                                     THEN flash[c].writeBuf ELSE PageOf(mem[c], p)
<1> DEFINE c == job.chip
           f == flash[c]
           after == Programmed(f, TRUE, mem[c])
<1>1. /\ c \in Names /\ job.page \in Pages /\ job.off \in Offsets
      /\ mem \in [Names -> [Addresses -> Byte]]
      /\ f.writeBuf \in [Offsets -> Byte]
  BY DEF Deselect, IInv, JobOK, Shapes
<1>2. /\ ~f.cs
      /\ f.writeAddr = IF job.op = "program" THEN job.page * PageSize + job.off
                       ELSE None
  BY DEF Deselect, IInv, Operating
<1>3. mem' = [mem EXCEPT ![c] = after]
  BY DEF Deselect, ChipSelect
<1>4. CASE job.op # "program"
  <2>1. after = mem[c]
    BY <1>2, <1>4 DEF Programmed
  <2> QED
    BY <1>1, <1>3, <1>4, <2>1
<1>5. CASE job.op = "program"
  <2>1. /\ after \in [Addresses -> Byte]
        /\ PageOf(after, job.page) = f.writeBuf
        /\ \A q \in Pages : q # job.page => PageOf(after, q) = PageOf(mem[c], q)
    <3>1. after = ProgramFrom(f, job.page * PageSize, mem[c])
      BY <1>1, <1>2, <1>5, WritesFromStart
    <3>2. mem[c] \in [Addresses -> Byte]
      BY <1>1
    <3> HIDE DEF f, c, after
    <3> QED
      BY <1>1, <3>1, <3>2, ProgramsPage
  <2> HIDE DEF after
  <2>2. mem' \in [Names -> [Addresses -> Byte]]
    BY <1>1, <1>3, <2>1
  <2>3. /\ mem'[c] = after
        /\ \A x \in Names : x # c => mem'[x] = mem[x]
    BY <1>1, <1>3
  <2> QED
    BY <1>5, <2>1, <2>2, <2>3
<1> QED
  BY <1>4, <1>5

LEMMA DeselectKeeps == IInv /\ Deselect => IInv'
<1> SUFFICES ASSUME IInv, Deselect
             PROVE  IInv'
  OBVIOUS
<1> DEFINE c == job.chip
           f == flash[c]
           g == SetCS(f, TRUE)
<1>1. job # NoJob /\ ~Commanding /\ job' = NoJob
  BY DEF Deselect
<1>2. /\ c \in Names /\ Settled(f) /\ ~f.cs /\ NoCommand(f)
      /\ f.writeBuf \in [Offsets -> Byte]
      /\ f.writeOff \in Offsets /\ f.readOff \in Offsets
  BY <1>1 DEF IInv, JobOK, Shapes, Operating
<1>3. /\ Settled(g) /\ g.cs /\ SameBuffer(f, g) /\ g.readOff = f.readOff
      /\ NoCommand(g) /\ NoOperation(g)
  BY <1>2, Deselects
<1>4. /\ flash' = [x \in Names |-> flash'[x]] /\ flash'[c] = g
      /\ \A x \in Names : x # c => flash'[x] = flash[x]
  BY <1>2 DEF Deselect, ChipSelect, IInv, Shapes
<1>5. mem' \in [Names -> [Addresses -> Byte]]
  BY DeselectPrograms
<1> HIDE DEF c, f, g
<1>6. Shapes'
  BY <1>2, <1>3, <1>4, <1>5 DEF IInv, Shapes, SameBuffer
<1>7. Resting'
  BY <1>1, <1>3, <1>4 DEF IInv, Resting, c
<1>8. JobOK' /\ Told' /\ Operating' /\ AnswersFollowCommands'
  BY <1>1 DEF JobOK, Told, Operating, AnswersFollowCommands
<1> QED
  BY <1>6, <1>7, <1>8 DEF IInv

LEMMA InitIInv == Init => IInv
<1> SUFFICES ASSUME Init
             PROVE  IInv
  OBVIOUS
<1> DEFINE zeros == [i \in Offsets |-> 0]
<1>1. /\ flash = [c \in Names |-> Deselected(zeros)] /\ job = NoJob
      /\ mem = [c \in Names |-> Contents]
  BY DEF Init
<1>2. /\ zeros \in [Offsets -> Byte] /\ 0 \in Offsets
      /\ Contents \in [Addresses -> Byte]
  BY BytesAreNumbers, BusAssumption, FlashAssumption DEF Offsets
<1> HIDE DEF zeros
<1>3. LET f == Deselected(zeros)
      IN  /\ Settled(f) /\ f.cs /\ NoCommand(f) /\ NoOperation(f)
          /\ f.writeBuf = zeros /\ f.writeOff = 0 /\ f.readOff = 0
  BY DEF Deselected, Settled, Fields, NoCommand, NoOperation
<1>4. Shapes
  BY <1>1, <1>2, <1>3 DEF Shapes
<1>5. Resting
  BY <1>1, <1>3 DEF Resting
<1>6. JobOK /\ Told /\ Operating /\ AnswersFollowCommands
  BY <1>1 DEF JobOK, Told, Operating, AnswersFollowCommands
<1> QED
  BY <1>4, <1>5, <1>6 DEF IInv

LEMMA NextKeeps == IInv /\ [Next]_vars => IInv'
<1> SUFFICES ASSUME IInv, [Next]_vars
             PROVE  IInv'
  OBVIOUS
<1>1. CASE Next
  BY <1>1, SelectKeeps, SendCommandKeeps, SendDataKeeps, FetchKeeps,
     DeselectKeeps DEF Next
<1>2. CASE UNCHANGED vars
  BY <1>2 DEF vars, IInv, Shapes, JobOK, Resting, Told, Operating,
     AnswersFollowCommands, Commanding, DataSent, Limit, Received
<1> QED
  BY <1>1, <1>2

LEMMA Invariance == Spec => []IInv
BY InitIInv, NextKeeps, PTL DEF Spec

(* The firmware completes its commands (an address put together from two   *)
(* of them need not be in the memory): then buffers, offsets, addresses    *)
(* and memories stay what they are for, through every sequence of them.    *)
THEOREM FlashTypeCorrect == Spec => []TypeOK
<1>1. IInv => TypeOK
  <2> SUFFICES ASSUME IInv, NEW c \in Names
               PROVE  /\ flash[c].writeBuf \in [Offsets -> Byte]
                      /\ flash[c].writeOff \in Offsets
                      /\ flash[c].readOff \in Offsets
                      /\ flash[c].readAddr \in Addresses \cup {None}
                      /\ flash[c].writeAddr \in Addresses \cup {None}
                      /\ Len(flash[c].buf) <= 7
                      /\ mem[c] \in [Addresses -> Byte]
    BY DEF TypeOK
  <2> DEFINE f == flash[c]
             addresses == /\ f.readAddr \in Addresses \cup {None}
                          /\ f.writeAddr \in Addresses \cup {None}
  <2>1. /\ f.writeBuf \in [Offsets -> Byte]
        /\ f.writeOff \in Offsets /\ f.readOff \in Offsets
        /\ mem[c] \in [Addresses -> Byte]
    BY DEF IInv, Shapes
  <2>2. CASE job = NoJob \/ c # job.chip
    <3>1. NoCommand(f) /\ NoOperation(f)
      BY <2>2 DEF IInv, Resting
    <3>2. addresses
      BY <3>1 DEF NoOperation
    <3>3. Len(f.buf) <= 7
      BY <3>1 DEF NoCommand
    <3> QED
      BY <2>1, <3>2, <3>3
  <2>3. CASE job # NoJob /\ c = job.chip /\ Commanding
    <3>1. CommandIs(job.command, job.op, job.page, job.off)
      BY <2>3, CommandBytes DEF IInv, JobOK
    <3>2. Len(job.command) <= 8 /\ Len(job.sent) \in Nat /\ Len(job.command) \in Nat
      BY <2>3, <3>1 DEF CommandIs, IInv, JobOK
    <3>3. NoOperation(f) /\ (Len(job.sent) = 0 => NoCommand(f))
      BY <2>3 DEF IInv, Told
    <3>4. Len(job.sent) > 0 => Len(f.buf) = Len(job.sent) - 1
      BY <2>3 DEF IInv, Told
    <3>5. addresses
      BY <3>3 DEF NoOperation
    <3>6. Len(f.buf) <= 7
      <4>1. CASE Len(job.sent) = 0
        BY <3>3, <4>1 DEF NoCommand
      <4>2. CASE Len(job.sent) > 0
        BY <2>3, <3>2, <3>4, <4>2 DEF Commanding
      <4> QED
        BY <3>2, <4>1, <4>2
    <3> QED
      BY <2>1, <3>5, <3>6
  <2>4. CASE job # NoJob /\ c = job.chip /\ ~Commanding
    <3>1. job.page * PageSize + job.off \in Addresses
      BY <2>4, InPage DEF IInv, JobOK
    <3>2. /\ f.readAddr \in {job.page * PageSize + job.off, None}
          /\ f.writeAddr \in {job.page * PageSize + job.off, None}
          /\ NoCommand(f)
      BY <2>4 DEF IInv, Operating
    <3>3. addresses
      BY <3>1, <3>2
    <3>4. Len(f.buf) <= 7
      BY <3>2 DEF NoCommand
    <3> QED
      BY <2>1, <3>3, <3>4
  <2> QED
    BY <2>2, <2>3, <2>4
<1> QED
  BY <1>1, Invariance, PTL

(* A chip in itself: how much of a command it has is less than what the    *)
(* command needs, and its offsets are in the page.                         *)
Parsing(f) ==
  /\ DOMAIN f = Fields
  /\ f.writeBuf \in [Offsets -> 0 .. 255]
  /\ f.writeOff \in Offsets /\ f.readOff \in Offsets
  /\ f.len \in {0, 3, 7} /\ f.buf \in Seq(0 .. 255)
  /\ IF f.len = 0 THEN f.buf = << >> ELSE Len(f.buf) < f.len

LEMMA NextOffset ==
  ASSUME NEW o \in Offsets
  PROVE  (o + 1) % PageSize \in Offsets /\ 0 \in Offsets
<1>1. PICK n \in Nat \ {0} : n = PageSize
  BY FlashAssumption
<1>2. o + 1 \in Nat
  BY <1>1 DEF Offsets
<1>3. PICK k \in Nat : k = o + 1
  BY <1>2
<1>4. (k % n) \in 0 .. n - 1
  OBVIOUS
<1> QED
  BY <1>1, <1>3, <1>4 DEF Offsets

LEMMA WriteParses ==
  ASSUME NEW f, Parsing(f), NEW val \in 0 .. 255
  PROVE  Parsing(Write(f, val))
<1> DEFINE d == [f EXCEPT !.didWrite = TRUE]
           more == [d EXCEPT !.buf = Append(@, val)]
           begun == [d EXCEPT !.buf = << >>]
<1>1. Parsing(d)
  BY DEF Parsing, Fields
<1>2. Parsing(Buffered(d, val))
  <2>1. (d.writeOff + 1) % PageSize \in Offsets
    BY <1>1, NextOffset DEF Parsing
  <2> QED
    BY <1>1, <2>1 DEF Parsing, Buffered, Fields
<1>3. ASSUME f.len # 0
      PROVE  Parsing(Argument(d, val))
  <2>1. /\ more.buf = Append(f.buf, val) /\ more.len = f.len /\ DOMAIN more = Fields
        /\ more.writeBuf = f.writeBuf /\ more.writeOff = f.writeOff /\ more.readOff = f.readOff
    BY DEF Parsing, Fields
  <2>2. Append(f.buf, val) \in Seq(0 .. 255) /\ Len(Append(f.buf, val)) = Len(f.buf) + 1
    BY DEF Parsing
  <2>3. CASE Len(more.buf) = d.len
    <3>1. 0 \in Offsets /\ << >> \in Seq(0 .. 255)
      BY NextOffset DEF Parsing
    <3> HIDE DEF more
    <3>2. PICK g : g = CASE more.opCode = MemoryRead -> BegunReading(more)
                         [] more.opCode = MemoryWrite -> BegunWriting(more)
                         [] OTHER -> more
      OBVIOUS
    <3>3. g \in {BegunReading(more), BegunWriting(more), more}
      BY <3>2
    <3>4. /\ DOMAIN g = Fields /\ g.writeBuf = f.writeBuf
          /\ g.writeOff \in Offsets /\ g.readOff \in Offsets
      <4>1. more.writeOff \in Offsets /\ more.readOff \in Offsets
        BY <2>1 DEF Parsing
      <4>2. PICK a : a = AddressOf(more.buf)
        OBVIOUS
      <4>3. CASE g = BegunReading(more)
        <5>1. g = [more EXCEPT !.readAddr = a, !.readOff = 0, !.wait = TRUE]
          BY <4>2, <4>3 DEF BegunReading
        <5> QED
          BY <2>1, <3>1, <4>1, <5>1 DEF Fields
      <4>4. CASE g = BegunWriting(more)
        <5>1. g = [more EXCEPT !.writeAddr = a, !.writeOff = 0]
          BY <4>2, <4>4 DEF BegunWriting
        <5> QED
          BY <2>1, <3>1, <4>1, <5>1 DEF Fields
      <4>5. CASE g = more
        BY <2>1, <4>1, <4>5
      <4> QED
        BY <3>3, <4>3, <4>4, <4>5
    <3>5. Begun(more) = [g EXCEPT !.len = 0, !.opCode = 0, !.buf = << >>]
      BY <3>2 DEF Begun
    <3>6. Argument(d, val) = Begun(more)
      BY <2>3 DEF Argument, more
    <3>7. PICK b : b = [g EXCEPT !.len = 0, !.opCode = 0, !.buf = << >>]
      OBVIOUS
    <3>8. /\ DOMAIN b = Fields /\ b.len = 0 /\ b.buf = << >> /\ b.writeBuf = f.writeBuf
          /\ b.writeOff \in Offsets /\ b.readOff \in Offsets
      BY <3>4, <3>7 DEF Fields
    <3>9. Argument(d, val) = b
      BY <3>5, <3>6, <3>7
    <3>10. f.writeBuf \in [Offsets -> 0 .. 255]
      BY DEF Parsing
    <3>11. Parsing(b)
      BY <3>1, <3>8, <3>10 DEF Parsing
    <3> QED
      BY <3>9, <3>11
  <2>4. CASE Len(more.buf) # d.len
    <3>1. Argument(d, val) = more
      BY <2>4 DEF Argument
    <3>2. d.len = f.len
      BY DEF Parsing, Fields
    <3>3. Len(more.buf) < f.len
      BY <1>3, <2>1, <2>2, <2>4, <3>2 DEF Parsing
    <3> HIDE DEF more
    <3> QED
      BY <1>3, <2>1, <2>2, <3>1, <3>3 DEF Parsing
  <2> QED
    BY <2>3, <2>4
<1>4. ASSUME f.len = 0
      PROVE  Parsing(Opcode(d, val))
  <2>1. \A o \in DOMAIN Arguments : Arguments[o] \in {3, 7}
    BY DEF Arguments
  <2>2. << >> \in Seq(0 .. 255) /\ Len(<< >>) = 0
    OBVIOUS
  <2>3. \/ Opcode(d, val) \in {begun, [begun EXCEPT !.outputStatus = TRUE]}
        \/ /\ val \in DOMAIN Arguments
           /\ Opcode(d, val) = [begun EXCEPT !.opCode = val, !.len = Arguments[val]]
    BY DEF Opcode
  <2>4. Parsing(begun) /\ Parsing([begun EXCEPT !.outputStatus = TRUE])
    BY <1>4, <2>2 DEF Parsing, Fields
  <2>5. val \in DOMAIN Arguments => Parsing([begun EXCEPT !.opCode = val, !.len = Arguments[val]])
    BY <1>4, <2>1, <2>2 DEF Parsing, Fields
  <2> QED
    BY <2>3, <2>4, <2>5
<1>5. Write(f, val) \in {f, d, Buffered(d, val)}
        \/ (f.len # 0 /\ Write(f, val) = Argument(d, val))
        \/ (f.len = 0 /\ Write(f, val) = Opcode(d, val))
  BY DEF Write
<1> QED
  BY <1>1, <1>2, <1>3, <1>4, <1>5

LEMMA ReadParses ==
  ASSUME NEW f, Parsing(f)
  PROVE  Parsing(Read(f))
<1> DEFINE d == [f EXCEPT !.didWrite = FALSE]
<1>1. PICK o \in Offsets : o = (f.readOff + 1) % PageSize
  BY NextOffset DEF Parsing
<1>2. Read(f) \in {d, [d EXCEPT !.wait = FALSE], [d EXCEPT !.readOff = o]}
  BY <1>1 DEF Read, Parsing, Fields
<1>3. Parsing(d)
  BY DEF Parsing, Fields
<1> HIDE DEF d
<1>4. Parsing([d EXCEPT !.wait = FALSE])
  BY <1>3 DEF Parsing, Fields
<1>5. Parsing([d EXCEPT !.readOff = o])
  BY <1>3 DEF Parsing, Fields
<1> QED
  BY <1>2, <1>3, <1>4, <1>5

(* From power-up on, whatever is written to a chip, read from it or done   *)
(* to its chip select, and wherever a command is broken off: the bytes of  *)
(* a command stay in their buffer of eight, the data in the page buffer    *)
(* (SerialFlash::read, write, setCS). *)
THEOREM CommandsStayInTheirBuffer ==
  /\ Parsing(Deselected([i \in Offsets |-> 0]))
  /\ \A f : Parsing(f) =>
       /\ Len(f.buf) <= 7
       /\ Parsing(Read(f))
       /\ \A val \in 0 .. 255 : Parsing(Write(f, val))
       /\ \A cs \in BOOLEAN : Parsing(SetCS(f, cs))
<1>1. Parsing(Deselected([i \in Offsets |-> 0]))
  <2>1. [i \in Offsets |-> 0] \in [Offsets -> 0 .. 255]
    OBVIOUS
  <2>2. 0 \in Offsets
    BY NextOffset, FlashAssumption DEF Offsets
  <2> QED
    BY <2>1, <2>2 DEF Parsing, Deselected, Fields
<1>2. ASSUME NEW f, Parsing(f), NEW cs \in BOOLEAN
      PROVE  Parsing(SetCS(f, cs))
  BY <1>2 DEF Parsing, SetCS, Fields
<1>3. ASSUME NEW f, Parsing(f)
      PROVE  Len(f.buf) <= 7
  BY <1>3 DEF Parsing
<1> QED
  BY <1>1, <1>2, <1>3, WriteParses, ReadParses

(* What comes back after a command is its answer, from its first byte on.  *)
THEOREM AnswersAreRight == Spec => []AnswersFollowCommands
<1>1. IInv => AnswersFollowCommands
  BY DEF IInv
<1> QED
  BY <1>1, Invariance, PTL

-----------------------------------------------------------------------------
(* What the steps do to the memories and the buffers. *)

TransferStep == SendCommand \/ SendData \/ Fetch

LEMMA TransferKeepsMemory ==
  ASSUME IInv, TransferStep
  PROVE  mem' = mem /\ job # NoJob /\ job' # NoJob
<1>1. mem' = mem /\ job # NoJob
  BY DEF TransferStep, SendCommand, SendData, Fetch, Transfer
<1>2. DOMAIN job = JobFields
  BY <1>1 DEF IInv, JobOK
<1>3. DOMAIN job' = JobFields
  BY <1>2 DEF TransferStep, SendCommand, SendData, Fetch, Transfer
<1>4. "chip" \in DOMAIN job' /\ "chip" \notin DOMAIN NoJob
  BY <1>3 DEF JobFields, NoJob
<1> QED
  BY <1>1, <1>4

(* The end of an operation changes the page it was to program, to what the *)
(* buffer held with the bytes sent laid over it, and nothing else ever     *)
(* changes any page of any chip. *)
THEOREM ProgramsOnePage == Spec => OnlyPageProgrammed
<1> DEFINE Kept ==
      \A c \in Names, p \in Pages :
        PageOf(mem'[c], p) =
          IF /\ job # NoJob /\ job' = NoJob /\ job.op = "program"
             /\ c = job.chip /\ p = job.page
          THEN Overlaid(job.before, DataSent)
          ELSE PageOf(mem[c], p)
<1>1. IInv /\ [Next]_vars => [Kept]_vars
  <2> SUFFICES ASSUME IInv, Next
               PROVE  Kept
    OBVIOUS
  <2>1. CASE Select
    <3>1. mem' = mem /\ job = NoJob
      BY <2>1, SelectKeeps DEF Select
    <3> QED
      BY <3>1
  <2>2. CASE TransferStep
    BY <2>2, TransferKeepsMemory
  <2>3. CASE Deselect
    <3>1. job # NoJob /\ job' = NoJob
      BY <2>3 DEF Deselect
    <3>2. CASE job.op # "program"
      <4>1. mem' = mem
        BY <2>3, <3>2, DeselectPrograms
      <4> QED
        BY <3>2, <4>1
    <3>3. CASE job.op = "program"
      <4>1. flash[job.chip].writeBuf = Overlaid(job.before, DataSent)
        BY <2>3, <3>3 DEF Deselect, IInv, Operating
      <4>2. \A c \in Names, p \in Pages :
              PageOf(mem'[c], p) = IF c = job.chip /\ p = job.page
                                   THEN flash[c].writeBuf ELSE PageOf(mem[c], p)
        BY <2>3, <3>3, DeselectPrograms
      <4> QED
        BY <3>1, <3>3, <4>1, <4>2
    <3> QED
      BY <3>2, <3>3
  <2> QED
    BY <2>1, <2>2, <2>3 DEF Next, TransferStep
<1> QED
  BY <1>1, Invariance, PTL DEF Spec, OnlyPageProgrammed

(* The refinement: the pages of a store are those of the memories, its     *)
(* buffers those of the chips. *)
PagesOf == [c \in Names |-> [p \in Pages |-> PageOf(mem[c], p)]]
Buffers == [c \in Names |-> flash[c].writeBuf]

LEMMA StoreInit == Init => Store!Init
<1> SUFFICES ASSUME Init
             PROVE  Store!Init
  OBVIOUS
<1>1. \A c \in Names : mem[c] \in [Addresses -> Byte]
  BY BusAssumption DEF Init
<1>2. \A c \in Names : flash[c].writeBuf \in [Offsets -> Byte]
  BY BytesAreNumbers DEF Init, Deselected
<1>3. \A c \in Names, p \in Pages : PageOf(mem[c], p) \in [Offsets -> Byte]
  BY <1>1, InPage DEF PageOf
<1> QED
  BY <1>2, <1>3 DEF Store!Init, Store!Page

(* The buffers of all chips after a step that changes one chip's.          *)
LEMMA BufferAfter ==
  ASSUME NEW c \in Names, \A x \in Names : x # c => flash'[x] = flash[x]
  PROVE  Buffers' = [Buffers EXCEPT ![c] = flash'[c].writeBuf]
BY DEF Buffers

LEMMA StoreStep == IInv /\ [Next]_vars => [Store!Next]_<<PagesOf, Buffers>>
<1> SUFFICES ASSUME IInv, [Next]_vars
             PROVE  [Store!Next]_<<PagesOf, Buffers>>
  OBVIOUS
<1>1. CASE Select
  <2>1. PICK c \in Names : flash' = [flash EXCEPT ![c] = SetCS(@, FALSE)]
    BY <1>1 DEF Select, ChipSelect
  <2>2. mem' = mem
    BY <1>1, SelectKeeps
  <2>3. Settled(flash[c]) /\ flash = [x \in Names |-> flash[x]]
    BY DEF IInv, Shapes
  <2>4. flash'[c] = SetCS(flash[c], FALSE)
    BY <2>1, <2>3
  <2>5. flash'[c].writeBuf = flash[c].writeBuf
    BY <2>3, <2>4, Selects DEF SameBuffer
  <2>6. Buffers' = Buffers
    BY <2>1, <2>3, <2>5 DEF Buffers
  <2> QED
    BY <2>2, <2>6 DEF PagesOf
<1>2. ASSUME NEW val \in Nat, job # NoJob, Transfer(val)
      PROVE  /\ PagesOf' = PagesOf
             /\ Buffers' = [Buffers EXCEPT ![job.chip] =
                              Exchanged(flash[job.chip], val).writeBuf]
  <2>1. /\ mem' = mem /\ job.chip \in Names
        /\ flash'[job.chip] = Exchanged(flash[job.chip], val)
        /\ \A x \in Names : x # job.chip => flash'[x] = flash[x]
    BY <1>2, TransferDoes DEF Transferred, IInv, JobOK
  <2> QED
    BY <2>1, BufferAfter DEF PagesOf
<1>3. ASSUME SendCommand \/ Fetch
      PROVE  UNCHANGED <<PagesOf, Buffers>>
  <2> DEFINE f == flash[job.chip]
  <2>1. PICK val \in Nat : Transfer(val)
    <3>1. CASE SendCommand
      <4>1. job.command[Len(job.sent) + 1] \in Nat
        <5>1. job.command \in Seq(Nat) /\ job.sent \in Seq(Nat)
          BY <3>1, CommandBytes DEF SendCommand, IInv, JobOK, CommandIs
        <5> QED
          BY <3>1, <5>1 DEF SendCommand, Commanding
      <4> QED
        BY <3>1, <4>1 DEF SendCommand
    <3>2. CASE Fetch
      BY <3>2 DEF Fetch, Idle
    <3> QED
      BY <1>3, <3>1, <3>2
  <2>2. job # NoJob /\ job.chip \in Names
    BY <1>3 DEF SendCommand, Fetch, IInv, JobOK
  <2>3. Exchanged(f, val).writeBuf = f.writeBuf
    <3>1. Write(f, val).writeBuf = f.writeBuf /\ DOMAIN Write(f, val) = Fields
      <4>1. Settled(f) /\ f.writeAddr = None
        <5>1. CASE SendCommand
          BY <2>2, <5>1 DEF SendCommand, IInv, Shapes, Told, NoOperation
        <5>2. CASE Fetch
          BY <2>2, <5>2 DEF Fetch, IInv, Shapes, Operating
        <5> QED
          BY <1>3, <5>1, <5>2
      <4> DEFINE d == [f EXCEPT !.didWrite = TRUE]
      <4>2. d.writeBuf = f.writeBuf /\ DOMAIN d = Fields
        BY <4>1 DEF Settled, Fields
      <4> HIDE DEF d, f
      <4>3. Argument(d, val).writeBuf = f.writeBuf /\ DOMAIN Argument(d, val) = Fields
        BY <4>2 DEF Fields, Argument, Begun, BegunReading, BegunWriting
      <4>4. Opcode(d, val).writeBuf = f.writeBuf /\ DOMAIN Opcode(d, val) = Fields
        BY <4>2 DEF Fields, Opcode
      <4>5. DOMAIN f = Fields
        BY <4>1 DEF Settled
      <4>6. Write(f, val) \in {f, d, Argument(d, val), Opcode(d, val)}
        BY <4>1 DEF Write, d
      <4> QED
        BY <4>2, <4>3, <4>4, <4>5, <4>6
    <3>2. \A w : DOMAIN w = Fields => Read(w).writeBuf = w.writeBuf
      BY DEF Read, Fields
    <3> QED
      BY <3>1, <3>2 DEF Exchanged
  <2>4. Buffers' = [Buffers EXCEPT ![job.chip] = Buffers[job.chip]] /\ PagesOf' = PagesOf
    BY <1>2, <2>1, <2>2, <2>3 DEF Buffers
  <2> QED
    BY <2>2, <2>4 DEF Buffers
<1>4. CASE SendData
  <2> DEFINE f == flash[job.chip]
  <2>1. PICK b \in Byte : Transfer(b)
    BY <1>4 DEF SendData
  <2>2. /\ job # NoJob /\ ~Commanding /\ job.op = "program" /\ b \in Nat
        /\ job.chip \in Names /\ f.writeOff \in Offsets /\ Settled(f)
    BY <1>4, BytesAreNumbers DEF SendData, IInv, JobOK, Shapes
  <2>3. Exchanged(f, b).writeBuf = [f.writeBuf EXCEPT ![f.writeOff] = b]
    <3>1. /\ ~f.cs /\ NoCommand(f) /\ ~f.outputStatus
          /\ f.readAddr = None
          /\ f.writeAddr = job.page * PageSize + job.off
      BY <2>2 DEF IInv, Operating
    <3>2. f.writeAddr # None
      BY <2>2, <3>1, InPage DEF IInv, JobOK, Addresses, None
    <3> QED
      BY <2>2, <3>1, <3>2, GetsData
  <2>4. /\ Buffers' = [Buffers EXCEPT ![job.chip][f.writeOff] = b]
        /\ PagesOf' = PagesOf
    BY <1>2, <2>1, <2>2, <2>3 DEF Buffers
  <2>5. Store!Load(job.chip, f.writeOff, b)
    BY <2>4 DEF Store!Load, PagesOf, Buffers
  <2> QED
    BY <2>1, <2>2, <2>5 DEF Store!Next
<1>5. CASE Deselect
  <2> DEFINE c == job.chip
  <2>1. /\ c \in Names /\ job.page \in Pages
        /\ flash' = [flash EXCEPT ![c] = SetCS(@, TRUE)]
        /\ flash = [x \in Names |-> flash[x]]
        /\ Settled(flash[c]) /\ ~flash[c].cs
    BY <1>5 DEF Deselect, ChipSelect, IInv, JobOK, Shapes, Operating
  <2>2. flash'[c] = SetCS(flash[c], TRUE)
    BY <2>1
  <2>3. flash'[c].writeBuf = flash[c].writeBuf
    BY <2>1, <2>2, Deselects DEF SameBuffer
  <2>4. Buffers' = Buffers
    BY <2>1, <2>3 DEF Buffers
  <2>5. CASE job.op # "program"
    <3>1. mem' = mem
      BY <1>5, <2>5, DeselectPrograms
    <3> QED
      BY <2>4, <3>1 DEF PagesOf
  <2>6. CASE job.op = "program"
    <3>1. \A x \in Names, p \in Pages :
            PageOf(mem'[x], p) = IF x = c /\ p = job.page
                                 THEN Buffers[c] ELSE PageOf(mem[x], p)
      BY <1>5, <2>6, DeselectPrograms DEF Buffers
    <3>2. PagesOf' = [PagesOf EXCEPT ![c][job.page] = Buffers[c]]
      <4>1. PICK k, b : k = job.page /\ b = Buffers[c]
        OBVIOUS
      <4>2. PagesOf' = [x \in Names |-> [p \in Pages |->
                          IF x = c /\ p = k THEN b ELSE PageOf(mem[x], p)]]
        BY <3>1, <4>1 DEF PagesOf
      <4>3. PagesOf = [x \in Names |-> [p \in Pages |-> PageOf(mem[x], p)]]
        BY DEF PagesOf
      <4> QED
        BY <2>1, <4>1, <4>2, <4>3
    <3>3. Store!Program(c, job.page)
      BY <2>4, <3>2 DEF Store!Program, PagesOf, Buffers
    <3> QED
      BY <2>1, <3>3 DEF Store!Next
  <2> QED
    BY <2>5, <2>6
<1>6. CASE UNCHANGED vars
  BY <1>6 DEF vars, PagesOf, Buffers
<1> QED
  BY <1>1, <1>3, <1>4, <1>5, <1>6 DEF Next

(* A flash chip is a page store: whatever the firmware does, and however   *)
(* many chips share the port, each byte goes into one place of one buffer, *)
(* and a page only ever becomes what the buffer of its chip holds.         *)
THEOREM ChipsArePageStores == Spec => ImplementsPageStore
<1>1. Init => Store!Init
  BY StoreInit
<1>2. IInv /\ [Next]_vars => [Store!Next]_<<PagesOf, Buffers>>
  BY StoreStep
<1> QED
  BY <1>1, <1>2, Invariance, PTL DEF Spec, ImplementsPageStore, Store!Spec, PagesOf, Buffers
=============================================================================
