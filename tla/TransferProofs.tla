--------------------------- MODULE TransferProofs ---------------------------
(***************************************************************************)
(* Sending a file, for every size of chunk and every number of faults:     *)
(* what the device has is the beginning of the file, and a program that    *)
(* says the file was sent is right.  usbcon -s is the exception that the   *)
(* theorems name: the number in a CyOS packet counts chunks only up to     *)
(* IndexWrap, and no chunk but the first can be sent again.                *)
(***************************************************************************)
EXTENDS TransferSystem, SequenceTheorems, WellFoundedInduction, TLAPS

(* A set of numbers that is not empty has a least element: being less is
   well-founded. *)
LEMMA LeastNumber ==
  ASSUME NEW S \in SUBSET Nat, S # {}
  PROVE  \E m \in S : \A k \in S : m <= k
<1> DEFINE Below == {p \in Nat \X Nat : p[1] < p[2]}
<1>1. IsWellFoundedOn(Below, Nat)
  BY NatLessThanWellFounded, Zenon DEF OpToRel
<1>2. \A k, m \in Nat : k < m => <<k, m>> \in Below
  OBVIOUS
<1> HIDE DEF Below
<1>3. \E m \in S : \A k \in S : <<k, m>> \notin Below
  BY <1>1, WFMin
<1>4. \A k, m \in S : <<k, m>> \notin Below => m <= k
  <2>1. \A k, m \in S : k \in Nat /\ m \in Nat
    OBVIOUS
  <2>2. \A k, m \in Nat : ~(k < m) => m <= k
    OBVIOUS
  <2> QED
    BY <1>2, <2>1, <2>2, Zenon
<1> QED
  BY <1>3, <1>4

-----------------------------------------------------------------------------
(* Queues of messages. *)

Kinds == {"two", "ready", "prepare", "send", "done", "other", "empty", "reboot", "rcv",
          "chunk", "nothing", "hello", "info", "params", "request", "finished", "init",
          "ask", "command", "request2", "output", "prompt", "end"}

Messages == [type : Kinds, n : Int, data : Seq(Int)]

Contents(q) == {q[i] : i \in 1 .. Len(q)}

Some(q, type) == \E m \in Contents(q) : m.type = type

(* What is left of r when messages are taken from its front.               *)
IsRest(q, r) ==
  /\ Len(q) <= Len(r)
  /\ \A i \in 1 .. Len(q) : q[i] = r[i + (Len(r) - Len(q))]

(* No message of T comes after one of S. *)
NoneAfter(q, S, T) ==
  \A i, j \in 1 .. Len(q) : i < j /\ q[i] \in S => q[j] \notin T

LEMMA TailIsRest ==
  ASSUME NEW M, NEW q \in Seq(M), q # << >>
  PROVE  Tail(q) \in Seq(M) /\ IsRest(Tail(q), q) /\ Head(q) \in Contents(q) /\ Head(q) \in M
BY HeadTailProperties DEF IsRest, Contents

LEMMA SubSeqIsRest ==
  ASSUME NEW M, NEW q \in Seq(M), NEW k \in 1 .. Len(q)
  PROVE  /\ SubSeq(q, k + 1, Len(q)) \in Seq(M) /\ IsRest(SubSeq(q, k + 1, Len(q)), q)
         /\ q[k] \in Contents(q) /\ q[k] \in M
<1> DEFINE r == SubSeq(q, k + 1, Len(q))
<1>1. /\ r \in Seq(M)
      /\ Len(r) = Len(q) - k
      /\ \A i \in 1 .. Len(q) - k : r[i] = q[k + i]
  OBVIOUS
<1>2. q[k] \in Contents(q) /\ q[k] \in M
  BY DEF Contents
<1> HIDE DEF r
<1>3. Len(q) - Len(r) = k /\ \A i \in 1 .. Len(r) : r[i] = q[i + k]
  BY <1>1
<1>4. IsRest(r, q)
  BY <1>1, <1>3 DEF IsRest
<1> QED
  BY <1>1, <1>2, <1>4 DEF r

LEMMA EmptyIsRest ==
  ASSUME NEW M, NEW q \in Seq(M)
  PROVE  << >> \in Seq(M) /\ IsRest(<< >>, q) /\ Contents(<< >>) = {}
BY DEF IsRest, Contents

LEMMA RestKeeps ==
  ASSUME NEW M, NEW q \in Seq(M), NEW r \in Seq(M), IsRest(q, r)
  PROVE  /\ Contents(q) \subseteq Contents(r)
         /\ \A S, T : NoneAfter(r, S, T) => NoneAfter(q, S, T)
<1> DEFINE d == Len(r) - Len(q)
<1>1. d \in Nat /\ \A i \in 1 .. Len(q) : i + d \in 1 .. Len(r) /\ q[i] = r[i + d]
  BY DEF IsRest
<1> HIDE DEF d
<1>2. Contents(q) \subseteq Contents(r)
  BY <1>1 DEF Contents
<1>3. ASSUME NEW S, NEW T, NoneAfter(r, S, T)
      PROVE  NoneAfter(q, S, T)
  <2> SUFFICES ASSUME NEW i \in 1 .. Len(q), NEW j \in 1 .. Len(q), i < j, q[i] \in S
               PROVE  q[j] \notin T
    BY DEF NoneAfter
  <2>1. /\ i + d \in 1 .. Len(r) /\ q[i] = r[i + d]
        /\ j + d \in 1 .. Len(r) /\ q[j] = r[j + d]
        /\ i + d < j + d
    BY <1>1
  <2> QED
    BY <1>3, <2>1 DEF NoneAfter
<1> QED
  BY <1>2, <1>3

(* After one of S is taken, none of T is left. *)
LEMMA TakenFirst ==
  ASSUME NEW M, NEW q \in Seq(M), NEW k \in 1 .. Len(q), NEW S, NEW T,
         NoneAfter(q, S, T), q[k] \in S
  PROVE  Contents(SubSeq(q, k + 1, Len(q))) \cap T = {}
<1>1. /\ Len(SubSeq(q, k + 1, Len(q))) = Len(q) - k
      /\ \A i \in 1 .. Len(q) - k : SubSeq(q, k + 1, Len(q))[i] = q[k + i]
  OBVIOUS
<1>2. \A i \in 1 .. Len(q) - k : k + i \in 1 .. Len(q) /\ k < k + i
  OBVIOUS
<1> QED
  BY <1>1, <1>2 DEF NoneAfter, Contents

LEMMA HeadTaken ==
  ASSUME NEW M, NEW q \in Seq(M), q # << >>, NEW S, NEW T,
         NoneAfter(q, S, T), Head(q) \in S
  PROVE  Contents(Tail(q)) \cap T = {}
<1>1. 1 \in 1 .. Len(q) /\ q[1] = Head(q) /\ Tail(q) = SubSeq(q, 1 + 1, Len(q))
  OBVIOUS
<1> QED
  BY <1>1, TakenFirst

LEMMA Added ==
  ASSUME NEW M, NEW q \in Seq(M), NEW m \in M
  PROVE  /\ Append(q, m) \in Seq(M) /\ q \o <<m>> \in Seq(M)
         /\ q \o <<m>> = Append(q, m)
         /\ Contents(Append(q, m)) = Contents(q) \cup {m}
         /\ Append(q, m) # << >>
<1>1. /\ Append(q, m) \in Seq(M) /\ q \o <<m>> \in Seq(M)
      /\ q \o <<m>> = Append(q, m) /\ Append(q, m) # << >>
  OBVIOUS
<1>2. /\ Len(Append(q, m)) = Len(q) + 1
      /\ \A i \in 1 .. Len(q) : Append(q, m)[i] = q[i]
      /\ Append(q, m)[Len(q) + 1] = m
  OBVIOUS
<1>3. \A i \in 1 .. Len(q) + 1 : i \in 1 .. Len(q) \/ i = Len(q) + 1
  OBVIOUS
<1>4. 1 .. Len(q) \subseteq 1 .. Len(q) + 1 /\ Len(q) + 1 \in 1 .. Len(q) + 1
  OBVIOUS
<1>5. Contents(Append(q, m)) = Contents(q) \cup {m}
  BY <1>2, <1>3, <1>4 DEF Contents
<1> QED
  BY <1>1, <1>5

LEMMA AddedInOrder ==
  ASSUME NEW M, NEW q \in Seq(M), NEW m \in M, NEW S, NEW T, NoneAfter(q, S, T),
         m \in T => Contents(q) \cap S = {}
  PROVE  NoneAfter(Append(q, m), S, T)
<1>1. /\ Len(Append(q, m)) = Len(q) + 1
      /\ \A i \in 1 .. Len(q) : Append(q, m)[i] = q[i]
      /\ Append(q, m)[Len(q) + 1] = m
  OBVIOUS
<1> SUFFICES ASSUME NEW i \in 1 .. Len(q) + 1, NEW j \in 1 .. Len(q) + 1, i < j,
                    Append(q, m)[i] \in S
             PROVE  Append(q, m)[j] \notin T
  BY <1>1 DEF NoneAfter
<1>2. i \in 1 .. Len(q)
  OBVIOUS
<1>3. CASE j \in 1 .. Len(q)
  BY <1>1, <1>2, <1>3 DEF NoneAfter
<1>4. CASE j = Len(q) + 1
  BY <1>1, <1>2, <1>4 DEF Contents
<1> QED
  BY <1>3, <1>4

LEMMA NoneInOrder ==
  ASSUME NEW q, NEW S, NEW T, Contents(q) \cap S = {} \/ Contents(q) \cap T = {}
  PROVE  NoneAfter(q, S, T)
BY DEF NoneAfter, Contents

(* The first of a queue becomes another message, or is put before it.      *)
LEMMA Replaced ==
  ASSUME NEW M, NEW q \in Seq(M), q # << >>, NEW m \in M
  PROVE  /\ <<m>> \o Tail(q) \in Seq(M)
         /\ Contents(<<m>> \o Tail(q)) \subseteq {m} \cup Contents(q)
         /\ \A S, T : NoneAfter(q, S, T) /\ m \notin S => NoneAfter(<<m>> \o Tail(q), S, T)
<1> DEFINE r == <<m>> \o Tail(q)
<1>1. /\ r \in Seq(M) /\ Len(r) = Len(q) /\ r[1] = m
      /\ \A i \in 2 .. Len(q) : r[i] = q[i]
  OBVIOUS
<1> HIDE DEF r
<1>2. \A i \in 1 .. Len(q) : i = 1 \/ i \in 2 .. Len(q)
  OBVIOUS
<1>3. Contents(r) \subseteq {m} \cup Contents(q)
  BY <1>1, <1>2 DEF Contents
<1>4. ASSUME NEW S, NEW T, NoneAfter(q, S, T), m \notin S
      PROVE  NoneAfter(r, S, T)
  <2> SUFFICES ASSUME NEW i \in 1 .. Len(q), NEW j \in 1 .. Len(q), i < j, r[i] \in S
               PROVE  r[j] \notin T
    BY <1>1 DEF NoneAfter
  <2>1. i # 1
    BY <1>1, <1>4
  <2>2. i \in 2 .. Len(q) /\ j \in 2 .. Len(q)
    BY <2>1
  <2> QED
    BY <1>1, <1>4, <2>2 DEF NoneAfter
<1> QED
  BY <1>1, <1>3, <1>4 DEF r

-----------------------------------------------------------------------------
(* Beginnings of the file. *)

LEMMA Products ==
  ASSUME NEW k \in Nat, NEW c \in Nat
  PROVE  k * c \in Nat /\ (k + 1) * c = k * c + c
OBVIOUS

LEMMA MoreOf ==
  ASSUME NEW k \in Nat, NEW l \in Nat, NEW c \in Nat, k <= l
  PROVE  k * c <= l * c
<1>1. PICK d \in Nat : l = k + d
  <2>1. l - k \in Nat /\ l = k + (l - k)
    OBVIOUS
  <2> QED
    BY <2>1
<1>2. l * c = k * c + d * c /\ k * c \in Nat /\ d * c \in Nat
  BY <1>1
<1> QED
  BY <1>2

(* The first a of s, and from there up to the first b. *)
First(s, a) == SubSeq(s, 1, Smaller(a, Len(s)))

Piece(s, a, b) == SubSeq(s, a + 1, Smaller(b, Len(s)))

LEMMA FirstLength ==
  ASSUME NEW M, NEW s \in Seq(M), NEW a \in Nat
  PROVE  Len(First(s, a)) = Smaller(a, Len(s)) /\ (a >= Len(s) => First(s, a) = s)
<1>1. CASE Len(s) <= a
  BY <1>1 DEF First, Smaller
<1>2. CASE a < Len(s)
  BY <1>2 DEF First, Smaller
<1> QED
  BY <1>1, <1>2

LEMMA FirstPiece ==
  ASSUME NEW M, NEW s \in Seq(M), NEW a \in Nat, NEW b \in Nat, a <= b
  PROVE  First(s, a) \o Piece(s, a, b) = First(s, b)
<1>1. CASE Len(s) <= a
  <2>1. Smaller(a, Len(s)) = Len(s) /\ Smaller(b, Len(s)) = Len(s)
    BY <1>1 DEF Smaller
  <2>2. SubSeq(s, a + 1, Len(s)) = << >>
    BY <1>1
  <2>3. SubSeq(s, 1, Len(s)) = s /\ s \o << >> = s
    OBVIOUS
  <2> QED
    BY <2>1, <2>2, <2>3 DEF First, Piece
<1>2. CASE a < Len(s)
  <2>1. PICK e \in Nat : e = Smaller(b, Len(s))
    BY DEF Smaller
  <2>2. a <= e /\ e <= Len(s) /\ Smaller(a, Len(s)) = a
    BY <1>2, <2>1 DEF Smaller
  <2>3. /\ SubSeq(s, 1, a) \in Seq(M) /\ Len(SubSeq(s, 1, a)) = a
        /\ \A i \in 1 .. a : SubSeq(s, 1, a)[i] = s[i]
    BY <2>2
  <2>4. /\ SubSeq(s, a + 1, e) \in Seq(M) /\ Len(SubSeq(s, a + 1, e)) = e - a
        /\ \A i \in 1 .. e - a : SubSeq(s, a + 1, e)[i] = s[a + i]
    BY <2>2
  <2>5. /\ SubSeq(s, 1, e) \in Seq(M) /\ Len(SubSeq(s, 1, e)) = e
        /\ \A i \in 1 .. e : SubSeq(s, 1, e)[i] = s[i]
    BY <2>2
  <2>6. PICK x \in Seq(M) : x = SubSeq(s, 1, a)
    BY <2>3
  <2>7. PICK y \in Seq(M) : y = SubSeq(s, a + 1, e)
    BY <2>4
  <2>8. /\ x \o y \in Seq(M) /\ Len(x \o y) = a + (e - a)
        /\ \A i \in 1 .. e : (x \o y)[i] = IF i <= a THEN x[i] ELSE y[i - a]
    BY <2>2, <2>3, <2>4, <2>6, <2>7
  <2>9. \A i \in 1 .. e : (x \o y)[i] = s[i]
    <3> SUFFICES ASSUME NEW i \in 1 .. e
                 PROVE  (x \o y)[i] = s[i]
      OBVIOUS
    <3>1. CASE i <= a
      BY <2>3, <2>6, <2>8, <3>1
    <3>2. CASE ~(i <= a)
      <4>1. i - a \in 1 .. e - a /\ a + (i - a) = i
        BY <3>2
      <4>2. y[i - a] = s[a + (i - a)]
        BY <2>4, <2>7, <4>1
      <4> QED
        BY <2>8, <3>2, <4>1, <4>2
    <3> QED
      BY <3>1, <3>2
  <2>10. PICK z \in Seq(M) : z = x \o y
    BY <2>8
  <2>11. PICK w \in Seq(M) : w = SubSeq(s, 1, e)
    BY <2>5
  <2>12. Len(z) = e /\ Len(w) = e /\ \A i \in 1 .. e : z[i] = w[i]
    BY <2>2, <2>5, <2>8, <2>9, <2>10, <2>11
  <2>13. z = w
    BY <2>12, SeqEqual
  <2>14. First(s, a) = x /\ Piece(s, a, b) = y /\ First(s, b) = w
    BY <2>1, <2>2, <2>6, <2>7, <2>11 DEF First, Piece
  <2> QED
    BY <2>10, <2>13, <2>14
<1> QED
  BY <1>1, <1>2

LEMMA PieceIsSeq ==
  ASSUME NEW M, NEW s \in Seq(M), NEW a \in Nat, NEW b \in Nat
  PROVE  Piece(s, a, b) \in Seq(M)
<1>1. CASE Smaller(b, Len(s)) < a + 1
  BY <1>1 DEF Piece, Smaller
<1>2. CASE ~(Smaller(b, Len(s)) < a + 1)
  BY <1>2 DEF Piece, Smaller
<1> QED
  BY <1>1, <1>2

(* What the device is sent, in pieces, and how much of it it has. *)
PieceSize == IF program = "usbconBoot" THEN BootChunkSize ELSE ChunkSize

Total == IF program = "usbconBoot" THEN ImageSize ELSE size

Begun == dev.got = First(Wanted, dev.want * PieceSize)

Enough == dev.want * PieceSize >= Total

NextPiece == Piece(Wanted, dev.want * PieceSize, (dev.want + 1) * PieceSize)

Programming == {"serconSend", "serconBoot", "BootSerial", "usbconSend", "usbconBoot"}

HostFields == {"pc", "pos", "sendNo", "recvNo", "done", "prepared"}

DevFields == {"mode", "got", "want", "total", "asked", "pending", "commands", "outputs", "told"}

Shapes ==
  /\ program \in Programming /\ size \in Nat
  /\ up \in Seq(Messages) /\ down \in Seq(Messages)
  /\ DOMAIN host = HostFields /\ DOMAIN dev = DevFields
  /\ host.pos \in Nat /\ host.sendNo \in Nat /\ host.recvNo \in Nat
  /\ dev.want \in Nat /\ dev.pending \in Int /\ dev.commands \in Nat /\ dev.outputs \in Nat

LEMMA WantedIs ==
  ASSUME Shapes
  PROVE  /\ File \in Seq(Int) /\ Len(File) = size
         /\ Wanted \in Seq(Int) /\ Len(Wanted) = Total
         /\ Total \in Nat /\ PieceSize \in Nat \ {0}
<1>1. size \in Nat
  BY DEF Shapes
<1>2. File \in Seq(Int) /\ Len(File) = size
  BY <1>1 DEF File
<1>3. Header \in Seq(Int) /\ Len(Header) = HeaderSize /\ HeaderSize \in Nat
  BY DEF Header, HeaderSize
<1>4. PICK b : b = [i \in 1 .. size |-> -File[i]]
  OBVIOUS
<1>5. b \in Seq(Int) /\ Len(b) = size
  <2>1. \A i \in 1 .. size : File[i] = i
    BY <1>1 DEF File
  <2>2. \A i \in 1 .. size : -File[i] \in Int
    BY <1>1, <2>1
  <2>3. b \in [1 .. size -> Int]
    BY <1>4, <2>2
  <2> QED
    BY <1>1, <2>3
<1>6. Encoded = Header \o b
  BY <1>4 DEF Encoded
<1> HIDE DEF Header
<1>7. PICK h \in Seq(Int) : h = Header /\ Len(h) = HeaderSize
  BY <1>3
<1>8. h \o b \in Seq(Int) /\ Len(h \o b) = Len(h) + Len(b)
  BY <1>5, ConcatProperties
<1>9. Encoded \in Seq(Int) /\ Len(Encoded) = ImageSize /\ ImageSize \in Nat
  BY <1>1, <1>3, <1>5, <1>6, <1>7, <1>8 DEF ImageSize
<1>10. BootChunkSize \in Nat \ {0} /\ ChunkSize \in Nat \ {0}
  BY ChunkAssumption DEF BootChunkSize
<1> QED
  BY <1>1, <1>2, <1>9, <1>10 DEF Wanted, Total, PieceSize

LEMMA HasPiece ==
  ASSUME Shapes
  PROVE  /\ dev.want * PieceSize \in Nat
         /\ (dev.want + 1) * PieceSize = dev.want * PieceSize + PieceSize
  BY WantedIs, Products DEF Shapes

LEMMA NextIsSeq ==
  ASSUME Shapes
  PROVE  NextPiece \in Seq(Int)
<1>1. PICK a \in Nat : a = dev.want * PieceSize
  BY HasPiece
<1>2. PICK b \in Nat : b = (dev.want + 1) * PieceSize
  BY HasPiece, WantedIs
<1>3. PICK w \in Seq(Int) : w = Wanted
  BY WantedIs
<1> QED
  BY <1>1, <1>2, <1>3, PieceIsSeq DEF NextPiece

(* The next piece makes a longer beginning, and is enough if that is as    *)
(* long as the file. *)
LEMMA PieceStored ==
  ASSUME Shapes, Begun, UNCHANGED <<program, size>>,
         dev'.got = dev.got \o NextPiece, dev'.want = dev.want + 1
  PROVE  /\ Begun'
         /\ Enough => Enough'
         /\ Len(dev'.got) >= Total => Enough'
<1>1. Wanted' = Wanted /\ Total' = Total /\ PieceSize' = PieceSize
  BY DEF Wanted, Total, PieceSize, Encoded, File, ImageSize, BootChunkSize
<1>2. PICK a \in Nat : a = dev.want * PieceSize
  BY HasPiece
<1>3. PICK b \in Nat : b = (dev.want + 1) * PieceSize /\ a <= b
  BY <1>2, HasPiece, WantedIs
<1>4. PICK w \in Seq(Int) : w = Wanted /\ Len(w) = Total
  BY WantedIs
<1>5. First(w, a) \o Piece(w, a, b) = First(w, b) /\ Len(First(w, b)) = Smaller(b, Len(w))
  BY <1>3, FirstPiece, FirstLength
<1>6. dev'.got = First(w, b)
  BY <1>2, <1>3, <1>4, <1>5 DEF Begun, NextPiece
<1>7. Begun'
  BY <1>1, <1>3, <1>4, <1>6 DEF Begun
<1>8. Enough => Enough'
  BY <1>1, <1>2, <1>3, <1>4 DEF Enough
<1>9. Len(dev'.got) >= Total => Enough'
  BY <1>1, <1>3, <1>4, <1>5, <1>6 DEF Enough, Smaller
<1> QED
  BY <1>7, <1>8, <1>9

LEMMA NothingStored ==
  ASSUME UNCHANGED <<program, size>>, dev'.got = dev.got, dev'.want = dev.want
  PROVE  (Begun => Begun') /\ Enough' = Enough
BY DEF Begun, Enough, Wanted, Total, PieceSize, Encoded, File, ImageSize, BootChunkSize

(* A device that has enough has the file, and no other. *)
LEMMA EnoughIsAll ==
  ASSUME Shapes, Begun
  PROVE  FileIntact /\ (Enough => dev.got = Wanted)
<1>1. PICK a \in Nat : a = dev.want * PieceSize
  BY HasPiece
<1>2. PICK w \in Seq(Int) : w = Wanted /\ Len(w) = Total
  BY WantedIs
<1>3. dev.got = First(w, a) /\ Len(dev.got) = Smaller(a, Len(w))
  BY <1>1, <1>2, FirstLength DEF Begun
<1>4. FileIntact
  BY <1>2, <1>3 DEF FileIntact, First
<1>5. Enough => dev.got = Wanted
  BY <1>1, <1>2, <1>3, FirstLength DEF Enough
<1> QED
  BY <1>4, <1>5

-----------------------------------------------------------------------------
(* Messages. *)

LEMMA IsMessage ==
  ASSUME NEW type \in Kinds, NEW n \in Int, NEW data \in Seq(Int)
  PROVE  /\ Message(type, n, data) \in Messages
         /\ Message(type, n, data).type = type /\ Message(type, n, data).n = n
         /\ Message(type, n, data).data = data
BY DEF Message, Messages

LEMMA IsPlain ==
  ASSUME NEW type \in Kinds
  PROVE  Plain(type) \in Messages /\ Plain(type).type = type /\ Plain(type).n = 0
BY DEF Plain, Message, Messages

LEMMA IsNumbered ==
  ASSUME NEW type \in Kinds, NEW n \in Int
  PROVE  /\ Message(type, n, << >>) \in Messages
         /\ Message(type, n, << >>).type = type /\ Message(type, n, << >>).n = n
BY DEF Message, Messages

LEMMA NothingLeft ==
  ASSUME NEW M, NEW q \in Seq(M)
  PROVE  Contents(q) = {} <=> q = << >>
<1>1. q # << >> => q[1] \in Contents(q)
  BY DEF Contents
<1>2. q = << >> => Contents(q) = {}
  BY DEF Contents
<1> QED
  BY <1>1, <1>2

-----------------------------------------------------------------------------
(* usbcon -b.  There is never more than one message on its way, but for    *)
(* empty reads: a request for the piece the device lacks, or that piece.   *)

Real == {m \in Messages : m.type # "nothing"}

Booting ==
  /\ host.pc \in {"start", "helloReply", "bootLoop", "ok"}
  /\ dev.mode \in {"usb", "usbLoading"} /\ dev.pending = -1
  /\ \A m \in Contents(down) : m.type \in {"hello", "params", "chunk"}
  /\ NoneAfter(up, Real, Real) /\ NoneAfter(down, Messages, Messages)
  /\ down # << >> \/ host.pc = "start" => Contents(up) \cap Real = {}
  /\ host.pc = "start" => down = << >>
  /\ \A m \in Contents(down) : m.type = "chunk" => m.data = NextPiece
  /\ \A m \in Contents(down) : m.type = "params" => m.n = ImageSize
  /\ \A m \in Contents(up) : m.type = "request" => m.n = dev.want
  /\ dev.mode = "usbLoading" => dev.total = ImageSize
  /\ dev.mode = "usb" => dev.want = 0
  /\ Some(up, "finished") \/ host.pc = "ok" => Enough

LEMMA SaidAlone ==
  ASSUME NEW q \in Seq(Messages), Contents(q) = {}, NEW m \in Messages
  PROVE  /\ Append(q, m) \in Seq(Messages) /\ Contents(Append(q, m)) = {m}
         /\ NoneAfter(Append(q, m), Messages, Messages)
<1>1. NoneAfter(q, Messages, Messages)
  BY NoneInOrder
<1>2. Append(q, m) \in Seq(Messages) /\ Contents(Append(q, m)) = Contents(q) \cup {m}
  BY Added
<1> QED
  BY <1>1, <1>2, AddedInOrder

(* The answer of a device that has been asked, which may be late.          *)
LEMMA Answered ==
  ASSUME Shapes, Contents(up) \cap Real = {}, NEW m \in Messages,
         NEW reply \in Nothing(<<m>>)
  PROVE  /\ up \o reply \in Seq(Messages)
         /\ Contents(up \o reply) \subseteq Contents(up) \cup {Plain("nothing"), m}
         /\ NoneAfter(up \o reply, Real, Real)
<1>1. up \in Seq(Messages)
  BY DEF Shapes
<1>2. PICK n \in Messages : n = Plain("nothing") /\ n.type = "nothing"
  <2>1. "nothing" \in Kinds
    BY DEF Kinds
  <2> QED
    BY <2>1, IsPlain
<1>3. NoneAfter(up, Real, Real)
  BY NoneInOrder
<1>4. NoneAfter(Append(up, m), Real, Real)
  BY <1>1, <1>3, AddedInOrder
<1>5. CASE reply = <<m>>
  <2>1. /\ up \o <<m>> \in Seq(Messages) /\ up \o <<m>> = Append(up, m)
        /\ Contents(Append(up, m)) = Contents(up) \cup {m}
    BY <1>1, Added
  <2> QED
    BY <1>4, <1>5, <2>1
<1>6. CASE reply = <<n>> \o <<m>>
  <2>1. PICK q \in Seq(Messages) : q = Append(up, n)
    BY <1>1, <1>2, Added
  <2>2. up \o (<<n>> \o <<m>>) = Append(q, m)
    BY <1>1, <2>1
  <2>3. Contents(q) = Contents(up) \cup {n} /\ n \notin Real
    BY <1>1, <1>2, <2>1, Added DEF Real
  <2>4. NoneAfter(Append(q, m), Real, Real)
    BY <2>3, NoneInOrder, AddedInOrder
  <2>5. /\ Append(q, m) \in Seq(Messages)
        /\ Contents(Append(q, m)) = Contents(q) \cup {m}
    BY Added
  <2> QED
    BY <1>2, <1>6, <2>2, <2>3, <2>4, <2>5
<1> QED
  BY <1>2, <1>5, <1>6 DEF Nothing

LEMMA BootActions ==
  ASSUME Shapes, Booting, program = "usbconBoot", Next
  PROVE  /\ UNCHANGED <<program, size>>
         /\ \/ UNCHANGED dev /\ (BootHello \/ BootNothing \/ BootParams \/ BootSend \/ BootDone)
            \/ UNCHANGED host /\ (UsbHello \/ UsbParams \/ UsbBootChunk)
<1>1. down # << >> => Head(down) \in Contents(down)
  BY TailIsRest DEF Shapes
<1>2. down # << >> => Head(down).type \in {"hello", "params", "chunk"}
  BY <1>1 DEF Booting
<1>3. CASE HostStep
  BY <1>3 DEF HostStep, HostOfDevice, BootLine, UsbconStep, OpenConsole, CommandAgain,
              CommandAnswered, NextOutput, WrongOutput, NoOutput, ServeChunk, ServeEnd,
              ServeDone, ServeOutput, ServePrompt, ServeOther, At, Booting
<1>4. ~Timeout
  BY DEF Timeout, Line1
<1>5. ~SerialDevice
  BY DEF SerialDevice, ConsoleEmpty, Prompt, ConsoleReboot, ConsoleRcv, Announce, LoaderRcv,
         Ignore, Serial, AskChunk, TakeChunk, AskAgain, Booting
<1>6. CASE UsbDevice
  <2>1. ~UsbAsk /\ ~UsbInit /\ ~UsbCommand /\ ~UsbChunk /\ ~UsbEnd
    BY <1>2 DEF UsbAsk, UsbInit, UsbCommand, UsbChunk, UsbEnd, Hears, Booting
  <2>2. ~UsbOutput /\ ~UsbNotReady /\ ~UsbAskChunk
    <3>1. dev.pending = -1 /\ dev.outputs \in Nat
      BY DEF Booting, Shapes
    <3>2. dev.pending \notin 0 .. dev.outputs - 1
      BY <3>1
    <3>3. dev.mode \in {"usb", "usbLoading"}
      BY DEF Booting
    <3> QED
      BY <3>2, <3>3 DEF UsbOutput, UsbNotReady, UsbAskChunk
  <2> QED
    BY <1>6, <2>1, <2>2 DEF UsbDevice, HostUnchanged
<1>7. ~Faults
  BY DEF Faults, Fault, Line1, SpoilChunk, SpoilLine, AskEarly, GiveUpEarly, Chatter,
         SwitchOff, ItemTwice, AskTwice
<1> QED
  BY <1>3, <1>4, <1>5, <1>6, <1>7 DEF Next, HostStep

(* The program takes what the device said, or says something.              *)
LEMMA BootHostKeeps ==
  ASSUME Shapes, Begun, Booting, program = "usbconBoot", UNCHANGED <<program, size, dev>>,
         BootHello \/ BootNothing \/ BootParams \/ BootSend \/ BootDone
  PROVE  Shapes' /\ Begun' /\ Booting'
<1> USE DEF At, Goto, Say
<1>1. Begun' /\ Enough' = Enough /\ ImageSize' = ImageSize /\ NextPiece' = NextPiece
  BY NothingStored DEF ImageSize, NextPiece, Wanted, PieceSize, BootChunkSize, Encoded, File
<1>2. up \in Seq(Messages) /\ down \in Seq(Messages)
  BY DEF Shapes
<1>3. CASE BootHello
  <2>1. PICK m \in Messages : m = Plain("hello") /\ m.type = "hello"
    BY IsPlain DEF Kinds
  <2>2. Contents(down) = {} /\ down' = Append(down, m)
    BY <1>2, <1>3, <2>1, NothingLeft DEF BootHello, Booting
  <2>3. down' \in Seq(Messages) /\ Contents(down') = {m} /\ NoneAfter(down', Messages, Messages)
    BY <1>2, <2>1, <2>2, SaidAlone
  <2>4. Shapes'
    BY <1>3, <2>3 DEF BootHello, Shapes, HostFields, DevFields
  <2>5. host'.pc = "helloReply"
    BY <1>3 DEF BootHello, Shapes, HostFields
  <2>6. Contents(up) \cap Real = {}
    BY <1>3 DEF BootHello, Booting
  <2> QED
    BY <1>1, <1>3, <2>1, <2>3, <2>4, <2>5, <2>6 DEF BootHello, Booting, Some
<1>4. ASSUME up # << >>, up' = Tail(up)
      PROVE  /\ up' \in Seq(Messages) /\ Contents(up') \subseteq Contents(up)
             /\ NoneAfter(up', Real, Real) /\ Head(up) \in Contents(up) /\ Head(up) \in Messages
             /\ Head(up) \in Real => /\ Contents(up') \cap Real = {}
                                     /\ down = << >> /\ Contents(down) = {}
  <2>1. /\ up' \in Seq(Messages) /\ IsRest(up', up)
        /\ Head(up) \in Contents(up) /\ Head(up) \in Messages
    BY <1>2, <1>4, TailIsRest
  <2>2. Contents(up') \subseteq Contents(up) /\ NoneAfter(up', Real, Real)
    BY <1>2, <2>1, RestKeeps DEF Booting
  <2>3. Head(up) \in Real => Contents(up') \cap Real = {} /\ down = << >>
    BY <1>2, <1>4, <2>1, HeadTaken DEF Booting
  <2> QED
    BY <1>2, <2>1, <2>2, <2>3, NothingLeft
<1>5. CASE BootNothing
  <2>1. /\ up' \in Seq(Messages) /\ Contents(up') \subseteq Contents(up)
        /\ NoneAfter(up', Real, Real)
    BY <1>4, <1>5 DEF BootNothing, Got
  <2>2. Shapes'
    BY <1>5, <2>1 DEF BootNothing, Shapes
  <2> QED
    BY <1>1, <1>5, <2>1, <2>2 DEF BootNothing, Booting, Some
<1>6. CASE BootParams
  <2>1. /\ up' \in Seq(Messages) /\ Contents(up') \subseteq Contents(up)
        /\ NoneAfter(up', Real, Real) /\ Contents(up') \cap Real = {}
        /\ down = << >> /\ Contents(down) = {}
    BY <1>4, <1>6 DEF BootParams, Got, Real
  <2>2. PICK m \in Messages : m = Message("params", ImageSize, << >>)
                              /\ m.type = "params" /\ m.n = ImageSize
    <3>1. ImageSize \in Int
      BY DEF Shapes, ImageSize, HeaderSize
    <3> QED
      BY <3>1, IsNumbered DEF Kinds
  <2>3. down' = Append(down, m)
    BY <1>6, <2>2 DEF BootParams
  <2>4. down' \in Seq(Messages) /\ Contents(down') = {m} /\ NoneAfter(down', Messages, Messages)
    BY <1>2, <2>1, <2>3, SaidAlone
  <2>5. host'.pc = "bootLoop"
    BY <1>6 DEF BootParams, Shapes, HostFields
  <2>6. Shapes'
    BY <1>6, <2>1, <2>4 DEF BootParams, Shapes, HostFields
  <2> QED
    BY <1>1, <2>1, <2>2, <2>4, <2>5, <2>6 DEF Booting, Some
<1>7. CASE BootSend
  <2>1. /\ up' \in Seq(Messages) /\ Contents(up') \subseteq Contents(up)
        /\ NoneAfter(up', Real, Real) /\ Contents(up') \cap Real = {}
        /\ down = << >> /\ Contents(down) = {}
    BY <1>4, <1>7 DEF BootSend, Got, Real
  <2>2. Head(up).n = dev.want
    BY <1>4, <1>7 DEF BootSend, Got, Booting
  <2>3. BootChunk(dev.want) = Message("chunk", dev.want, NextPiece)
    BY WantedIs DEF BootChunk, NextPiece, Piece, Wanted, PieceSize, Total
  <2>4. PICK m \in Messages : m = BootChunk(dev.want) /\ m.type = "chunk" /\ m.data = NextPiece
    <3>1. NextPiece \in Seq(Int)
      BY NextIsSeq
    <3>2. dev.want \in Int /\ "chunk" \in Kinds
      BY DEF Shapes, Kinds
    <3> QED
      BY <2>3, <3>1, <3>2, IsMessage
  <2>5. down' = Append(down, m)
    BY <1>7, <2>2, <2>4 DEF BootSend
  <2>6. down' \in Seq(Messages) /\ Contents(down') = {m} /\ NoneAfter(down', Messages, Messages)
    BY <1>2, <2>1, <2>5, SaidAlone
  <2>7. UNCHANGED host /\ host.pc = "bootLoop"
    BY <1>7 DEF BootSend
  <2>8. Shapes'
    BY <2>1, <2>6, <2>7 DEF Shapes
  <2> QED
    BY <1>1, <2>1, <2>4, <2>6, <2>7, <2>8 DEF Booting, Some
<1>8. CASE BootDone
  <2>1. /\ up' \in Seq(Messages) /\ Contents(up') \subseteq Contents(up)
        /\ NoneAfter(up', Real, Real)
    BY <1>4, <1>8 DEF BootDone, Got
  <2>2. Enough
    BY <1>4, <1>8 DEF BootDone, Got, Booting, Some
  <2>3. host'.pc = "ok" /\ UNCHANGED down
    BY <1>8 DEF BootDone, Shapes, HostFields
  <2>4. Shapes'
    BY <1>8, <2>1 DEF BootDone, Shapes, HostFields
  <2>5. host.pc # "start"
    BY <1>8 DEF BootDone
  <2> QED
    BY <1>1, <2>1, <2>2, <2>3, <2>4, <2>5 DEF Booting, Some
<1> QED
  BY <1>3, <1>5, <1>6, <1>7, <1>8

LEMMA StoredIs ==
  ASSUME Shapes, NEW data, NEW d, d = Stored(data)
  PROVE  /\ DOMAIN d = DevFields
         /\ d.got = dev.got \o data /\ d.want = dev.want + 1 /\ ~d.asked
         /\ d.mode = dev.mode /\ d.total = dev.total /\ d.pending = dev.pending
         /\ d.commands = dev.commands /\ d.outputs = dev.outputs
BY DEF Stored, Shapes, DevFields

(* The device takes what the program said, and answers.                    *)
LEMMA BootDeviceKeeps ==
  ASSUME Shapes, Begun, Booting, program = "usbconBoot", UNCHANGED <<program, size, host>>,
         UsbHello \/ UsbParams \/ UsbBootChunk
  PROVE  Shapes' /\ Begun' /\ Booting'
<1>1. up \in Seq(Messages) /\ down \in Seq(Messages)
  BY DEF Shapes
<1>2. down # << >> /\ down' = Tail(down)
  BY DEF UsbHello, UsbParams, UsbBootChunk, Hears
<1>3. PICK h \in Messages : h = Head(down) /\ h \in Contents(down)
  BY <1>1, <1>2, TailIsRest
<1>4. down' \in Seq(Messages) /\ Contents(down') = {} /\ NoneAfter(down', Messages, Messages)
  <2>1. down' \in Seq(Messages) /\ IsRest(down', down)
    BY <1>1, <1>2, TailIsRest
  <2>2. Contents(down') \subseteq Messages
    BY <2>1 DEF Contents
  <2>3. Contents(down') \cap Messages = {}
    BY <1>1, <1>2, <1>3, HeadTaken DEF Booting
  <2> QED
    BY <2>1, <2>2, <2>3, NoneInOrder
<1>5. down' = << >>
  BY <1>4, NothingLeft
<1>6. Contents(up) \cap Real = {} /\ host.pc # "start"
  BY <1>2 DEF Booting
<1>7. ~Some(up, "finished") /\ ~Some(up, "request")
  <2>1. Contents(up) \subseteq Messages
    BY <1>1 DEF Contents
  <2> QED
    BY <1>6, <2>1 DEF Some, Real
<1>8. ImageSize' = ImageSize /\ ImageSize \in Int /\ 0 \in Int
  BY DEF ImageSize, HeaderSize, Shapes
<1>9. ASSUME NEW m \in Messages, NEW reply \in Nothing(<<m>>), up' = up \o reply
      PROVE  /\ up' \in Seq(Messages) /\ NoneAfter(up', Real, Real)
             /\ \A x \in Contents(up') : x.type \in {"finished", "request"} => x = m
  <2>1. /\ up' \in Seq(Messages) /\ NoneAfter(up', Real, Real)
        /\ Contents(up') \subseteq Contents(up) \cup {Plain("nothing"), m}
    BY <1>6, <1>9, Answered
  <2>2. Plain("nothing").type = "nothing"
    BY IsPlain DEF Kinds
  <2> QED
    BY <1>7, <2>1, <2>2 DEF Some
<1>10. CASE UsbHello
  <2>1. PICK m \in Messages : m = Plain("info") /\ m.type = "info"
    BY IsPlain DEF Kinds
  <2>2. PICK reply \in Nothing(<<m>>) : up' = up \o reply
    BY <1>10, <2>1 DEF UsbHello, Printed
  <2>3. /\ up' \in Seq(Messages) /\ NoneAfter(up', Real, Real)
        /\ ~Some(up', "finished") /\ ~Some(up', "request")
    BY <1>9, <2>1, <2>2 DEF Some
  <2>4. UNCHANGED dev
    BY <1>10 DEF UsbHello
  <2>5. Begun' /\ Enough' = Enough
    BY <2>4, NothingStored
  <2>6. Shapes'
    BY <1>4, <2>3, <2>4 DEF Shapes
  <2> QED
    BY <1>4, <1>5, <1>6, <1>8, <2>3, <2>4, <2>5, <2>6 DEF Booting, Some
<1>11. CASE UsbParams
  <2>1. h.n = ImageSize /\ dev.want = 0
    BY <1>3, <1>11 DEF UsbParams, Hears, Booting
  <2>2. PICK m \in Messages : m = Message("request", 0, << >>) /\ m.type = "request" /\ m.n = 0
    BY <1>8, IsNumbered DEF Kinds
  <2>3. PICK reply \in Nothing(<<m>>) : up' = up \o reply
    BY <1>11, <2>2 DEF UsbParams, Printed
  <2>4. /\ up' \in Seq(Messages) /\ NoneAfter(up', Real, Real) /\ ~Some(up', "finished")
        /\ \A x \in Contents(up') : x.type = "request" => x.n = 0
    BY <1>9, <2>2, <2>3 DEF Some
  <2>5. /\ DOMAIN dev' = DevFields /\ dev'.mode = "usbLoading" /\ dev'.total = ImageSize
        /\ dev'.want = dev.want /\ dev'.got = dev.got /\ dev'.pending = dev.pending
        /\ dev'.commands = dev.commands /\ dev'.outputs = dev.outputs
    BY <1>3, <1>11, <2>1 DEF UsbParams, Shapes, DevFields
  <2>6. Begun' /\ Enough' = Enough
    BY <2>5, NothingStored
  <2>7. Shapes'
    BY <1>4, <2>4, <2>5 DEF Shapes
  <2> QED
    BY <1>4, <1>5, <1>6, <1>8, <2>1, <2>4, <2>5, <2>6, <2>7 DEF Booting, Some
<1>12. CASE UsbBootChunk
  <2>1. h.data = NextPiece /\ dev.mode = "usbLoading" /\ dev.total = ImageSize
    BY <1>3, <1>12 DEF UsbBootChunk, Hears, Booting
  <2>2. PICK d : /\ d = Stored(h.data) /\ dev' = d
                 /\ \E reply \in Nothing(IF Complete(d) THEN <<Plain("finished")>>
                                         ELSE <<Message("request", d.want, << >>)>>) :
                      up' = up \o reply
    BY <1>3, <1>12 DEF UsbBootChunk, Printed
  <2>3. /\ DOMAIN dev' = DevFields
        /\ dev'.got = dev.got \o NextPiece /\ dev'.want = dev.want + 1
        /\ dev'.mode = "usbLoading" /\ dev'.total = ImageSize /\ dev'.pending = dev.pending
        /\ dev'.commands = dev.commands /\ dev'.outputs = dev.outputs
    BY <2>1, <2>2, StoredIs
  <2>4. Begun' /\ (Enough => Enough') /\ (Len(dev'.got) >= Total => Enough')
    BY <2>3, PieceStored
  <2>5. Complete(d) => Enough'
    BY <2>2, <2>3, <2>4 DEF Complete, Total
  <2>6. PICK f \in Messages : f = Plain("finished") /\ f.type = "finished"
    BY IsPlain DEF Kinds
  <2>7. PICK r \in Messages : r = Message("request", d.want, << >>) /\ r.type = "request"
                              /\ r.n = dev'.want
    <3>1. d.want \in Int
      BY <2>2, <2>3 DEF Shapes
    <3> QED
      BY <2>2, <3>1, IsNumbered DEF Kinds
  <2>8. PICK m \in {f, r} : /\ \E reply \in Nothing(<<m>>) : up' = up \o reply
                            /\ m = f => Complete(d)
    BY <2>2, <2>6, <2>7
  <2>9. /\ up' \in Seq(Messages) /\ NoneAfter(up', Real, Real)
        /\ \A x \in Contents(up') : x.type \in {"finished", "request"} => x = m
    BY <1>9, <2>6, <2>7, <2>8
  <2>10. Some(up', "finished") => Enough'
    BY <2>5, <2>6, <2>7, <2>8, <2>9 DEF Some
  <2>11. \A x \in Contents(up') : x.type = "request" => x.n = dev'.want
    BY <2>6, <2>7, <2>8, <2>9
  <2>12. Shapes'
    BY <1>4, <2>3, <2>9 DEF Shapes
  <2>13. host.pc = "ok" => Enough'
    BY <2>4 DEF Booting
  <2> QED
    BY <1>4, <1>5, <1>6, <1>8, <2>3, <2>4, <2>9, <2>10, <2>11, <2>12, <2>13 DEF Booting
<1> QED
  BY <1>10, <1>11, <1>12

LEMMA BootKeeps ==
  ASSUME Shapes, Begun, Booting, program = "usbconBoot", Next
  PROVE  Shapes' /\ Begun' /\ Booting'
BY BootActions, BootHostKeeps, BootDeviceKeeps

-----------------------------------------------------------------------------
(* usbcon -s.  The file is read on with every chunk that is sent.  Until   *)
(* the end has been announced, it stands where the chunk begins that the   *)
(* device asks for, and behind it once that has been sent: only the first  *)
(* chunk is asked for again, and no more when a later one has been.        *)

Requests == {m \in Messages : m.type = "request"}

Due == {m \in Requests : m.n = dev.want}

Awaits == \E m \in Contents(up) : m.type = "request" /\ m.n = dev.want

Coming == \E m \in Contents(down) : m.type = "chunk" /\ m.n = dev.want

Reading ==
  /\ \A m \in Contents(up) :
       m.type = "request" => m.n = dev.want \/ (m.n = 0 /\ dev.want = 1)
  /\ dev.want > 0 => NoneAfter(up, Due, Requests)
  /\ dev.want > 0 /\ Coming => ~Some(up, "request") /\ dev.asked
  /\ dev.want > 0 /\ Awaits => dev.asked
  /\ dev.want > 0 /\ (Awaits \/ ~dev.asked) =>
       host.pos = Smaller(dev.want * ChunkSize, size)
  /\ Coming => host.pos = Smaller((dev.want + 1) * ChunkSize, size)

Numbered ==
  /\ \A m \in Contents(up) : m.type = "request" => m.n \in 0 .. dev.want
  /\ \A m \in Contents(down) :
       m.type = "chunk" => /\ m.n <= dev.want /\ m.n * ChunkSize < size
                           /\ m.n = dev.want => m.data = NextPiece

(* What the program can do: chunks whose numbers are bytes, and no chunk   *)
(* but the first sent again.                                               *)
Within ==
  /\ AskedTwice \subseteq {0}
  /\ program = "usbconSend" => size <= (IndexWrap - 1) * ChunkSize

Finishing ==
  /\ Some(down, "end") => host.done
  /\ host.done => Enough
  /\ dev.mode = "usb" /\ dev.outputs > 0 => Enough
  /\ Some(up, "prompt") \/ host.pc = "ok" => Enough

Sending ==
  /\ host.pc \in {"start", "command", "more", "serve", "ok"}
  /\ dev.mode \in {"usb", "usbReceiving"}
  /\ \A m \in Contents(down) : m.type \in {"init", "ask", "command", "chunk", "end"}
  /\ Finishing /\ Numbered /\ dev.want < IndexWrap
  /\ ~host.done => Reading

Quiet == {"init", "ask", "command"}

(* A step that sends neither chunks nor requests for them. *)
LEMMA QuietKeeps ==
  ASSUME Shapes, Begun, Sending, program = "usbconSend", UNCHANGED <<program, size>>, Shapes',
         dev'.got = dev.got, dev'.want = dev.want, dev'.asked = dev.asked,
         host'.pos = host.pos, host'.done = host.done,
         \A m \in Contents(up') : \/ m \in Contents(up)
                                  \/ m.type # "request" /\ (m.type = "prompt" => Enough),
         dev.want > 0 /\ NoneAfter(up, Due, Requests) => NoneAfter(up', Due, Requests),
         \A m \in Contents(down') : m \in Contents(down) \/ m.type \in Quiet,
         dev'.mode \in {"usb", "usbReceiving"},
         dev'.mode = "usb" /\ dev'.outputs > 0 => Enough,
         host'.pc \in {"start", "command", "more", "serve", "ok"},
         host'.pc = "ok" => Enough
  PROVE  Begun' /\ Sending'
<1>1. Begun' /\ Enough' = Enough /\ NextPiece' = NextPiece /\ Due' = Due
  BY NothingStored DEF NextPiece, Wanted, PieceSize, BootChunkSize, Encoded, File, Due
<1>2. \A m \in Contents(down') : m.type \in {"init", "ask", "command", "chunk", "end"}
  BY DEF Sending, Quiet
<1>3. Finishing'
  BY <1>1 DEF Sending, Finishing, Some, Quiet
<1>4. Numbered'
  BY <1>1 DEF Sending, Numbered, Quiet
<1>5. ASSUME ~host.done
      PROVE  Reading'
  <2>1. (Some(up, "request"))' => Some(up, "request")
    BY DEF Some
  <2>2. (Awaits' => Awaits) /\ (Coming' => Coming)
    BY DEF Awaits, Coming, Quiet
  <2>3. Reading
    BY <1>5 DEF Sending
  <2>4. dev.want > 0 => (NoneAfter(up, Due, Requests))'
    BY <1>1, <2>3 DEF Reading
  <2>5. \A m \in Contents(up') :
          m.type = "request" => m.n = dev'.want \/ (m.n = 0 /\ dev'.want = 1)
    BY <2>3 DEF Reading
  <2>6. /\ dev.want > 0 /\ Coming' => ~(Some(up, "request"))' /\ dev'.asked
        /\ dev.want > 0 /\ Awaits' => dev'.asked
        /\ dev.want > 0 /\ (Awaits' \/ ~dev'.asked) =>
             host.pos = Smaller(dev.want * ChunkSize, size)
        /\ Coming' => host.pos = Smaller((dev.want + 1) * ChunkSize, size)
    BY <2>1, <2>2, <2>3 DEF Reading
  <2> QED
    BY <2>4, <2>5, <2>6 DEF Reading
<1> QED
  BY <1>1, <1>2, <1>3, <1>4, <1>5 DEF Sending

LEMMA SendActions ==
  ASSUME Shapes, Sending, program = "usbconSend", Next
  PROVE  /\ UNCHANGED <<program, size>>
         /\ \/ /\ UNCHANGED dev
               /\ \/ OpenConsole \/ CommandAgain \/ CommandAnswered
                  \/ NextOutput \/ WrongOutput \/ NoOutput \/ BootNothing
                  \/ ServeChunk \/ ServeEnd \/ ServeDone \/ ServeOutput \/ ServePrompt \/ ServeOther
            \/ /\ UNCHANGED host
               /\ \/ UsbAsk \/ UsbInit \/ UsbCommand \/ UsbOutput \/ UsbNotReady
                  \/ UsbAskChunk \/ UsbChunk \/ UsbEnd \/ ItemTwice \/ AskTwice
<1>1. down # << >> => Head(down) \in Contents(down)
  BY TailIsRest DEF Shapes
<1>2. down # << >> => Head(down).type \in {"init", "ask", "command", "chunk", "end"}
  BY <1>1 DEF Sending
<1>3. CASE HostStep
  BY <1>3 DEF HostStep, HostOfDevice, BootLine, UsbconStep, BootHello, BootParams, BootSend,
              BootDone, At, Sending
<1>4. ~Timeout
  BY DEF Timeout, Line1
<1>5. ~SerialDevice
  BY DEF SerialDevice, ConsoleEmpty, Prompt, ConsoleReboot, ConsoleRcv, Announce, LoaderRcv,
         Ignore, Serial, AskChunk, TakeChunk, AskAgain, Sending
<1>6. CASE UsbDevice
  <2>1. ~UsbHello /\ ~UsbParams /\ ~UsbBootChunk
    BY <1>2 DEF UsbHello, UsbParams, UsbBootChunk, Hears, Sending
  <2> QED
    BY <1>6, <2>1 DEF UsbDevice, HostUnchanged
<1>7. CASE Faults
  BY <1>7 DEF Faults, Fault, Line1, SpoilChunk, SpoilLine, AskEarly, GiveUpEarly, Chatter,
         SwitchOff, ItemTwice, AskTwice
<1> QED
  BY <1>3, <1>4, <1>5, <1>6, <1>7 DEF Next, HostStep

LEMMA Joined ==
  ASSUME NEW M, NEW q \in Seq(M), NEW r \in Seq(M)
  PROVE  q \o r \in Seq(M) /\ Contents(q \o r) \subseteq Contents(q) \cup Contents(r)
<1>1. /\ q \o r \in Seq(M) /\ Len(q \o r) = Len(q) + Len(r)
      /\ \A i \in 1 .. Len(q) + Len(r) :
           (q \o r)[i] = IF i <= Len(q) THEN q[i] ELSE r[i - Len(q)]
  BY ConcatProperties
<1>2. PICK s : s = q \o r
  OBVIOUS
<1>3. ASSUME NEW i \in 1 .. Len(s)
      PROVE  s[i] \in Contents(q) \cup Contents(r)
  <2>1. CASE i <= Len(q)
    <3>1. i \in 1 .. Len(q) /\ s[i] = q[i]
      BY <1>1, <1>2, <2>1
    <3> QED
      BY <3>1 DEF Contents
  <2>2. CASE ~(i <= Len(q))
    <3>1. i - Len(q) \in 1 .. Len(r) /\ s[i] = r[i - Len(q)]
      BY <1>1, <1>2, <2>2
    <3> QED
      BY <3>1 DEF Contents
  <2> QED
    BY <2>1, <2>2
<1> QED
  BY <1>1, <1>2, <1>3 DEF Contents

(* A message of the device is taken, and is not one that asks for a chunk; *)
(* at most another is asked for. *)
LEMMA SendHostKeeps ==
  ASSUME Shapes, Begun, Sending, program = "usbconSend", UNCHANGED <<program, size, dev>>,
         \/ CommandAgain \/ CommandAnswered \/ NextOutput \/ WrongOutput \/ NoOutput
         \/ BootNothing \/ ServeDone \/ ServeOutput \/ ServePrompt \/ ServeOther
  PROVE  Shapes' /\ Begun' /\ Sending'
<1> USE DEF At, Goto, Say, Got, GotData, GotOther, Awaited
<1>1. up \in Seq(Messages) /\ down \in Seq(Messages)
  BY DEF Shapes
<1>2. up # << >> /\ up' = Tail(up)
  BY DEF CommandAgain, CommandAnswered, NextOutput, WrongOutput, NoOutput, BootNothing,
         ServeDone, ServeOutput, ServePrompt, ServeOther
<1>3. /\ up' \in Seq(Messages) /\ IsRest(up', up)
      /\ Head(up) \in Contents(up) /\ Head(up) \in Messages
  BY <1>1, <1>2, TailIsRest
<1>4. /\ Contents(up') \subseteq Contents(up)
      /\ NoneAfter(up, Due, Requests) => NoneAfter(up', Due, Requests)
  BY <1>1, <1>3, RestKeeps
<1>5. \/ UNCHANGED down
      \/ \E n \in Int : down' = Append(down, Ask(n)) \/ down' = Append(down, Message("command", n, << >>))
  <2>1. host.recvNo \in Int /\ host.sendNo \in Int /\ host.recvNo + 1 \in Int
    BY DEF Shapes
  <2>2. Head(up).n + 1 \in Int
    BY <1>3 DEF Messages
  <2> QED
    BY <2>1, <2>2 DEF CommandAgain, CommandAnswered, NextOutput, WrongOutput, NoOutput,
       BootNothing, ServeDone, ServeOutput, ServePrompt, ServeOther, Command
<1>6. \/ UNCHANGED down
      \/ \E m \in Messages : m.type \in Quiet /\ down' = Append(down, m)
  BY <1>5, IsNumbered DEF Ask, Kinds, Quiet
<1>7. /\ down' \in Seq(Messages)
      /\ \A m \in Contents(down') : m \in Contents(down) \/ m.type \in Quiet
  <2>1. CASE UNCHANGED down
    BY <1>1, <2>1
  <2>2. ASSUME NEW m \in Messages, m.type \in Quiet, down' = Append(down, m)
        PROVE  /\ down' \in Seq(Messages)
               /\ \A x \in Contents(down') : x \in Contents(down) \/ x.type \in Quiet
    BY <1>1, <2>2, Added
  <2> QED
    BY <1>6, <2>1, <2>2
<1>8. /\ DOMAIN host' = HostFields /\ host'.sendNo \in Nat /\ host'.recvNo \in Nat
      /\ host'.pos = host.pos /\ host'.done = host.done
      /\ host'.pc \in {host.pc, "more", "serve", "ok"}
      /\ host'.pc = "ok" /\ host.pc # "ok" => ServePrompt
  <2>1. \/ UNCHANGED host
        \/ host' = [host EXCEPT !.pc = "more", !.sendNo = host.sendNo + 1]
        \/ host' = [host EXCEPT !.recvNo = host.recvNo + 1]
        \/ host' = [host EXCEPT !.pc = "serve", !.recvNo = host.recvNo + 1]
        \/ ServePrompt /\ host' = [host EXCEPT !.pc = "ok"]
    BY DEF CommandAgain, CommandAnswered, NextOutput, WrongOutput, NoOutput, BootNothing,
           ServeDone, ServeOutput, ServePrompt, ServeOther
  <2>2. /\ DOMAIN host = HostFields /\ host.sendNo \in Nat /\ host.recvNo \in Nat
        /\ host.sendNo + 1 \in Nat /\ host.recvNo + 1 \in Nat
    BY DEF Shapes
  <2> QED
    BY <2>1, <2>2 DEF HostFields
<1>9. Shapes'
  BY <1>3, <1>7, <1>8 DEF Shapes
<1>10. host'.pc \in {"start", "command", "more", "serve", "ok"}
  BY <1>8 DEF Sending
<1>11. host'.pc = "ok" => Enough
  <2>1. ServePrompt => Some(up, "prompt")
    BY <1>3 DEF ServePrompt, Some
  <2> QED
    BY <1>8, <2>1 DEF Sending, Finishing
<1>12. /\ dev.mode \in {"usb", "usbReceiving"}
       /\ dev.mode = "usb" /\ dev.outputs > 0 => Enough
  BY DEF Sending, Finishing
<1> QED
  BY <1>4, <1>7, <1>8, <1>9, <1>10, <1>11, <1>12, QuietKeeps

LEMMA OpenConsoleKeeps ==
  ASSUME Shapes, Begun, Sending, program = "usbconSend", UNCHANGED <<program, size, dev>>,
         OpenConsole
  PROVE  Shapes' /\ Begun' /\ Sending'
<1>1. up \in Seq(Messages) /\ down \in Seq(Messages) /\ UNCHANGED up
  BY DEF Shapes, OpenConsole
<1>2. PICK i \in Messages : i = Plain("init") /\ i.type = "init"
  BY IsPlain DEF Kinds
<1>3. host.recvNo \in Int /\ host.sendNo \in Int
  BY DEF Shapes
<1>4. PICK a \in Messages : a = Ask(host.recvNo) /\ a.type = "ask"
  BY <1>3, IsNumbered DEF Ask, Kinds
<1>5. PICK c \in Messages : c = Command /\ c.type = "command"
  BY <1>3, IsNumbered DEF Command, Kinds
<1>6. PICK q : q = <<i, i, a, c>>
  OBVIOUS
<1>7. q \in Seq(Messages) /\ \A m \in Contents(q) : m.type \in Quiet
  <2>1. q \in Seq(Messages) /\ Len(q) = 4 /\ q[1] = i /\ q[2] = i /\ q[3] = a /\ q[4] = c
    BY <1>6
  <2>2. \A k \in 1 .. 4 : k = 1 \/ k = 2 \/ k = 3 \/ k = 4
    OBVIOUS
  <2> QED
    BY <1>2, <1>4, <1>5, <2>1, <2>2 DEF Contents, Quiet
<1>8. down' = down \o q
  BY <1>2, <1>4, <1>5, <1>6 DEF OpenConsole
<1>9. /\ down' \in Seq(Messages)
      /\ \A m \in Contents(down') : m \in Contents(down) \/ m.type \in Quiet
  BY <1>1, <1>7, <1>8, Joined
<1>10. /\ DOMAIN host' = HostFields /\ host'.sendNo = host.sendNo /\ host'.recvNo \in Nat
       /\ host'.pos = host.pos /\ host'.done = host.done /\ host'.pc = "command"
  BY DEF OpenConsole, Shapes, HostFields
<1>11. Shapes'
  BY <1>1, <1>9, <1>10 DEF Shapes
<1>12. /\ dev.mode \in {"usb", "usbReceiving"}
       /\ dev.mode = "usb" /\ dev.outputs > 0 => Enough
  BY DEF Sending, Finishing
<1> QED
  BY <1>1, <1>9, <1>10, <1>11, <1>12, QuietKeeps

(* The device answers, or hears what is no news to its loader.             *)
LEMMA SendDeviceKeeps ==
  ASSUME Shapes, Begun, Sending, program = "usbconSend", UNCHANGED <<program, size, host>>,
         \/ UsbAsk \/ UsbInit \/ UsbCommand \/ UsbOutput \/ UsbNotReady \/ ItemTwice
         \/ UsbChunk /\ ~Lacked(Head(down))
  PROVE  Shapes' /\ Begun' /\ Sending'
<1> USE DEF Hears, Printed
<1>1. up \in Seq(Messages) /\ down \in Seq(Messages)
  BY DEF Shapes
<1>2. down' \in Seq(Messages) /\ Contents(down') \subseteq Contents(down)
  <2>1. UNCHANGED down \/ (down # << >> /\ down' = Tail(down))
    BY DEF UsbAsk, UsbInit, UsbCommand, UsbOutput, UsbNotReady, ItemTwice, UsbChunk
  <2> QED
    BY <1>1, <2>1, TailIsRest, RestKeeps
<1>3. UsbAsk => Head(down).n \in Int
  <2>1. down # << >> => Head(down) \in Messages
    BY <1>1, TailIsRest
  <2> QED
    BY <2>1 DEF UsbAsk, Messages
<1>4. \/ UNCHANGED up
      \/ \E m \in Messages : /\ up' = up \o <<m>> /\ m.type # "request"
                             /\ m.type = "prompt" => Enough
  <2>1. dev.commands \in Int /\ dev.pending \in Int /\ dev.outputs \in Int
    BY DEF Shapes
  <2>2. PICK r \in Messages : r = Next2 /\ r.type = "request2"
    BY <2>1, IsNumbered DEF Next2, Kinds
  <2>3. PICK kind \in {"output", "prompt"} :
          /\ Item = Message(kind, dev.pending, << >>)
          /\ kind = "prompt" => dev.mode = "usb" /\ dev.pending = dev.outputs - 1
    BY DEF Item
  <2>4. PICK i \in Messages : i = Item /\ i.type = kind
    BY <2>1, <2>3, IsNumbered DEF Kinds
  <2>5. dev.pending \in 0 .. dev.outputs - 1 /\ kind = "prompt" => Enough
    BY <2>1, <2>3 DEF Sending, Finishing
  <2>6. UsbOutput \/ ItemTwice => up' = up \o <<i>> /\ dev.pending \in 0 .. dev.outputs - 1
    BY <2>4 DEF UsbOutput, ItemTwice
  <2>7. UsbAsk \/ UsbInit \/ UsbCommand \/ UsbNotReady \/ UsbChunk =>
          UNCHANGED up \/ up' = up \o <<r>> \/ up' = up \o << >>
    BY <2>2 DEF UsbAsk, UsbInit, UsbCommand, UsbNotReady, UsbChunk
  <2>8. up \o << >> = up
    BY <1>1
  <2>9. UsbOutput \/ ItemTwice => i.type # "request" /\ (i.type = "prompt" => Enough)
    BY <2>4, <2>5, <2>6
  <2> QED
    BY <2>2, <2>4, <2>6, <2>7, <2>8, <2>9
<1>5. /\ up' \in Seq(Messages)
      /\ \A m \in Contents(up') : \/ m \in Contents(up)
                                  \/ m.type # "request" /\ (m.type = "prompt" => Enough)
      /\ NoneAfter(up, Due, Requests) => NoneAfter(up', Due, Requests)
  <2>1. CASE UNCHANGED up
    BY <1>1, <2>1
  <2>2. ASSUME NEW m \in Messages, up' = up \o <<m>>, m.type # "request",
               m.type = "prompt" => Enough
        PROVE  /\ up' \in Seq(Messages) /\ Contents(up') = Contents(up) \cup {m}
               /\ NoneAfter(up, Due, Requests) => NoneAfter(up', Due, Requests)
    <3>1. up' = Append(up, m) /\ up' \in Seq(Messages) /\ Contents(up') = Contents(up) \cup {m}
      <4>1. up \o <<m>> = Append(up, m)
        BY <1>1, <2>2
      <4>2. up' = Append(up, m)
        BY <2>2, <4>1
      <4>3. Append(up, m) \in Seq(Messages) /\ Contents(Append(up, m)) = Contents(up) \cup {m}
        BY <1>1, <2>2, Added
      <4> QED
        BY <4>2, <4>3
    <3>2. m \notin Requests
      BY <2>2 DEF Requests
    <3> QED
      BY <1>1, <3>1, <3>2, AddedInOrder
  <2> QED
    BY <1>4, <2>1, <2>2
<1>6. /\ DOMAIN dev' = DevFields /\ dev'.got = dev.got /\ dev'.want = dev.want
      /\ dev'.asked = dev.asked
      /\ dev'.pending \in Int /\ dev'.commands \in Nat /\ dev'.outputs \in Nat
      /\ dev'.mode = "usbReceiving" \/ (dev'.mode = dev.mode /\ dev'.outputs = dev.outputs)
  <2>1. \/ UNCHANGED dev
        \/ UsbAsk /\ dev' = [dev EXCEPT !.pending = Head(down).n, !.told = FALSE]
        \/ \E n \in 1 .. 2 : dev' = [dev EXCEPT !.mode = "usbReceiving", !.total = size,
                                                !.commands = dev.commands + 1, !.outputs = n]
        \/ dev' = [dev EXCEPT !.pending = -1]
        \/ dev' = [dev EXCEPT !.told = TRUE]
    BY DEF UsbAsk, UsbInit, UsbCommand, UsbOutput, UsbNotReady, ItemTwice, UsbChunk
  <2>2. /\ DOMAIN dev = DevFields /\ dev.pending \in Int /\ dev.commands \in Nat
        /\ dev.outputs \in Nat /\ dev.commands + 1 \in Nat /\ -1 \in Int
        /\ \A n \in 1 .. 2 : n \in Nat
    BY DEF Shapes
  <2> QED
    BY <1>3, <2>1, <2>2 DEF DevFields
<1>7. Shapes'
  BY <1>2, <1>5, <1>6 DEF Shapes
<1>8. /\ dev'.mode \in {"usb", "usbReceiving"}
      /\ dev'.mode = "usb" /\ dev'.outputs > 0 => Enough
  BY <1>6 DEF Sending, Finishing
<1>9. /\ host.pc \in {"start", "command", "more", "serve", "ok"}
      /\ host.pc = "ok" => Enough
  BY DEF Sending, Finishing
<1> QED
  BY <1>2, <1>5, <1>6, <1>7, <1>8, <1>9, QuietKeeps

(* The device asks for the chunk it lacks, for the first perhaps again.    *)
LEMMA AskKeeps ==
  ASSUME Shapes, Begun, Sending, Within, program = "usbconSend",
         UNCHANGED <<program, size, host>>, UsbAskChunk \/ AskTwice
  PROVE  Shapes' /\ Begun' /\ Sending'
<1>1. up \in Seq(Messages) /\ down \in Seq(Messages) /\ UNCHANGED down
  BY DEF Shapes, UsbAskChunk, AskTwice
<1>2. dev.want > 0 => ~dev.asked /\ dev'.asked
  BY DEF UsbAskChunk, AskTwice, Shapes, DevFields, Within
<1>3. PICK m \in Messages : /\ m = Message("request", dev.want, << >>)
                            /\ m.type = "request" /\ m.n = dev.want
  <2>1. dev.want \in Int
    BY DEF Shapes
  <2> QED
    BY <2>1, IsNumbered DEF Kinds
<1>4. up' = up \o <<m>>
  BY <1>3 DEF UsbAskChunk, AskTwice, Printed
<1>5. up' = Append(up, m) /\ up' \in Seq(Messages) /\ Contents(up') = Contents(up) \cup {m}
  <2>1. up \o <<m>> = Append(up, m)
    BY <1>1
  <2>2. up' = Append(up, m)
    BY <1>4, <2>1
  <2>3. Append(up, m) \in Seq(Messages) /\ Contents(Append(up, m)) = Contents(up) \cup {m}
    BY <1>1, Added
  <2> QED
    BY <2>2, <2>3
<1>6. /\ DOMAIN dev' = DevFields /\ dev'.got = dev.got /\ dev'.want = dev.want
      /\ dev'.pending = dev.pending /\ dev'.commands = dev.commands
      /\ dev'.outputs = dev.outputs /\ dev'.mode = dev.mode
  BY DEF UsbAskChunk, AskTwice, Shapes, DevFields
<1>7. Shapes'
  BY <1>1, <1>5, <1>6 DEF Shapes
<1>8. Begun' /\ Enough' = Enough /\ NextPiece' = NextPiece /\ Due' = Due
  BY <1>6, NothingStored DEF NextPiece, Wanted, PieceSize, BootChunkSize, Encoded, File, Due
<1>9. Finishing'
  BY <1>1, <1>3, <1>5, <1>6, <1>8 DEF Sending, Finishing, Some
<1>10. Numbered'
  <2>1. dev.want \in 0 .. dev.want
    BY DEF Shapes
  <2> QED
    BY <1>1, <1>3, <1>5, <1>6, <1>8, <2>1 DEF Sending, Numbered
<1>11. ASSUME ~host.done
       PROVE  Reading'
  <2>1. Reading
    BY <1>11 DEF Sending
  <2>2. Coming' = Coming
    BY <1>1, <1>6 DEF Coming
  <2>3. dev.want > 0 => ~Awaits /\ ~Coming
    BY <1>2, <2>1 DEF Reading
  <2>4. dev.want > 0 => (NoneAfter(up, Due, Requests))'
    <3>1. dev.want > 0 => Contents(up) \cap Due = {}
      BY <2>3 DEF Awaits, Due, Requests
    <3>2. dev.want > 0 => NoneAfter(up', Due, Requests)
      BY <1>1, <1>5, <2>1, <3>1, AddedInOrder DEF Reading
    <3> QED
      BY <1>8, <3>2
  <2>5. \A x \in Contents(up') :
          x.type = "request" => x.n = dev'.want \/ (x.n = 0 /\ dev'.want = 1)
    BY <1>3, <1>5, <1>6, <2>1 DEF Reading
  <2>6. /\ dev.want > 0 => host.pos = Smaller(dev.want * ChunkSize, size)
        /\ Coming => host.pos = Smaller((dev.want + 1) * ChunkSize, size)
    BY <1>2, <2>1 DEF Reading
  <2> QED
    BY <1>2, <1>6, <2>2, <2>3, <2>4, <2>5, <2>6 DEF Reading
<1>12. /\ host'.pc \in {"start", "command", "more", "serve", "ok"}
       /\ dev'.mode \in {"usb", "usbReceiving"}
       /\ \A x \in Contents(down') : x.type \in {"init", "ask", "command", "chunk", "end"}
       /\ ~host'.done => Reading'
       /\ dev'.want < IndexWrap
  BY <1>1, <1>6, <1>11 DEF Sending
<1> QED
  BY <1>7, <1>8, <1>9, <1>10, <1>12 DEF Sending

LEMMA Unwrapped ==
  ASSUME NEW n \in Nat, n < IndexWrap
  PROVE  n % IndexWrap = n
<1>1. PICK w \in Nat \ {0} : w = IndexWrap
  BY WrapAssumption
<1>2. n < w
  BY <1>1
<1>3. (n % w) = n
  BY <1>2
<1> QED
  BY <1>1, <1>3

(* A chunk of a file that can be counted is followed by one that can.      *)
LEMMA CountedOn ==
  ASSUME NEW n \in Nat, NEW s \in Nat, n * ChunkSize < s, s <= (IndexWrap - 1) * ChunkSize
  PROVE  n + 1 < IndexWrap
<1>1. PICK c \in Nat \ {0} : c = ChunkSize
  BY ChunkAssumption
<1>2. PICK w \in Nat : w = IndexWrap - 1
  BY WrapAssumption
<1>3. n * c < w * c
  BY <1>1, <1>2
<1>4. CASE w <= n
  <2>1. w * c <= n * c /\ n * c \in Nat /\ w * c \in Nat
    BY <1>4, MoreOf
  <2> QED
    BY <1>3, <2>1
<1> QED
  BY <1>2, <1>4, WrapAssumption

(* The device takes the chunk it lacks. *)
LEMMA TakeKeeps ==
  ASSUME Shapes, Begun, Sending, Within, program = "usbconSend",
         UNCHANGED <<program, size, host>>, UsbChunk, Lacked(Head(down))
  PROVE  Shapes' /\ Begun' /\ Sending'
<1>1. /\ up \in Seq(Messages) /\ down \in Seq(Messages) /\ UNCHANGED up
      /\ down # << >> /\ down' = Tail(down) /\ dev.want \in Nat
  BY DEF Shapes, UsbChunk, Hears
<1>2. PICK c \in Messages : c = Head(down) /\ c \in Contents(down)
  BY <1>1, TailIsRest
<1>3. c.type = "chunk" /\ c.n = dev.want /\ c.data = NextPiece /\ c.n * ChunkSize < size
  <2>1. dev.want % IndexWrap = dev.want
    BY <1>1, Unwrapped DEF Sending
  <2>2. c.type = "chunk" /\ c.n = dev.want
    BY <1>2, <2>1 DEF UsbChunk, Hears, Lacked
  <2> QED
    BY <1>2, <2>2 DEF Sending, Numbered
<1>4. Coming
  BY <1>2, <1>3 DEF Coming
<1>5. down' \in Seq(Messages) /\ Contents(down') \subseteq Contents(down)
  BY <1>1, TailIsRest, RestKeeps
<1>6. dev' = Stored(NextPiece)
  BY <1>2, <1>3 DEF UsbChunk
<1>7. /\ DOMAIN dev' = DevFields /\ dev'.got = dev.got \o NextPiece /\ dev'.want = dev.want + 1
      /\ ~dev'.asked /\ dev'.pending = dev.pending /\ dev'.commands = dev.commands
      /\ dev'.outputs = dev.outputs /\ dev'.mode = "usbReceiving"
  <2>1. dev.mode = "usbReceiving"
    BY DEF UsbChunk
  <2> QED
    BY <1>6, <2>1, StoredIs
<1>8. Shapes'
  BY <1>1, <1>5, <1>7 DEF Shapes
<1>9. Begun' /\ (Enough => Enough')
  BY <1>7, PieceStored
<1>10. Finishing'
  BY <1>1, <1>5, <1>7, <1>9 DEF Sending, Finishing, Some
<1>11. \A m \in Contents(up) : m.type = "request" => m.n \in 0 .. dev.want
  BY DEF Sending, Numbered
<1>12. \A m \in Contents(down') : m.type = "chunk" => m.n <= dev.want /\ m.n \in Int
  <2>1. Contents(down) \subseteq Messages
    BY <1>1 DEF Contents
  <2> QED
    BY <1>5, <2>1 DEF Sending, Numbered, Messages
<1>13. Numbered'
  <2>1. \A m \in Contents(up') : m.type = "request" => m.n \in 0 .. dev'.want
    BY <1>1, <1>7, <1>11
  <2>2. \A m \in Contents(down') : m.type = "chunk" => m.n <= dev'.want /\ m.n # dev'.want
    BY <1>1, <1>7, <1>12
  <2>3. \A m \in Contents(down') : m.type = "chunk" => m.n * ChunkSize < size
    BY <1>5 DEF Sending, Numbered
  <2> QED
    BY <2>1, <2>2, <2>3 DEF Numbered
<1>14. ASSUME ~host.done
       PROVE  Reading'
  <2>1. Reading
    BY <1>14 DEF Sending
  <2>2. ~Coming' /\ ~Awaits'
    <3>1. \A m \in Contents(down') : m.type = "chunk" => m.n # dev'.want
      BY <1>1, <1>7, <1>12
    <3>2. \A m \in Contents(up') : m.type = "request" => m.n # dev'.want
      BY <1>1, <1>7, <1>11
    <3> QED
      BY <3>1, <3>2 DEF Coming, Awaits
  <2>3. (NoneAfter(up, Due, Requests))'
    <3>1. Contents(up') \cap Due' = {}
      BY <2>2 DEF Awaits, Due, Requests
    <3> QED
      BY <3>1, NoneInOrder
  <2>4. \A m \in Contents(up') :
          m.type = "request" => m.n = dev'.want \/ (m.n = 0 /\ dev'.want = 1)
    <3>1. CASE dev.want = 0
      BY <1>1, <1>7, <1>11, <3>1
    <3>2. CASE dev.want # 0
      BY <1>1, <1>4, <2>1, <3>2 DEF Reading, Some
    <3> QED
      BY <3>1, <3>2
  <2>5. host.pos = Smaller(dev'.want * ChunkSize, size)
    BY <1>4, <1>7, <2>1 DEF Reading
  <2> QED
    BY <2>2, <2>3, <2>4, <2>5 DEF Reading
<1>15. /\ host'.pc \in {"start", "command", "more", "serve", "ok"}
       /\ dev'.mode \in {"usb", "usbReceiving"}
       /\ \A x \in Contents(down') : x.type \in {"init", "ask", "command", "chunk", "end"}
       /\ ~host'.done => Reading'
  BY <1>5, <1>7, <1>14 DEF Sending
<1>16. dev'.want < IndexWrap
  <2>1. size \in Nat /\ size <= (IndexWrap - 1) * ChunkSize
    BY DEF Shapes, Within
  <2>2. dev.want * ChunkSize < size
    BY <1>3
  <2> QED
    BY <1>1, <1>7, <2>1, <2>2, CountedOn
<1> QED
  BY <1>8, <1>9, <1>10, <1>13, <1>15, <1>16 DEF Sending

(* The device hears the end. *)
LEMMA EndKeeps ==
  ASSUME Shapes, Begun, Sending, program = "usbconSend", UNCHANGED <<program, size, host>>,
         UsbEnd
  PROVE  Shapes' /\ Begun' /\ Sending'
<1>1. /\ up \in Seq(Messages) /\ down \in Seq(Messages)
      /\ down # << >> /\ down' = Tail(down) /\ dev.want \in Nat
  BY DEF Shapes, UsbEnd, Hears
<1>2. down' \in Seq(Messages) /\ Contents(down') \subseteq Contents(down) /\ Some(down, "end")
  <2>1. Head(down) \in Contents(down) /\ Head(down).type = "end"
    BY <1>1, TailIsRest DEF UsbEnd, Hears
  <2>2. down' \in Seq(Messages) /\ Contents(down') \subseteq Contents(down)
    BY <1>1, TailIsRest, RestKeeps
  <2> QED
    BY <2>1, <2>2 DEF Some
<1>3. host.done /\ Enough
  BY <1>2 DEF Sending, Finishing
<1>4. PICK m \in Messages : m = Message("request", 0, << >>) /\ m.type = "request" /\ m.n = 0
  BY IsNumbered DEF Kinds
<1>5. up' \in Seq(Messages) /\ Contents(up') = Contents(up) \cup {m}
  <2>1. up \o <<m>> = Append(up, m)
    BY <1>1
  <2>2. up' = Append(up, m)
    BY <1>4, <2>1 DEF UsbEnd, Printed
  <2> QED
    BY <1>1, <2>2, Added
<1>6. /\ DOMAIN dev' = DevFields /\ dev'.got = dev.got /\ dev'.want = dev.want
      /\ dev'.pending = dev.pending /\ dev'.commands = dev.commands
      /\ dev'.outputs \in Nat /\ dev'.mode = "usb"
  <2>1. dev' = [dev EXCEPT !.outputs = dev.outputs + 1, !.mode = "usb"]
    BY DEF UsbEnd
  <2>2. DOMAIN dev = DevFields /\ dev.outputs + 1 \in Nat
    BY DEF Shapes
  <2> QED
    BY <2>1, <2>2 DEF DevFields
<1>7. Shapes'
  BY <1>2, <1>5, <1>6 DEF Shapes
<1>8. Begun' /\ Enough' = Enough /\ NextPiece' = NextPiece
  BY <1>6, NothingStored DEF NextPiece, Wanted, PieceSize, BootChunkSize, Encoded, File
<1>9. Finishing'
  BY <1>3, <1>8 DEF Finishing
<1>10. Numbered'
  <2>1. 0 \in 0 .. dev.want
    BY <1>1
  <2> QED
    BY <1>2, <1>4, <1>5, <1>6, <1>8, <2>1 DEF Sending, Numbered
<1>11. /\ host'.pc \in {"start", "command", "more", "serve", "ok"}
       /\ dev'.mode \in {"usb", "usbReceiving"}
       /\ \A x \in Contents(down') : x.type \in {"init", "ask", "command", "chunk", "end"}
       /\ dev'.want < IndexWrap
  BY <1>2, <1>6 DEF Sending
<1> QED
  BY <1>3, <1>7, <1>8, <1>9, <1>10, <1>11 DEF Sending

LEMMA Wrapped ==
  ASSUME NEW n \in Nat
  PROVE  n % IndexWrap \in Nat /\ n % IndexWrap <= n /\ 0 % IndexWrap = 0
<1>1. PICK w \in Nat \ {0} : w = IndexWrap
  BY WrapAssumption
<1>2. (n % w) \in 0 .. w - 1 /\ n = w * (n \div w) + (n % w) /\ (n \div w) \in Nat
  OBVIOUS
<1>3. w * (n \div w) \in Nat
  BY <1>2
<1>4. (n % w) <= n
  BY <1>2, <1>3
<1>5. (0 % w) = 0
  OBVIOUS
<1> QED
  BY <1>1, <1>2, <1>4, <1>5

(* A request is taken and answered: what it asks for is at most what the   *)
(* device lacks, and is past the end only if the device has everything.    *)
LEMMA Serving ==
  ASSUME Shapes, Sending, program = "usbconSend", Got("request"), up' = Tail(up)
  PROVE  /\ up' \in Seq(Messages) /\ Contents(up') \subseteq Contents(up)
         /\ \A S, T : NoneAfter(up, S, T) => NoneAfter(up', S, T)
         /\ Head(up) \in Contents(up) /\ Head(up) \in Requests
         /\ Head(up).n \in 0 .. dev.want
         /\ Head(up).n % IndexWrap \in 0 .. Head(up).n
         /\ Offset \in Nat /\ Offset <= dev.want * ChunkSize
         /\ Offset = (Head(up).n % IndexWrap) * ChunkSize
         /\ (PastEnd => Enough) /\ (host.done /\ ~PastEnd => Offset # dev.want * ChunkSize)
<1>1. up \in Seq(Messages) /\ up # << >> /\ dev.want \in Nat
  BY DEF Shapes, Got
<1>2. PICK h \in Messages : h = Head(up) /\ h \in Contents(up)
  BY <1>1, TailIsRest
<1>3. h \in Requests /\ h.n \in 0 .. dev.want
  BY <1>2 DEF Got, Requests, Sending, Numbered
<1>4. PICK k \in Nat : k = h.n % IndexWrap /\ k <= h.n
  <2>1. PICK n \in Nat : n = h.n
    BY <1>1, <1>3
  <2>2. n % IndexWrap \in Nat /\ n % IndexWrap <= n
    BY Wrapped
  <2> QED
    BY <2>1, <2>2
<1>5. ChunkSize \in Nat \ {0}
  BY ChunkAssumption
<1>6. PICK o \in Nat : o = Offset /\ o = k * ChunkSize
  BY <1>2, <1>4, <1>5 DEF Offset
<1>7. k <= dev.want
  BY <1>1, <1>3, <1>4
<1>8. o <= dev.want * ChunkSize /\ dev.want * ChunkSize \in Nat
  BY <1>1, <1>5, <1>6, <1>7, MoreOf
<1>9. Enough <=> dev.want * ChunkSize >= size
  BY DEF Enough, PieceSize, Total
<1>10. size \in Nat
  BY DEF Shapes
<1>11. PastEnd => Enough
  BY <1>6, <1>8, <1>9, <1>10 DEF PastEnd
<1>12. host.done /\ ~PastEnd => Offset # dev.want * ChunkSize
  BY <1>6, <1>8, <1>9, <1>10 DEF PastEnd, Sending, Finishing
<1>13. /\ up' \in Seq(Messages) /\ Contents(up') \subseteq Contents(up)
       /\ \A S, T : NoneAfter(up, S, T) => NoneAfter(up', S, T)
  BY <1>1, TailIsRest, RestKeeps
<1>14. h.n % IndexWrap \in 0 .. h.n
  BY <1>3, <1>4
<1> QED
  BY <1>2, <1>3, <1>4, <1>6, <1>8, <1>11, <1>12, <1>13, <1>14

LEMMA ServeEndKeeps ==
  ASSUME Shapes, Begun, Sending, program = "usbconSend", UNCHANGED <<program, size, dev>>,
         ServeEnd
  PROVE  Shapes' /\ Begun' /\ Sending'
<1>1. /\ up' \in Seq(Messages) /\ Contents(up') \subseteq Contents(up) /\ Enough
  BY Serving DEF ServeEnd
<1>2. PICK m \in Messages : m = Plain("end") /\ m.type = "end"
  BY IsPlain DEF Kinds
<1>3. down' \in Seq(Messages) /\ Contents(down') = Contents(down) \cup {m}
  <2>1. down \in Seq(Messages) /\ down' = Append(down, m)
    BY <1>2 DEF Shapes, ServeEnd, Say
  <2> QED
    BY <2>1, Added
<1>4. /\ DOMAIN host' = HostFields /\ host'.sendNo = host.sendNo /\ host'.recvNo = host.recvNo
      /\ host'.pos = host.pos /\ host'.done /\ host'.pc = host.pc
  BY DEF ServeEnd, Shapes, HostFields
<1>5. Shapes'
  BY <1>1, <1>3, <1>4 DEF Shapes
<1>6. Begun' /\ Enough' = Enough /\ NextPiece' = NextPiece
  BY NothingStored DEF NextPiece, Wanted, PieceSize, BootChunkSize, Encoded, File
<1>7. Finishing'
  BY <1>1, <1>4, <1>6 DEF Finishing
<1>8. Numbered'
  BY <1>1, <1>2, <1>3, <1>6 DEF Sending, Numbered
<1>9. /\ host'.pc \in {"start", "command", "more", "serve", "ok"}
      /\ dev'.mode \in {"usb", "usbReceiving"}
      /\ \A x \in Contents(down') : x.type \in {"init", "ask", "command", "chunk", "end"}
  BY <1>2, <1>3, <1>4 DEF Sending
<1> QED
  BY <1>4, <1>5, <1>6, <1>7, <1>8, <1>9 DEF Sending

LEMMA BytesIs ==
  ASSUME Shapes, NEW p \in Nat, NEW c \in Nat
  PROVE  Bytes(p, c) = Piece(File, p, p + c) /\ Bytes(p, c) \in Seq(Int)
<1>1. Bytes(p, c) = Piece(File, p, p + c)
  BY WantedIs DEF Bytes, Piece
<1>2. p + c \in Nat /\ File \in Seq(Int)
  BY WantedIs
<1>3. Piece(File, p, p + c) \in Seq(Int)
  BY <1>2, PieceIsSeq
<1> QED
  BY <1>1, <1>3

LEMMA ServeChunkKeeps ==
  ASSUME Shapes, Begun, Sending, program = "usbconSend", UNCHANGED <<program, size, dev>>,
         ServeChunk
  PROVE  Shapes' /\ Begun' /\ Sending'
<1>1. PICK h \in Requests : h = Head(up) /\ h \in Contents(up) /\ h.n \in 0 .. dev.want
  BY Serving DEF ServeChunk
<1>2. PICK k \in Nat : k = h.n % IndexWrap /\ k <= h.n /\ k \in 0 .. h.n
  BY <1>1, Serving DEF ServeChunk
<1>3. PICK o \in Nat : o = Offset /\ o = k * ChunkSize
  BY <1>1, <1>2, Serving DEF ServeChunk
<1>4. /\ up' \in Seq(Messages) /\ Contents(up') \subseteq Contents(up)
      /\ NoneAfter(up, Due, Requests) => NoneAfter(up', Due, Requests)
  BY Serving DEF ServeChunk
<1>5. PICK p \in Nat : p = Position
  <2>1. host.pos \in Nat
    BY DEF Shapes
  <2> QED
    BY <2>1 DEF Position
<1>6. /\ dev.want \in Nat /\ size \in Nat /\ ChunkSize \in Nat \ {0}
      /\ up \in Seq(Messages) /\ down \in Seq(Messages)
  BY ChunkAssumption DEF Shapes
<1>7. o < size
  BY <1>3, <1>6 DEF ServeChunk, PastEnd
<1>8. k <= dev.want /\ (k = dev.want => h.n = dev.want)
  BY <1>1, <1>2, <1>6
<1>9. k = dev.want /\ k > 0 => ~host.done
  BY <1>3, Serving DEF ServeChunk
<1>10. k = dev.want /\ k > 0 => p = dev.want * ChunkSize
  <2>1. SUFFICES ASSUME k = dev.want, k > 0
                 PROVE  p = dev.want * ChunkSize
    OBVIOUS
  <2>2. Awaits
    BY <1>1, <1>8, <2>1 DEF Awaits, Requests
  <2>3. Reading
    BY <1>9, <2>1 DEF Sending
  <2>4. host.pos = Smaller(dev.want * ChunkSize, size)
    BY <2>1, <2>2, <2>3 DEF Reading
  <2>5. host.pos = o
    BY <1>3, <1>6, <1>7, <2>1, <2>4 DEF Smaller
  <2>6. o # 0
    BY <1>3, <1>6, <2>1
  <2> QED
    BY <1>3, <1>5, <2>1, <2>5, <2>6 DEF Position
<1>11. k = 0 => p = 0 /\ o = 0
  <2>1. k = 0 => o = 0
    <3>1. 0 * ChunkSize = 0
      BY <1>6
    <3> QED
      BY <1>3, <3>1
  <2> QED
    BY <1>3, <1>5, <2>1 DEF Position
<1>12. k = dev.want => p = dev.want * ChunkSize
  BY <1>6, <1>10, <1>11
<1>13. PICK x \in Seq(Int) : x = Bytes(p, ChunkSize) /\ x = Piece(File, p, p + ChunkSize)
  BY <1>5, <1>6, BytesIs
<1>14. k = dev.want => x = NextPiece
  <2>1. Wanted = File /\ PieceSize = ChunkSize
    BY DEF Wanted, PieceSize
  <2>2. (dev.want + 1) * PieceSize = dev.want * PieceSize + PieceSize
    BY HasPiece
  <2> QED
    BY <1>12, <1>13, <2>1, <2>2 DEF NextPiece
<1>15. PICK m \in Messages : /\ m = Message("chunk", k, x)
                             /\ m.type = "chunk" /\ m.n = k /\ m.data = x
  BY <1>2, IsMessage DEF Kinds
<1>16. down' \in Seq(Messages) /\ Contents(down') = Contents(down) \cup {m}
  <2>1. down' = Append(down, m)
    BY <1>1, <1>2, <1>5, <1>13, <1>15 DEF ServeChunk, Say
  <2> QED
    BY <1>6, <2>1, Added
<1>17. /\ DOMAIN host' = HostFields /\ host'.sendNo = host.sendNo /\ host'.recvNo = host.recvNo
       /\ host'.done = host.done /\ host'.pc = host.pc
       /\ host'.pos = Smaller(p + ChunkSize, size)
  BY <1>5 DEF ServeChunk, Shapes, HostFields
<1>18. host'.pos \in Nat
  BY <1>6, <1>17 DEF Smaller
<1>19. Shapes'
  BY <1>4, <1>16, <1>17, <1>18 DEF Shapes
<1>20. Begun' /\ Enough' = Enough /\ NextPiece' = NextPiece /\ Due' = Due
  BY NothingStored DEF NextPiece, Wanted, PieceSize, BootChunkSize, Encoded, File, Due
<1>21. Finishing'
  BY <1>4, <1>15, <1>16, <1>17, <1>20 DEF Sending, Finishing, Some
<1>22. Numbered'
  <2>1. k * ChunkSize < size
    BY <1>3, <1>7
  <2> QED
    BY <1>4, <1>8, <1>14, <1>15, <1>16, <1>20, <2>1 DEF Sending, Numbered
<1>23. ASSUME ~host.done
       PROVE  Reading'
  <2>1. Reading
    BY <1>23 DEF Sending
  <2>2. dev.want > 0 => (NoneAfter(up, Due, Requests))'
    BY <1>4, <1>20, <2>1 DEF Reading
  <2>3. \A y \in Contents(up') :
          y.type = "request" => y.n = dev'.want \/ (y.n = 0 /\ dev'.want = 1)
    BY <1>4, <2>1 DEF Reading
  <2>4. Awaits' => Awaits
    BY <1>4 DEF Awaits
  <2>5. h.type = "request" /\ Some(up, "request")
    BY <1>1 DEF Requests, Some
  <2>6. dev.want > 0 => ~Coming
    BY <2>1, <2>5 DEF Reading
  <2>7. Coming' => Coming \/ k = dev.want
    BY <1>15, <1>16 DEF Coming
  <2>8. CASE h.n = dev.want
    <3>1. dev.want > 0 => Contents(up') \cap Requests = {}
      <4>1. h \in Due
        BY <1>1, <2>8 DEF Due
      <4>2. up # << >> /\ up' = Tail(up)
        BY DEF ServeChunk, Got
      <4> QED
        BY <1>1, <1>6, <2>1, <4>1, <4>2, HeadTaken DEF Reading
    <3>2. dev.want > 0 => ~(Some(up, "request"))' /\ ~Awaits'
      <4>1. Contents(up') \subseteq Messages
        BY <1>4 DEF Contents
      <4> QED
        BY <3>1, <4>1 DEF Some, Awaits, Requests
    <3>3. dev.want > 0 => dev.asked
      BY <1>1, <2>1, <2>5, <2>8 DEF Reading, Awaits
    <3>4. k = dev.want => host'.pos = Smaller((dev.want + 1) * ChunkSize, size)
      <4>1. (dev.want + 1) * ChunkSize = dev.want * ChunkSize + ChunkSize
        BY <1>6, Products
      <4> QED
        BY <1>12, <1>17, <4>1
    <3>5. dev.want = 0 => k = dev.want
      BY <1>2, <1>6, <2>8
    <3>6. Coming' => k = dev.want
      BY <1>6, <2>6, <2>7, <3>5
    <3> QED
      BY <2>2, <2>3, <3>2, <3>3, <3>4, <3>6 DEF Reading
  <2>9. CASE h.n # dev.want
    <3>1. h.n = 0 /\ dev.want = 1
      BY <1>1, <2>1, <2>5, <2>9 DEF Reading
    <3>2. k = 0 /\ p = 0
      BY <1>2, <1>11, <3>1
    <3>3. host'.pos = Smaller(dev.want * ChunkSize, size)
      BY <1>6, <1>17, <3>1, <3>2
    <3>4. ~Coming'
      BY <2>6, <2>7, <3>1, <3>2
    <3>5. Awaits' => dev.asked
      BY <2>1, <2>4, <3>1 DEF Reading
    <3> QED
      BY <2>2, <2>3, <3>3, <3>4, <3>5 DEF Reading
  <2> QED
    BY <2>8, <2>9
<1>24. /\ host'.pc \in {"start", "command", "more", "serve", "ok"}
       /\ dev'.mode \in {"usb", "usbReceiving"}
       /\ \A y \in Contents(down') : y.type \in {"init", "ask", "command", "chunk", "end"}
       /\ ~host'.done => Reading'
  BY <1>15, <1>16, <1>17, <1>23 DEF Sending
<1> QED
  BY <1>19, <1>20, <1>21, <1>22, <1>24 DEF Sending

LEMMA SendKeeps ==
  ASSUME Shapes, Begun, Sending, Within, program = "usbconSend", Next
  PROVE  Shapes' /\ Begun' /\ Sending'
BY SendActions, SendHostKeeps, OpenConsoleKeeps, ServeChunkKeeps, ServeEndKeeps,
   SendDeviceKeeps, AskKeeps, TakeKeeps, EndKeeps

-----------------------------------------------------------------------------
(* The serial line: sercon, and the emulator's BootSerial.                 *)

Ready == {m \in Messages : m.type = "ready"}
Prepare == {m \in Messages : m.type = "prepare"}
Empties == {m \in Messages : m.type = "empty"}

(* A line of which nothing was lost is the first of what is there.         *)
LEMMA LineIs ==
  ASSUME up \in Seq(Messages), HasLine
  PROVE  /\ up # << >> /\ LineEnd \in 1 .. Len(up)
         /\ Line.type # "other" => LineEnd = 1 /\ Line = Head(up)
<1> DEFINE S == {i \in 1 .. Len(up) : ~IsByte(up[i])}
<1>1. S # {} /\ S \in SUBSET Nat
  BY DEF HasLine
<1>2. PICK i \in S : \A k \in S : i <= k
  BY <1>1, LeastNumber
<1>3. ~IsByte(up[i]) /\ \A j \in 1 .. i - 1 : IsByte(up[j])
  BY <1>2
<1>4. LineEnd \in 1 .. Len(up)
  BY <1>2, <1>3 DEF LineEnd
<1>5. up # << >> /\ up[1] = Head(up)
  BY <1>1
<1>6. Other.type = "other"
  BY IsPlain DEF Other, Kinds
<1> QED
  BY <1>4, <1>5, <1>6 DEF Line

(* What the program has read, and what may come in between: nothing that   *)
(* was announced before is announced after it. *)
Heard ==
  /\ up' \in Seq(Messages)
  /\ \A m \in Contents(up') : m \in Contents(up) \/ m.type \notin {"ready", "prepare", "done"}
  /\ NoneAfter(up, Ready, Ready) => NoneAfter(up', Ready, Ready)
  /\ NoneAfter(up, Prepare, Ready) => NoneAfter(up', Prepare, Ready)

LEMMA RestHeard ==
  ASSUME up \in Seq(Messages), NEW k \in 1 .. Len(up), up' = SubSeq(up, k + 1, Len(up))
  PROVE  Heard
<1>1. up' \in Seq(Messages) /\ IsRest(up', up)
  BY SubSeqIsRest
<1> QED
  BY <1>1, RestKeeps DEF Heard

LEMMA ReplacedHeard ==
  ASSUME up \in Seq(Messages), up # << >>, NEW m \in Messages, up' = <<m>> \o Tail(up),
         m.type \notin {"ready", "prepare", "done"}
  PROVE  Heard
<1>1. m \notin Ready /\ m \notin Prepare
  BY DEF Ready, Prepare
<1> QED
  BY <1>1, Replaced DEF Heard

LEMMA AddedHeard ==
  ASSUME up \in Seq(Messages), NEW m \in Messages, up' = up \o <<m>>,
         m.type \notin {"ready", "prepare", "done"}
  PROVE  Heard
<1>1. m \notin Ready
  BY DEF Ready
<1>2. up \o <<m>> = Append(up, m)
  OBVIOUS
<1>3. up' = Append(up, m)
  BY <1>2
<1>4. /\ Append(up, m) \in Seq(Messages)
      /\ Contents(Append(up, m)) = Contents(up) \cup {m}
  BY Added
<1>5. up' \in Seq(Messages) /\ Contents(up') = Contents(up) \cup {m}
  BY <1>3, <1>4, Zenon
<1> QED
  BY <1>1, <1>3, <1>5, AddedInOrder DEF Heard

LEMMA SameHeard ==
  ASSUME up \in Seq(Messages), UNCHANGED up
  PROVE  Heard
BY DEF Heard

LEMMA AllHeard ==
  ASSUME up \in Seq(Messages), up' = << >>
  PROVE  Heard
BY EmptyIsRest, RestKeeps DEF Heard

LEMMA OtherIs == Other \in Messages /\ Other.type = "other"
  BY IsPlain DEF Other, Kinds

(* Every way sercon has to read. *)
LEMMA ReadsHeard ==
  ASSUME Shapes,
         \/ ReadLine \/ NoLine \/ PartOfLine \/ ReadTwo \/ ReadOfLine \/ NoByte
  PROVE  Heard
<1>1. up \in Seq(Messages)
  BY DEF Shapes
<1>2. CASE ReadLine
  BY <1>1, <1>2, LineIs, RestHeard DEF ReadLine
<1>3. CASE NoLine \/ NoByte
  BY <1>1, <1>3, SameHeard DEF NoLine, NoByte
<1>4. CASE PartOfLine
  BY <1>1, <1>4, AllHeard DEF PartOfLine
<1>5. CASE ReadTwo
  <2>1. up # << >> /\ up' = Tail(up)
    BY <1>5 DEF ReadTwo
  <2>2. 1 \in 1 .. Len(up) /\ up' = SubSeq(up, 1 + 1, Len(up))
    BY <1>1, <2>1
  <2> QED
    BY <1>1, <2>2, RestHeard
<1>6. CASE ReadOfLine
  BY <1>1, <1>6, OtherIs, ReplacedHeard DEF ReadOfLine
<1> QED
  BY <1>2, <1>3, <1>4, <1>5, <1>6

Places == {"start", "check", "waitReady", "reboot", "rebootReply", "waitLoad", "rcv",
           "rcvReply", "lines", "ok", "failed"}

SerialModes == {"console", "prompting", "on", "loader", "loading", "receiving", "booted", "off"}

Fitting(m) ==
  /\ m.type = "chunk" => m.data = Bytes(m.n * ChunkSize, ChunkSize)
  /\ m.type = "rcv" => m.n = size

Carried ==
  /\ host.pc \in Places /\ dev.mode \in SerialModes
  /\ \A m \in Contents(down) : Fitting(m)
  /\ dev.mode \in {"loading", "receiving"} => dev.total = size
  /\ Some(up, "done") => Enough

(* sercon's own steps, and what may happen to what it reads and writes.    *)
Acts ==
  \/ BootNothing
  \/ CheckConsole \/ ConsoleThere \/ ConsoleBusy \/ ReadyLine
  \/ SendReboot \/ SendRcv \/ ReadReply \/ LoadLine
  \/ SendChunk \/ RefuseChunk \/ FileSent \/ OtherLine
  \/ NoReply \/ (NoReadyLine /\ Silent)
  \/ NoLoadLine \/ NoMoreLines \/ BrokenLine \/ ConsoleAbsent
  \/ Chatter \/ SpoilLine \/ SpoilChunk

DeviceActs ==
  \/ ConsoleEmpty \/ Prompt \/ ConsoleReboot \/ ConsoleRcv \/ Announce \/ LoaderRcv
  \/ Ignore \/ AskChunk \/ TakeChunk \/ AskAgain
  \/ AskEarly \/ SwitchOff

LEMMA SerialActions ==
  ASSUME Shapes, Carried, program \in Serial, Next
  PROVE  /\ UNCHANGED <<program, size>>
         /\ \/ UNCHANGED dev /\ Acts /\ (program = "BootSerial" => BootNothing)
            \/ UNCHANGED dev /\ BootLine
            \/ UNCHANGED host /\ DeviceActs /\ (AskEarly \/ SwitchOff => Line1)
<1>1. program # "usbconSend" /\ program # "usbconBoot"
  BY DEF Serial
<1>2. CASE HostStep
  <2>1. ~UsbconStep \/ BootNothing
    BY <1>1 DEF UsbconStep, BootHello, BootParams, BootSend, BootDone, OpenConsole, CommandAgain,
          CommandAnswered, NextOutput, WrongOutput, NoOutput, ServeChunk, ServeEnd,
          ServeDone, ServeOutput, ServePrompt, ServeOther, At, Carried, Places
  <2>2. CASE HostOfDevice
    BY <1>2, <2>2 DEF HostStep, HostOfDevice, SerconStep, Acts
  <2>3. CASE BootLine
    BY <1>2, <2>3 DEF HostStep
  <2>4. CASE UsbconStep
    BY <1>2, <2>1, <2>4 DEF HostStep, Acts
  <2> QED
    BY <1>2, <2>2, <2>3, <2>4 DEF HostStep
<1>3. CASE Timeout
  BY <1>3 DEF Timeout, StartingUp, Line1, LongTimeout, ShortTimeout, Acts
<1>4. CASE SerialDevice
  BY <1>4 DEF SerialDevice, HostUnchanged, DeviceActs, AskEarly, SwitchOff
<1>5. ~UsbDevice
  BY DEF UsbDevice, UsbHello, UsbParams, UsbBootChunk, UsbAsk, UsbInit, UsbCommand, UsbOutput,
         UsbNotReady, UsbAskChunk, UsbChunk, UsbEnd, Carried, SerialModes
<1>6. CASE Faults
  <2>1. ~ItemTwice /\ ~AskTwice
    BY <1>1 DEF ItemTwice, AskTwice
  <2>2. GiveUpEarly => Line1 /\ UNCHANGED dev /\ (NoReply \/ ConsoleAbsent)
    BY DEF GiveUpEarly, ShortTimeout
  <2> QED
    BY <1>6, <2>1, <2>2 DEF Faults, Fault, Line1, SpoilChunk, SpoilLine, AskEarly, Chatter,
       SwitchOff, Acts, DeviceActs
<1> QED
  BY <1>2, <1>3, <1>4, <1>5, <1>6 DEF Next

(* Where sercon goes on. *)
Moves ==
  \/ host'.pc = host.pc
  \/ host'.pc = "failed"
  \/ CheckConsole /\ host.pc = "start" /\ host'.pc = "check"
  \/ host.pc = "check" /\ host'.pc \in {"waitReady", AfterCheck}
  \/ /\ (NoReadyLine /\ Silent) \/ (ReadyLine /\ Line.type = "ready")
     /\ host.pc = "waitReady" /\ host'.pc = AfterReady
  \/ host.pc = "reboot" /\ host'.pc = "rebootReply"
  \/ host.pc = "rcv" /\ host'.pc = AfterRcv
  \/ host.pc \in {"rcvReply", "rebootReply"} /\ host'.pc = AfterReply
  \/ LoadLine /\ Line.type = "prepare" /\ host.pc = "waitLoad" /\ host'.pc = "rcv"
  \/ FileSent /\ host.pc = "lines" /\ host'.pc = "ok"

LEMMA HostMoves ==
  ASSUME Shapes, Carried, Acts
  PROVE  /\ Moves /\ host'.pc \in Places
         /\ DOMAIN host' = HostFields
         /\ host'.pos = host.pos /\ host'.sendNo = host.sendNo /\ host'.recvNo = host.recvNo
         /\ (CheckConsole => host.pc = "start" /\ host'.pc = "check")
         /\ (SendReboot => host.pc = "reboot") /\ (SendRcv => host.pc = "rcv" /\ host'.pc = AfterRcv)
<1> USE DEF At, Goto
<1>1. /\ AfterCheck \in Places /\ AfterReady \in Places /\ AfterRcv \in Places
      /\ AfterReply \in Places /\ host.pc \in Places
  BY DEF AfterCheck, AfterReady, AfterRcv, AfterReply, Places, Carried
<1>2. DOMAIN host = HostFields
  BY DEF Shapes
<1>3. ASSUME NEW x, host' = [host EXCEPT !.pc = x]
      PROVE  /\ DOMAIN host' = HostFields /\ host'.pc = x
             /\ host'.pos = host.pos /\ host'.sendNo = host.sendNo /\ host'.recvNo = host.recvNo
  BY <1>2, <1>3 DEF HostFields
<1>4. CASE UNCHANGED host /\ ~CheckConsole /\ ~SendReboot /\ ~SendRcv
  BY <1>1, <1>2, <1>4 DEF Moves
<1>5. CASE CheckConsole
  <2>1. host' = [host EXCEPT !.pc = "check"] /\ host.pc = "start"
    BY <1>5 DEF CheckConsole
  <2>2. ~SendReboot /\ ~SendRcv
    BY <2>1 DEF SendReboot, SendRcv
  <2> QED
    BY <1>3, <1>5, <2>1, <2>2 DEF Moves, Places
<1>6. CASE SendReboot
  <2>1. host' = [host EXCEPT !.pc = "rebootReply"] /\ host.pc = "reboot"
    BY <1>6 DEF SendReboot
  <2>2. ~CheckConsole /\ ~SendRcv
    BY <2>1 DEF CheckConsole, SendRcv
  <2> QED
    BY <1>3, <1>6, <2>1, <2>2 DEF Moves, Places
<1>7. CASE SendRcv
  <2>1. host' = [host EXCEPT !.pc = AfterRcv] /\ host.pc = "rcv"
    BY <1>7 DEF SendRcv
  <2>2. ~CheckConsole /\ ~SendReboot
    BY <2>1 DEF CheckConsole, SendReboot
  <2> QED
    BY <1>1, <1>3, <1>7, <2>1, <2>2 DEF Moves
<1>8. ASSUME ~CheckConsole, ~SendReboot, ~SendRcv, ~UNCHANGED host
      PROVE  \E x \in Places :
               /\ host' = [host EXCEPT !.pc = x]
               /\ \/ x = host.pc \/ x = "failed"
                  \/ host.pc = "check" /\ x \in {"waitReady", AfterCheck}
                  \/ /\ (NoReadyLine /\ Silent) \/ (ReadyLine /\ Line.type = "ready")
                     /\ host.pc = "waitReady" /\ x = AfterReady
                  \/ host.pc \in {"rcvReply", "rebootReply"} /\ x = AfterReply
                  \/ LoadLine /\ Line.type = "prepare" /\ host.pc = "waitLoad" /\ x = "rcv"
                  \/ FileSent /\ host.pc = "lines" /\ x = "ok"
  <2>1. {"check", "waitReady", "waitLoad", "rcv", "lines", "failed", "ok"} \subseteq Places
    BY DEF Places
  <2>2. CASE ReadyLine
    BY <1>1, <2>1, <2>2 DEF ReadyLine
  <2>3. CASE LoadLine
    BY <1>1, <2>1, <2>3 DEF LoadLine
  <2>4. CASE ConsoleThere \/ ConsoleBusy \/ ConsoleAbsent
    BY <1>1, <2>1, <2>4 DEF ConsoleThere, ConsoleBusy, ConsoleAbsent
  <2>5. CASE (NoReadyLine /\ Silent) \/ NoLoadLine \/ NoMoreLines \/ RefuseChunk \/ FileSent
    BY <1>1, <2>1, <2>5 DEF NoReadyLine, NoLoadLine, NoMoreLines, RefuseChunk, FileSent
  <2>6. CASE ReadReply \/ NoReply
    BY <1>1, <2>1, <2>6 DEF ReadReply, NoReply
  <2>7. ~BootNothing /\ ~SendChunk /\ ~OtherLine /\ ~BrokenLine /\ ~Chatter /\ ~SpoilLine /\ ~SpoilChunk
    BY <1>8 DEF BootNothing, SendChunk, OtherLine, BrokenLine, Chatter, SpoilLine, SpoilChunk
  <2> QED
    BY <1>8, <2>2, <2>3, <2>4, <2>5, <2>6, <2>7 DEF Acts
<1>9. CASE ~CheckConsole /\ ~SendReboot /\ ~SendRcv /\ ~UNCHANGED host
  <2>1. PICK x \in Places :
               /\ host' = [host EXCEPT !.pc = x]
               /\ \/ x = host.pc \/ x = "failed"
                  \/ host.pc = "check" /\ x \in {"waitReady", AfterCheck}
                  \/ /\ (NoReadyLine /\ Silent) \/ (ReadyLine /\ Line.type = "ready")
                     /\ host.pc = "waitReady" /\ x = AfterReady
                  \/ host.pc \in {"rcvReply", "rebootReply"} /\ x = AfterReply
                  \/ LoadLine /\ Line.type = "prepare" /\ host.pc = "waitLoad" /\ x = "rcv"
                  \/ FileSent /\ host.pc = "lines" /\ x = "ok"
    BY <1>8, <1>9
  <2> QED
    BY <1>3, <1>9, <2>1 DEF Moves
<1> QED
  BY <1>4, <1>5, <1>6, <1>7, <1>9

LEMMA HostHears ==
  ASSUME Shapes, Acts
  PROVE  Heard
<1>1. up \in Seq(Messages)
  BY DEF Shapes
<1>2. CASE UNCHANGED up
  BY <1>1, <1>2, SameHeard
<1>3. CASE BootNothing
  <2>1. 1 \in 1 .. Len(up) /\ up' = SubSeq(up, 1 + 1, Len(up))
    BY <1>1, <1>3 DEF BootNothing, Got
  <2> QED
    BY <1>1, <2>1, RestHeard
<1>4. CASE Chatter
  <2>1. up' = Append(up, Other)
    BY <1>4 DEF Chatter
  <2>2. Append(up, Other) = up \o <<Other>>
    BY <1>1, OtherIs
  <2>3. up' = up \o <<Other>>
    BY <2>1, <2>2, Zenon
  <2> QED
    BY <1>1, <2>3, OtherIs, AddedHeard
<1>5. CASE SpoilLine
  <2>1. \A n \in Int : Message("send", n, << >>) \in Messages
                       /\ Message("send", n, << >>).type = "send"
    BY IsNumbered DEF Kinds
  <2>2. dev.want + 1 \in Int /\ dev.want - 1 \in Int
    BY DEF Shapes
  <2>3. PICK m \in Messages : m.type \in {"send", "other"} /\ up' = <<m>> \o Tail(up)
    BY <1>5, <2>1, <2>2, OtherIs DEF SpoilLine
  <2>4. up # << >>
    BY <1>5 DEF SpoilLine
  <2> QED
    BY <1>1, <2>3, <2>4, ReplacedHeard
<1>6. CASE CheckConsole \/ SendReboot \/ SendRcv \/ SpoilChunk
  <2>1. UNCHANGED up
    BY <1>6 DEF CheckConsole, SendReboot, SendRcv, SpoilChunk
  <2> QED
    BY <1>2, <2>1
<1>7. CASE \/ ConsoleThere \/ ConsoleBusy \/ ReadyLine \/ ReadReply \/ LoadLine
           \/ SendChunk \/ RefuseChunk \/ FileSent \/ OtherLine
           \/ NoReply \/ NoReadyLine \/ NoLoadLine \/ NoMoreLines \/ BrokenLine \/ ConsoleAbsent
  <2>1. ReadLine \/ NoLine \/ PartOfLine \/ ReadTwo \/ ReadOfLine \/ NoByte
    BY <1>7 DEF ConsoleThere, ConsoleBusy, ReadyLine, ReadReply, LoadLine, SendChunk, RefuseChunk,
       FileSent, OtherLine, NoReply, NoReadyLine, NoLoadLine, NoMoreLines, BrokenLine, ConsoleAbsent
  <2> QED
    BY <2>1, ReadsHeard
<1> QED
  BY <1>3, <1>4, <1>5, <1>6, <1>7 DEF Acts

LEMMA ChunkFits ==
  ASSUME Shapes, NEW n \in Nat
  PROVE  /\ ChunkOf(n) \in Messages /\ Fitting(ChunkOf(n))
         /\ ChunkOf(n).type = "chunk" /\ ChunkOf(n).n = n
<1>1. n * ChunkSize \in Nat /\ ChunkSize \in Nat
  BY ChunkAssumption, Products
<1>2. PICK x \in Seq(Int) : x = Bytes(n * ChunkSize, ChunkSize)
  BY <1>1, BytesIs
<1>3. /\ ChunkOf(n) \in Messages /\ ChunkOf(n).type = "chunk" /\ ChunkOf(n).n = n
      /\ ChunkOf(n).data = x
  BY <1>2, IsMessage DEF ChunkOf, Kinds
<1> QED
  BY <1>2, <1>3 DEF Fitting

(* What sercon writes. *)
LEMMA HostSays ==
  ASSUME Shapes, Carried, Acts
  PROVE  /\ down' \in Seq(Messages)
         /\ \A m \in Contents(down') :
              \/ m \in Contents(down)
              \/ /\ Fitting(m) /\ m.type \in {"empty", "reboot", "rcv", "chunk"}
                 /\ (m.type = "empty" => CheckConsole)
                 /\ (m.type = "reboot" => SendReboot)
                 /\ (m.type = "rcv" => SendRcv)
         /\ NoneAfter(down, Empties, Empties) /\ ~CheckConsole =>
              NoneAfter(down', Empties, Empties)
<1>1. up \in Seq(Messages) /\ down \in Seq(Messages) /\ size \in Int
  BY DEF Shapes
<1>2. CASE UNCHANGED down
  BY <1>1, <1>2
<1>3. ASSUME NEW m \in Messages, down' = Append(down, m), m.type # "empty"
      PROVE  /\ down' \in Seq(Messages) /\ Contents(down') = Contents(down) \cup {m}
             /\ NoneAfter(down, Empties, Empties) => NoneAfter(down', Empties, Empties)
  <2>1. m \notin Empties
    BY <1>3 DEF Empties
  <2> QED
    BY <1>1, <1>3, <2>1, Added, AddedInOrder
<1>4. CASE CheckConsole
  <2>1. PICK m \in Messages : m = Plain("empty") /\ m.type = "empty"
    BY IsPlain DEF Kinds
  <2>2. down' = Append(down, m)
    BY <1>4, <2>1 DEF CheckConsole, Say
  <2>3. down' \in Seq(Messages) /\ Contents(down') = Contents(down) \cup {m}
    BY <1>1, <2>2, Added
  <2> QED
    BY <1>4, <2>1, <2>3 DEF Fitting
<1>5. CASE SendReboot
  <2>1. PICK m \in Messages : m = Plain("reboot") /\ m.type = "reboot"
    BY IsPlain DEF Kinds
  <2>2. down' = Append(down, m)
    BY <1>5, <2>1 DEF SendReboot, Say
  <2> QED
    BY <1>3, <1>5, <2>1, <2>2 DEF Fitting
<1>6. CASE SendRcv
  <2>1. PICK m \in Messages : m = Message("rcv", size, << >>) /\ m.type = "rcv" /\ m.n = size
    BY <1>1, IsNumbered DEF Kinds
  <2>2. down' = Append(down, m)
    BY <1>6, <2>1 DEF SendRcv, Say
  <2> QED
    BY <1>3, <1>6, <2>1, <2>2 DEF Fitting
<1>7. CASE SendChunk
  <2>1. Line = Head(up) /\ up # << >>
    BY <1>1, <1>7, LineIs DEF SendChunk
  <2>2. Line \in Messages
    BY <1>1, <2>1, TailIsRest
  <2>3. PICK n \in Nat : n = Line.n
    BY <1>7, <2>2 DEF SendChunk, ValidIndex, Messages
  <2>4. PICK m \in Messages : m = ChunkOf(n) /\ m.type = "chunk" /\ Fitting(m)
    BY ChunkFits
  <2>5. down' = Append(down, m)
    BY <1>7, <2>3, <2>4 DEF SendChunk, Say
  <2> QED
    BY <1>3, <2>4, <2>5
<1>8. CASE SpoilChunk
  <2>1. down # << >> /\ down' = Tail(down)
    BY <1>8 DEF SpoilChunk
  <2>2. down' \in Seq(Messages) /\ IsRest(down', down)
    BY <1>1, <2>1, TailIsRest
  <2> QED
    BY <1>1, <2>2, RestKeeps
<1>9. CASE \/ BootNothing \/ ConsoleThere \/ ConsoleBusy \/ ReadyLine \/ ReadReply \/ LoadLine
           \/ RefuseChunk \/ FileSent \/ OtherLine \/ Chatter \/ SpoilLine
           \/ NoReply \/ NoReadyLine \/ NoLoadLine \/ NoMoreLines \/ BrokenLine \/ ConsoleAbsent
  <2>1. UNCHANGED down
    BY <1>9 DEF BootNothing, ConsoleThere, ConsoleBusy, ReadyLine, ReadReply, LoadLine, RefuseChunk,
       FileSent, OtherLine, Chatter, SpoilLine, NoReply, NoReadyLine, NoLoadLine, NoMoreLines,
       BrokenLine, ConsoleAbsent
  <2> QED
    BY <1>2, <2>1
<1> QED
  BY <1>4, <1>5, <1>6, <1>7, <1>8, <1>9 DEF Acts

(* The programs of the serial line leave the device as it is. *)
LEMMA HostCarries ==
  ASSUME Shapes, Begun, Carried, UNCHANGED <<program, size, dev>>, Acts
  PROVE  Shapes' /\ Begun' /\ Carried' /\ Enough' = Enough
<1>1. Shapes'
  BY HostMoves, HostHears, HostSays DEF Shapes, Heard
<1>2. Begun' /\ Enough' = Enough
  BY NothingStored
<1>3. \A m \in Contents(down') : Fitting(m)
  BY HostSays DEF Carried
<1>4. \A m : Fitting(m)' = Fitting(m)
  BY DEF Fitting, Bytes, File
<1>5. (Some(up, "done"))' => Some(up, "done")
  BY HostHears DEF Heard, Some
<1>6. Carried'
  <2>1. host'.pc \in Places
    BY HostMoves
  <2>2. \A m \in Contents(down') : Fitting(m)'
    BY <1>3, <1>4
  <2> QED
    BY <1>2, <1>5, <2>1, <2>2 DEF Carried
<1> QED
  BY <1>1, <1>2, <1>6

(* What the device does: it hears or prints what needs no order, or goes   *)
(* from one thing to the next. *)
Announces(kind) == \E m \in Messages : m.type = kind /\ up' = Append(up, m)

Reacts ==
  \/ Heard /\ dev'.mode \in {dev.mode, "off"}
  \/ /\ Heard /\ dev.mode = "console" /\ dev'.mode = "prompting"
     /\ down # << >> /\ Head(down) \in Empties /\ down' = Tail(down)
  \/ Heard /\ dev.mode = "console" /\ dev'.mode = "on" /\ Some(down, "reboot")
  \/ Heard /\ dev.mode = "console" /\ dev'.mode = "receiving" /\ Some(down, "rcv")
  \/ Heard /\ dev.mode = "loader" /\ dev'.mode = "loading"
  \/ Announces("ready") /\ dev.mode = "prompting" /\ dev'.mode = "console"
  \/ Announces("prepare") /\ dev.mode = "on" /\ dev'.mode = "loader"
  \/ Announces("ready") /\ dev.mode = "receiving" /\ dev'.mode = "console" /\ Enough'
  \/ Announces("done") /\ dev.mode = "loading" /\ dev'.mode = "booted" /\ Enough'

LEMMA PrintedHeard ==
  ASSUME Shapes, NEW type \in Kinds \ {"ready", "prepare", "done"}, NEW n \in Nat,
         Printed(<<Message(type, n, << >>)>>)
  PROVE  Heard /\ \A m \in Contents(up') : m \in Contents(up) \/ m.n = n
<1>1. up \in Seq(Messages)
  BY DEF Shapes
<1>2. PICK m \in Messages : m = Message(type, n, << >>) /\ m.type = type /\ m.n = n
  BY IsNumbered
<1>3. up' = up \o <<m>>
  BY <1>2 DEF Printed
<1>4. Heard
  BY <1>1, <1>2, <1>3, AddedHeard
<1>5. up \o <<m>> = Append(up, m) /\ Contents(Append(up, m)) = Contents(up) \cup {m}
  BY <1>1, <1>2, Added
<1>6. Contents(up') = Contents(up) \cup {m}
  BY <1>3, <1>5, Zenon
<1> QED
  BY <1>2, <1>4, <1>6

LEMMA PrintedAnnounces ==
  ASSUME Shapes, NEW type \in {"ready", "prepare", "done"}, Printed(<<Plain(type)>>)
  PROVE  /\ Announces(type) /\ up' \in Seq(Messages)
         /\ \A m \in Contents(up') : m \in Contents(up) \/ m.type = type
<1>1. up \in Seq(Messages)
  BY DEF Shapes
<1>2. PICK m \in Messages : m = Plain(type) /\ m.type = type
  BY IsPlain DEF Kinds
<1>3. up' = up \o <<m>>
  BY <1>2 DEF Printed
<1>4. /\ up \o <<m>> = Append(up, m) /\ Append(up, m) \in Seq(Messages)
      /\ Contents(Append(up, m)) = Contents(up) \cup {m}
  BY <1>1, <1>2, Added
<1>5. up' = Append(up, m)
  BY <1>3, <1>4, Zenon
<1> QED
  BY <1>2, <1>4, <1>5 DEF Announces

LEMMA DeviceHears ==
  ASSUME Shapes, DeviceActs
  PROVE  /\ down' \in Seq(Messages) /\ Contents(down') \subseteq Contents(down)
         /\ \A S, T : NoneAfter(down, S, T) => NoneAfter(down', S, T)
<1>1. down \in Seq(Messages)
  BY DEF Shapes
<1>2. UNCHANGED down \/ (down # << >> /\ down' = Tail(down))
  BY DEF DeviceActs, ConsoleEmpty, Prompt, ConsoleReboot, ConsoleRcv, Announce, LoaderRcv,
         Ignore, AskChunk, TakeChunk, AskAgain, AskEarly, SwitchOff, Hears
<1>3. CASE UNCHANGED down
  BY <1>1, <1>3
<1>4. CASE down # << >> /\ down' = Tail(down)
  <2>1. down' \in Seq(Messages) /\ IsRest(down', down)
    BY <1>1, <1>4, TailIsRest
  <2> QED
    BY <1>1, <2>1, RestKeeps
<1> QED
  BY <1>2, <1>3, <1>4

LEMMA Becoming ==
  ASSUME Shapes, NEW mode, Becomes(mode)
  PROVE  /\ DOMAIN dev' = DevFields /\ dev'.mode = mode
         /\ dev'.got = dev.got /\ dev'.want = dev.want /\ dev'.total = dev.total
         /\ dev'.pending = dev.pending /\ dev'.commands = dev.commands
         /\ dev'.outputs = dev.outputs
BY DEF Becomes, Shapes, DevFields

(* What has been taken out of the line and stored. *)
Keeping ==
  /\ DOMAIN dev' = DevFields
  /\ dev'.pending = dev.pending /\ dev'.commands = dev.commands /\ dev'.outputs = dev.outputs
  /\ dev'.want \in Nat
  /\ Begun' /\ (Enough => Enough')
  /\ dev'.mode \in {"loading", "receiving"} => dev'.total = size

LEMMA KeptSame ==
  ASSUME Shapes, Begun, Carried, UNCHANGED <<program, size>>,
         DOMAIN dev' = DevFields, dev'.got = dev.got, dev'.want = dev.want,
         dev'.pending = dev.pending, dev'.commands = dev.commands, dev'.outputs = dev.outputs,
         dev'.total = size \/ (dev'.total = dev.total /\ (dev'.mode = dev.mode \/ dev'.mode \notin {"loading", "receiving"}))
  PROVE  Keeping
<1>1. Begun' /\ Enough' = Enough
  BY NothingStored
<1>2. dev'.want \in Nat
  BY DEF Shapes
<1> QED
  BY <1>1, <1>2 DEF Keeping, Carried

LEMMA DeviceReacts ==
  ASSUME Shapes, Begun, Carried, program \in Serial, UNCHANGED <<program, size, host>>, DeviceActs
  PROVE  /\ Reacts /\ Keeping /\ up' \in Seq(Messages)
         /\ \A m \in Contents(up') : \/ m \in Contents(up)
                                     \/ m.type = "send" => m.n \in Nat
         /\ \A m \in Contents(up') : m \in Contents(up) \/ m.type # "done" \/ Enough'
<1>1. up \in Seq(Messages) /\ down \in Seq(Messages) /\ dev.want \in Nat
  BY DEF Shapes
<1>2. \A type \in Kinds : Plain(type) = Message(type, 0, << >>)
  BY DEF Plain
<1>3. Printed(<<Two>>) => Heard /\ \A m \in Contents(up') : m \in Contents(up) \/ m.n = 0
  BY <1>2, PrintedHeard DEF Two, Kinds
<1>4. \A type : Hears(type) => /\ down # << >> /\ Head(down) \in Contents(down)
                               /\ Head(down) \in Messages /\ Head(down).type = type
                               /\ Some(down, type)
  BY <1>1, TailIsRest DEF Hears, Some
<1>5. Hears("rcv") => Head(down).n = size
  BY <1>4 DEF Carried, Fitting
<1>6. CASE ConsoleEmpty
  <2>1. Heard /\ \A m \in Contents(up') : m \in Contents(up) \/ m.n = 0
    BY <1>3, <1>6 DEF ConsoleEmpty
  <2>2. /\ DOMAIN dev' = DevFields /\ dev'.mode = "prompting"
        /\ dev'.got = dev.got /\ dev'.want = dev.want /\ dev'.total = dev.total
        /\ dev'.pending = dev.pending /\ dev'.commands = dev.commands
        /\ dev'.outputs = dev.outputs
    BY <1>6, Becoming DEF ConsoleEmpty
  <2>3. Keeping
    BY <2>2, KeptSame
  <2>4. Reacts
    BY <1>4, <1>6, <2>1, <2>2 DEF Reacts, ConsoleEmpty, Hears, Empties
  <2> QED
    BY <2>1, <2>3, <2>4 DEF Heard
<1>7. CASE Prompt
  <2>1. /\ Announces("ready") /\ up' \in Seq(Messages)
        /\ \A m \in Contents(up') : m \in Contents(up) \/ m.type = "ready"
    BY <1>7, PrintedAnnounces DEF Prompt
  <2>2. /\ DOMAIN dev' = DevFields /\ dev'.mode = "console"
        /\ dev'.got = dev.got /\ dev'.want = dev.want /\ dev'.total = dev.total
        /\ dev'.pending = dev.pending /\ dev'.commands = dev.commands
        /\ dev'.outputs = dev.outputs
    BY <1>7, Becoming DEF Prompt
  <2>3. Keeping
    BY <2>2, KeptSame
  <2>4. Reacts
    BY <1>7, <2>1, <2>2 DEF Reacts, Prompt
  <2> QED
    BY <2>1, <2>3, <2>4
<1>8. CASE ConsoleReboot
  <2>1. Heard /\ \A m \in Contents(up') : m \in Contents(up) \/ m.n = 0
    BY <1>3, <1>8 DEF ConsoleReboot
  <2>2. /\ DOMAIN dev' = DevFields /\ dev'.mode = "on"
        /\ dev'.got = dev.got /\ dev'.want = dev.want /\ dev'.total = dev.total
        /\ dev'.pending = dev.pending /\ dev'.commands = dev.commands
        /\ dev'.outputs = dev.outputs
    BY <1>8, Becoming DEF ConsoleReboot
  <2>3. Keeping
    BY <2>2, KeptSame
  <2>4. Reacts
    BY <1>4, <1>8, <2>1, <2>2 DEF Reacts, ConsoleReboot
  <2> QED
    BY <2>1, <2>3, <2>4 DEF Heard
<1>9. CASE ConsoleRcv
  <2>1. Heard /\ \A m \in Contents(up') : m \in Contents(up) \/ m.n = 0
    BY <1>3, <1>9 DEF ConsoleRcv
  <2>2. /\ DOMAIN dev' = DevFields /\ dev'.mode = "receiving" /\ dev'.total = size
        /\ dev'.got = dev.got /\ dev'.want = dev.want
        /\ dev'.pending = dev.pending /\ dev'.commands = dev.commands
        /\ dev'.outputs = dev.outputs
    BY <1>5, <1>9 DEF ConsoleRcv, Shapes, DevFields
  <2>3. Keeping
    BY <2>2, KeptSame
  <2>4. Reacts
    BY <1>4, <1>9, <2>1, <2>2 DEF Reacts, ConsoleRcv
  <2> QED
    BY <2>1, <2>3, <2>4 DEF Heard
<1>10. CASE Announce
  <2>1. /\ Announces("prepare") /\ up' \in Seq(Messages)
        /\ \A m \in Contents(up') : m \in Contents(up) \/ m.type = "prepare"
    BY <1>10, PrintedAnnounces DEF Announce
  <2>2. /\ DOMAIN dev' = DevFields /\ dev'.mode = "loader"
        /\ dev'.got = dev.got /\ dev'.want = dev.want /\ dev'.total = dev.total
        /\ dev'.pending = dev.pending /\ dev'.commands = dev.commands
        /\ dev'.outputs = dev.outputs
    BY <1>10, Becoming DEF Announce
  <2>3. Keeping
    BY <2>2, KeptSame
  <2>4. Reacts
    BY <1>10, <2>1, <2>2 DEF Reacts, Announce
  <2> QED
    BY <2>1, <2>3, <2>4
<1>11. CASE LoaderRcv
  <2>1. Heard /\ UNCHANGED up
    BY <1>1, <1>11, SameHeard DEF LoaderRcv
  <2>2. /\ DOMAIN dev' = DevFields /\ dev'.mode = "loading" /\ dev'.total = size
        /\ dev'.got = dev.got /\ dev'.want = dev.want
        /\ dev'.pending = dev.pending /\ dev'.commands = dev.commands
        /\ dev'.outputs = dev.outputs
    BY <1>5, <1>11 DEF LoaderRcv, Shapes, DevFields
  <2>3. Keeping
    BY <2>2, KeptSame
  <2>4. Reacts
    BY <1>11, <2>1, <2>2 DEF Reacts, LoaderRcv
  <2> QED
    BY <1>1, <2>1, <2>3, <2>4
<1>12. CASE SwitchOff
  <2>1. Heard /\ UNCHANGED up
    BY <1>1, <1>12, SameHeard DEF SwitchOff
  <2>2. /\ DOMAIN dev' = DevFields /\ dev'.mode = "off"
        /\ dev'.got = dev.got /\ dev'.want = dev.want /\ dev'.total = dev.total
        /\ dev'.pending = dev.pending /\ dev'.commands = dev.commands
        /\ dev'.outputs = dev.outputs
    BY <1>12, Becoming DEF SwitchOff
  <2>3. Keeping
    BY <2>2, KeptSame
  <2>4. Reacts
    BY <2>1, <2>2 DEF Reacts
  <2> QED
    BY <1>1, <2>1, <2>3, <2>4
<1>13. ASSUME Heard, \A m \in Contents(up') : m \in Contents(up) \/ m.n \in Nat,
              UNCHANGED dev \/ \E b \in BOOLEAN : dev' = [dev EXCEPT !.asked = b]
       PROVE  /\ Reacts /\ Keeping /\ up' \in Seq(Messages)
              /\ \A m \in Contents(up') : \/ m \in Contents(up)
                                          \/ m.type = "send" => m.n \in Nat
              /\ \A m \in Contents(up') : m \in Contents(up) \/ m.type # "done" \/ Enough'
  <2>1. /\ DOMAIN dev' = DevFields /\ dev'.mode = dev.mode
        /\ dev'.got = dev.got /\ dev'.want = dev.want /\ dev'.total = dev.total
        /\ dev'.pending = dev.pending /\ dev'.commands = dev.commands
        /\ dev'.outputs = dev.outputs
    BY <1>13 DEF Shapes, DevFields
  <2>2. Keeping
    BY <2>1, KeptSame
  <2>3. Reacts
    BY <1>13, <2>1 DEF Reacts
  <2> QED
    BY <1>13, <2>2, <2>3 DEF Heard
<1>14. CASE Ignore \/ AskAgain \/ AskEarly
  <2>1. UNCHANGED up /\ (UNCHANGED dev \/ \E b \in BOOLEAN : dev' = [dev EXCEPT !.asked = b])
    BY <1>14 DEF Ignore, AskAgain, AskEarly
  <2>2. Heard
    BY <1>1, <2>1, SameHeard
  <2> QED
    BY <1>13, <2>1, <2>2
<1>15. CASE AskChunk
  <2>1. Heard /\ \A m \in Contents(up') : m \in Contents(up) \/ m.n = dev.want
    BY <1>1, <1>15, PrintedHeard DEF AskChunk, Kinds
  <2>2. \E b \in BOOLEAN : dev' = [dev EXCEPT !.asked = b]
    BY <1>15 DEF AskChunk
  <2> QED
    BY <1>1, <1>13, <2>1, <2>2
<1>16. CASE TakeChunk /\ Head(down).n # dev.want
  <2>1. UNCHANGED <<up, dev>>
    BY <1>16 DEF TakeChunk
  <2>2. Heard
    BY <1>1, <2>1, SameHeard
  <2> QED
    BY <1>13, <2>1, <2>2
<1>17. CASE TakeChunk /\ Head(down).n = dev.want
  <2>1. PICK c \in Messages : c = Head(down) /\ c \in Contents(down) /\ c.type = "chunk"
    BY <1>4, <1>17 DEF TakeChunk
  <2>2. c.data = Bytes(dev.want * ChunkSize, ChunkSize)
    BY <1>17, <2>1 DEF Carried, Fitting
  <2>3. c.data = NextPiece
    <3>1. Wanted = File /\ PieceSize = ChunkSize
      BY DEF Wanted, PieceSize, Serial
    <3>2. PICK a \in Nat : a = dev.want * ChunkSize /\ a = dev.want * PieceSize
      BY <3>1, HasPiece
    <3>3. (dev.want + 1) * PieceSize = a + ChunkSize
      BY <3>1, <3>2, HasPiece
    <3>4. ChunkSize \in Nat
      BY ChunkAssumption
    <3>5. Bytes(a, ChunkSize) = Piece(File, a, a + ChunkSize)
      BY <3>4, BytesIs
    <3> QED
      BY <2>2, <3>1, <3>2, <3>3, <3>5 DEF NextPiece
  <2>4. dev.mode \in {"loading", "receiving"} /\ dev.total = size
    BY <1>17 DEF TakeChunk, Carried
  <2>5. PICK d : d = Stored(c.data)
    OBVIOUS
  <2>6. /\ DOMAIN d = DevFields /\ d.got = dev.got \o NextPiece /\ d.want = dev.want + 1
        /\ d.mode = dev.mode /\ d.total = size /\ d.pending = dev.pending
        /\ d.commands = dev.commands /\ d.outputs = dev.outputs
    BY <2>3, <2>4, <2>5, StoredIs
  <2>7. \/ /\ Complete(d)
           /\ dev' = [d EXCEPT !.mode = IF dev.mode = "loading" THEN "booted" ELSE "console"]
           /\ Printed(<<Plain(IF dev.mode = "loading" THEN "done" ELSE "ready")>>)
        \/ dev' = d /\ UNCHANGED up
    BY <1>17, <2>1, <2>5 DEF TakeChunk
  <2>8. /\ DOMAIN dev' = DevFields /\ dev'.got = dev.got \o NextPiece /\ dev'.want = dev.want + 1
        /\ dev'.total = size /\ dev'.pending = dev.pending
        /\ dev'.commands = dev.commands /\ dev'.outputs = dev.outputs
    BY <2>6, <2>7 DEF DevFields
  <2>9. Begun' /\ (Enough => Enough') /\ (Len(dev'.got) >= Total => Enough')
    BY <2>8, PieceStored
  <2>10. Keeping
    BY <1>1, <2>8, <2>9 DEF Keeping
  <2>11. Complete(d) => Enough'
    BY <2>6, <2>8, <2>9 DEF Complete, Total, Serial
  <2>12. CASE dev' = d /\ UNCHANGED up
    <3>1. Heard
      BY <1>1, <2>12, SameHeard
    <3>2. dev'.mode = dev.mode
      BY <2>6, <2>12
    <3>3. Reacts
      BY <3>1, <3>2 DEF Reacts
    <3> QED
      BY <1>1, <2>10, <2>12, <3>3
  <2>13. CASE /\ Complete(d) /\ dev.mode = "loading"
              /\ dev' = [d EXCEPT !.mode = "booted"] /\ Printed(<<Plain("done")>>)
    <3>1. /\ Announces("done") /\ up' \in Seq(Messages)
          /\ \A m \in Contents(up') : m \in Contents(up) \/ m.type = "done"
      BY <2>13, PrintedAnnounces
    <3>2. dev'.mode = "booted"
      BY <2>6, <2>13 DEF DevFields
    <3>3. Reacts
      BY <2>11, <2>13, <3>1, <3>2 DEF Reacts
    <3> QED
      BY <2>10, <2>11, <2>13, <3>1, <3>3
  <2>14. CASE /\ Complete(d) /\ dev.mode = "receiving"
              /\ dev' = [d EXCEPT !.mode = "console"] /\ Printed(<<Plain("ready")>>)
    <3>1. /\ Announces("ready") /\ up' \in Seq(Messages)
          /\ \A m \in Contents(up') : m \in Contents(up) \/ m.type = "ready"
      BY <2>14, PrintedAnnounces
    <3>2. dev'.mode = "console"
      BY <2>6, <2>14 DEF DevFields
    <3>3. Reacts
      BY <2>11, <2>14, <3>1, <3>2 DEF Reacts
    <3> QED
      BY <2>10, <3>1, <3>3
  <2> QED
    BY <2>4, <2>7, <2>12, <2>13, <2>14
<1> QED
  BY <1>6, <1>7, <1>8, <1>9, <1>10, <1>11, <1>12, <1>14, <1>15, <1>16, <1>17 DEF DeviceActs

LEMMA DeviceCarries ==
  ASSUME Shapes, Begun, Carried, program \in Serial, UNCHANGED <<program, size, host>>, DeviceActs
  PROVE  Shapes' /\ Begun' /\ Carried' /\ (Enough => Enough')
<1>1. Keeping /\ up' \in Seq(Messages) /\ Reacts
  BY DeviceReacts
<1>2. Shapes'
  BY <1>1, DeviceHears DEF Shapes, Keeping
<1>3. \A m \in Contents(down') : Fitting(m)'
  <2>1. \A m \in Contents(down') : Fitting(m)
    BY DeviceHears DEF Carried
  <2> QED
    BY <2>1 DEF Fitting, Bytes, File
<1>4. (Some(up, "done"))' => Enough'
  BY DeviceReacts DEF Some, Carried, Keeping
<1>5. dev'.mode \in SerialModes
  BY <1>1 DEF Reacts, Carried, SerialModes
<1> QED
  BY <1>1, <1>2, <1>3, <1>4, <1>5 DEF Carried, Keeping

-----------------------------------------------------------------------------
(* BootSerial.  The loader's requests are never spoiled, so the program    *)
(* need not check the number in them. *)
Obeying ==
  /\ host.pc = "start"
  /\ \A m \in Contents(up) : m.type = "send" => m.n \in Nat

LEMMA BootLineKeeps ==
  ASSUME Shapes, Begun, Carried, Obeying, UNCHANGED <<program, size, dev>>, BootLine
  PROVE  Shapes' /\ Begun' /\ Carried' /\ Obeying'
<1>1. up \in Seq(Messages) /\ down \in Seq(Messages) /\ up # << >> /\ up' = Tail(up)
  BY DEF Shapes, BootLine
<1>2. /\ up' \in Seq(Messages) /\ IsRest(up', up)
      /\ Head(up) \in Messages /\ Head(up) \in Contents(up)
  BY <1>1, TailIsRest
<1>3. Contents(up') \subseteq Contents(up)
  BY <1>1, <1>2, RestKeeps
<1>4. down' \in Seq(Messages) /\ \A m \in Contents(down') : Fitting(m)
  <2>1. CASE Head(up).type = "send"
    <3>1. PICK n \in Nat : n = Head(up).n
      BY <1>2, <2>1 DEF Obeying
    <3>2. PICK c \in Messages : c = ChunkOf(n) /\ Fitting(c)
      BY ChunkFits
    <3>3. down' = <<c>>
      BY <2>1, <3>1, <3>2 DEF BootLine
    <3> QED
      BY <3>2, <3>3 DEF Contents
  <2>2. CASE Head(up).type # "send"
    BY <1>1, <2>2 DEF BootLine, Carried
  <2> QED
    BY <2>1, <2>2
<1>5. /\ DOMAIN host' = HostFields /\ host'.pc = host.pc
      /\ host'.pos = host.pos /\ host'.sendNo = host.sendNo /\ host'.recvNo = host.recvNo
  BY DEF BootLine, Shapes, HostFields
<1>6. Shapes'
  BY <1>2, <1>4, <1>5 DEF Shapes
<1>7. Begun' /\ Enough' = Enough
  BY NothingStored
<1>8. \A m \in Contents(down') : Fitting(m)'
  BY <1>4 DEF Fitting, Bytes, File
<1>9. Carried'
  BY <1>3, <1>5, <1>7, <1>8 DEF Carried, Some
<1>10. Obeying'
  BY <1>3, <1>5 DEF Obeying
<1> QED
  BY <1>6, <1>7, <1>9, <1>10

LEMMA ObeyingKeeps ==
  ASSUME Shapes, Begun, Carried, Obeying, program = "BootSerial", Next
  PROVE  Shapes' /\ Begun' /\ Carried' /\ Obeying'
<1>1. program \in Serial /\ ~Line1
  BY DEF Serial, Line1
<1>2. UNCHANGED <<program, size>>
  BY <1>1, SerialActions
<1>3. CASE UNCHANGED dev /\ BootNothing
  <2>1. Acts
    BY <1>3 DEF Acts
  <2>2. Shapes' /\ Begun' /\ Carried'
    BY <1>2, <1>3, <2>1, HostCarries
  <2>3. Contents(up') \subseteq Contents(up) /\ UNCHANGED host
    <3>1. up \in Seq(Messages) /\ up # << >> /\ up' = Tail(up)
      BY <1>3 DEF Shapes, BootNothing, Got
    <3>2. up' \in Seq(Messages) /\ IsRest(up', up)
      BY <3>1, TailIsRest
    <3> QED
      BY <1>3, <3>1, <3>2, RestKeeps DEF BootNothing
  <2> QED
    BY <2>2, <2>3 DEF Obeying
<1>4. CASE UNCHANGED dev /\ BootLine
  BY <1>2, <1>4, BootLineKeeps
<1>5. CASE UNCHANGED host /\ DeviceActs
  <2>1. Shapes' /\ Begun' /\ Carried'
    BY <1>1, <1>2, <1>5, DeviceCarries
  <2>2. \A m \in Contents(up') : m \in Contents(up) \/ (m.type = "send" => m.n \in Nat)
    BY <1>1, <1>2, <1>5, DeviceReacts
  <2> QED
    BY <1>5, <2>1, <2>2 DEF Obeying
<1> QED
  BY <1>1, <1>3, <1>4, <1>5, SerialActions

-----------------------------------------------------------------------------
(* sercon -b.  The console's "ready" is never taken for the loader's       *)
(* answer to a file: what the console has said comes before the loader     *)
(* announces itself, and the loader does not go back to the console.       *)

BootPlaces == Places \ {"rcvReply"}

BootModes == {"console", "prompting", "on", "loader", "loading", "booted", "off"}

Past == {"loader", "loading", "booted", "off"}

Late == {"rcv", "lines", "ok"}

Loading ==
  /\ host.pc \in BootPlaces /\ dev.mode \in BootModes
  /\ Some(down, "rcv") \/ Some(up, "prepare") \/ host.pc \in Late => dev.mode \in Past
  /\ NoneAfter(up, Prepare, Ready)
  /\ host.pc \in Late => ~Some(up, "ready")
  /\ host.pc = "ok" => Enough

(* A line that was announced is the first that is there, and is taken.     *)
LEMMA LineTaken ==
  ASSUME Shapes, ReadLine, Line.type # "other"
  PROVE  /\ Head(up) \in Contents(up) /\ Head(up) \in Messages /\ Line = Head(up)
         /\ Some(up, Line.type)
         /\ \A S, T : NoneAfter(up, S, T) /\ Line \in S => Contents(up') \cap T = {}
<1>1. up \in Seq(Messages)
  BY DEF Shapes
<1>2. up # << >> /\ LineEnd = 1 /\ Line = Head(up) /\ 1 \in 1 .. Len(up)
  BY <1>1, LineIs DEF ReadLine
<1>3. up' = SubSeq(up, 1 + 1, Len(up)) /\ up[1] = Head(up)
  BY <1>1, <1>2 DEF ReadLine
<1>4. Head(up) \in Contents(up) /\ Head(up) \in Messages
  BY <1>1, <1>2, TailIsRest
<1>5. \A S, T : NoneAfter(up, S, T) /\ Line \in S => Contents(up') \cap T = {}
  BY <1>1, <1>2, <1>3, TakenFirst
<1> QED
  BY <1>2, <1>4, <1>5 DEF Some

LEMMA NoneOf ==
  ASSUME NEW q \in Seq(Messages), NEW type
  PROVE  Some(q, type) <=> Contents(q) \cap {m \in Messages : m.type = type} # {}
<1>1. Contents(q) \subseteq Messages
  BY DEF Contents
<1> QED
  BY <1>1 DEF Some

LEMMA LoadingHostKeeps ==
  ASSUME Shapes, Begun, Carried, Loading, program = "serconBoot",
         UNCHANGED <<program, size, dev>>, Acts
  PROVE  Loading'
<1>1. /\ AfterCheck = "waitLoad" /\ AfterReady = "reboot" /\ AfterRcv = "lines"
      /\ AfterReply = "waitLoad"
  BY DEF AfterCheck, AfterReady, AfterRcv, AfterReply, At, Loading, BootPlaces
<1>2. Moves /\ host'.pc \in Places
  BY HostMoves
<1>3. Heard
  BY HostHears
<1>4. up \in Seq(Messages) /\ up' \in Seq(Messages)
  BY <1>3 DEF Heard, Shapes
<1>5. Enough' = Enough
  BY NothingStored
<1>6. host'.pc \in BootPlaces
  BY <1>1, <1>2 DEF Moves, BootPlaces, Loading
<1>7. LoadLine /\ Line.type = "prepare" => Some(up, "prepare") /\ Contents(up') \cap Ready = {}
  <2>1. SUFFICES ASSUME LoadLine, Line.type = "prepare"
                 PROVE  Some(up, "prepare") /\ Contents(up') \cap Ready = {}
    OBVIOUS
  <2>2. ReadLine
    BY <2>1 DEF LoadLine
  <2>3. Line \in Prepare /\ Some(up, "prepare")
    BY <2>1, <2>2, LineTaken DEF Prepare
  <2> QED
    BY <2>1, <2>2, <2>3, LineTaken DEF Loading
<1>8. host'.pc \in Late /\ host.pc \notin Late => LoadLine /\ Line.type = "prepare"
  BY <1>1, <1>2 DEF Moves, Late
<1>9. (Some(up, "prepare"))' => Some(up, "prepare")
  BY <1>3 DEF Heard, Some
<1>10. (Some(down, "rcv"))' => Some(down, "rcv") \/ host.pc = "rcv"
  <2>1. SendRcv => host.pc = "rcv"
    BY HostMoves
  <2> QED
    BY <2>1, HostSays DEF Some
<1>11. (Some(down, "rcv"))' \/ (Some(up, "prepare"))' \/ host'.pc \in Late => dev.mode \in Past
  BY <1>7, <1>8, <1>9, <1>10 DEF Loading, Late
<1>12. host'.pc \in Late => ~(Some(up, "ready"))'
  <2>1. (Some(up, "ready"))' => Some(up, "ready")
    BY <1>3 DEF Heard, Some
  <2>2. LoadLine /\ Line.type = "prepare" => ~(Some(up, "ready"))'
    BY <1>4, <1>7, NoneOf DEF Ready
  <2> QED
    BY <1>8, <2>1, <2>2 DEF Loading
<1>13. (NoneAfter(up, Prepare, Ready))'
  BY <1>3 DEF Heard, Loading, Ready, Prepare
<1>14. host'.pc = "ok" => Enough
  <2>1. host'.pc = "ok" /\ host.pc # "ok" => FileSent /\ host.pc = "lines"
    BY <1>1, <1>2 DEF Moves
  <2>2. FileSent /\ host.pc = "lines" => Enough
    <3>1. FileSent => ReadLine /\ Line.type \in {"done", "ready"}
      BY DEF FileSent, Success
    <3>2. FileSent => Some(up, "done") \/ Some(up, "ready")
      BY <3>1, LineTaken
    <3> QED
      BY <3>2 DEF Loading, Late, Carried
  <2> QED
    BY <2>1, <2>2 DEF Loading
<1> QED
  BY <1>5, <1>6, <1>11, <1>12, <1>13, <1>14 DEF Loading

LEMMA Announced ==
  ASSUME Shapes, NEW kind, Announces(kind)
  PROVE  /\ \A m \in Contents(up') : m \in Contents(up) \/ m.type = kind
         /\ \A S, T : NoneAfter(up, S, T) /\ ((\E m \in T : m.type = kind) => Contents(up) \cap S = {})
                      => NoneAfter(up', S, T)
<1>1. PICK m \in Messages : m.type = kind /\ up' = Append(up, m)
  BY DEF Announces
<1>2. up \in Seq(Messages)
  BY DEF Shapes
<1>3. Contents(up') = Contents(up) \cup {m}
  BY <1>1, <1>2, Added
<1> QED
  BY <1>1, <1>2, <1>3, AddedInOrder

LEMMA LoadingDeviceKeeps ==
  ASSUME Shapes, Begun, Carried, Loading, program = "serconBoot",
         UNCHANGED <<program, size, host>>, DeviceActs
  PROVE  Loading'
<1>1. program \in Serial
  BY DEF Serial
<1>2. Reacts /\ (Enough => Enough')
  BY <1>1, DeviceReacts DEF Keeping
<1>3. (Some(down, "rcv"))' => Some(down, "rcv")
  BY DeviceHears DEF Some
<1>4. up \in Seq(Messages)
  BY DEF Shapes
<1>5. Heard => /\ (Some(up, "prepare"))' => Some(up, "prepare")
               /\ (Some(up, "ready"))' => Some(up, "ready")
               /\ (NoneAfter(up, Prepare, Ready))'
  BY DEF Heard, Some, Loading, Ready, Prepare
<1>6. CASE Heard /\ dev'.mode \in BootModes /\ (dev.mode \in Past => dev'.mode \in Past)
  BY <1>2, <1>3, <1>5, <1>6 DEF Loading
<1>7. Heard => \/ dev'.mode \in BootModes /\ (dev.mode \in Past => dev'.mode \in Past)
               \/ dev.mode = "console" /\ Some(down, "rcv")
  BY <1>2 DEF Reacts, Loading, BootModes, Past
<1>8. ~(dev.mode = "console" /\ Some(down, "rcv"))
  BY DEF Loading, Past
<1>9. CASE Announces("ready") /\ dev.mode = "prompting" /\ dev'.mode = "console"
  <2>1. ~Some(down, "rcv") /\ ~Some(up, "prepare") /\ host.pc \notin Late
    BY <1>9 DEF Loading, Past
  <2>2. \A m \in Contents(up') : m \in Contents(up) \/ m.type = "ready"
    BY <1>9, Announced
  <2>3. ~(Some(up, "prepare"))'
    BY <2>1, <2>2 DEF Some
  <2>4. Contents(up) \cap Prepare = {}
    BY <1>4, <2>1, NoneOf DEF Prepare
  <2>5. (NoneAfter(up, Prepare, Ready))'
    <3>1. NoneAfter(up', Prepare, Ready)
      BY <1>9, <2>4, Announced DEF Loading
    <3> QED
      BY <3>1 DEF Prepare, Ready
  <2> QED
    BY <1>2, <1>3, <1>9, <2>1, <2>3, <2>5 DEF Loading, BootModes, Late
<1>10. CASE /\ Announces("prepare") \/ Announces("done")
            /\ dev'.mode \in BootModes /\ dev'.mode \in Past
  <2>1. PICK kind \in {"prepare", "done"} : Announces(kind)
    BY <1>10
  <2>2. \A m \in Contents(up') : m \in Contents(up) \/ m.type = kind
    BY <2>1, Announced
  <2>3. (Some(up, "ready"))' => Some(up, "ready")
    BY <2>2 DEF Some
  <2>4. ~\E m \in Ready : m.type = kind
    BY DEF Ready
  <2>5. (NoneAfter(up, Prepare, Ready))'
    <3>1. NoneAfter(up', Prepare, Ready)
      BY <2>1, <2>4, Announced DEF Loading
    <3> QED
      BY <3>1 DEF Prepare, Ready
  <2> QED
    BY <1>2, <1>10, <2>3, <2>5 DEF Loading
<1>11. \/ Heard
       \/ Announces("ready") /\ dev.mode = "prompting" /\ dev'.mode = "console"
       \/ /\ Announces("prepare") \/ Announces("done")
          /\ dev'.mode \in BootModes /\ dev'.mode \in Past
  BY <1>2 DEF Reacts, Loading, BootModes, Past
<1> QED
  BY <1>6, <1>7, <1>8, <1>9, <1>10, <1>11

LEMMA LoadingKeeps ==
  ASSUME Shapes, Begun, Carried, Loading, program = "serconBoot", Next
  PROVE  Shapes' /\ Begun' /\ Carried' /\ Loading'
<1>1. program \in Serial /\ ~BootLine
  BY DEF Serial, BootLine
<1> QED
  BY <1>1, SerialActions, HostCarries, DeviceCarries, LoadingHostKeeps, LoadingDeviceKeeps

-----------------------------------------------------------------------------
(* sercon -s.  The program asks the console for its prompt once, and it    *)
(* has been read, or will not come, when the file is announced: the next   *)
(* prompt is the one after the file.                                       *)

SendPlaces == {"start", "check", "waitReady", "rcv", "rcvReply", "lines", "ok", "failed"}

SendModes == {"console", "prompting", "receiving", "off"}

Before == {"start", "check", "waitReady"}

After == {"rcv", "rcvReply", "lines", "ok"}

(* At most one prompt has been asked for, is being printed, or is on its   *)
(* way. *)
PromptedOnce ==
  /\ NoneAfter(up, Ready, Ready) /\ NoneAfter(down, Empties, Empties)
  /\ Some(up, "ready") => ~Some(down, "empty") /\ dev.mode # "prompting"
  /\ dev.mode = "prompting" => ~Some(down, "empty")

Prompting ==
  /\ host.pc \in SendPlaces /\ dev.mode \in SendModes
  /\ ~Some(down, "reboot")
  /\ Some(down, "rcv") \/ dev.mode = "receiving" => host.pc \notin Before \cup {"rcv"}
  /\ host.pc = "start" => ~Some(down, "empty") /\ ~Some(up, "ready") /\ dev.mode # "prompting"
  /\ host.pc \in Before => PromptedOnce
  /\ host.pc \in After => /\ Some(up, "ready") => Enough
                          /\ dev.mode # "prompting" /\ ~Some(down, "empty")
  /\ host.pc = "ok" => Enough

LEMMA CheckKeeps ==
  ASSUME Shapes, Begun, Carried, Prompting, program = "serconSend",
         UNCHANGED <<program, size, dev>>, CheckConsole
  PROVE  Prompting'
<1>1. Acts
  BY DEF Acts
<1>2. host.pc = "start" /\ host'.pc = "check"
  BY <1>1, HostMoves
<1>3. UNCHANGED up /\ down' = Append(down, Plain("empty"))
  BY DEF CheckConsole, Say
<1>4. PICK e \in Messages : e = Plain("empty") /\ e.type = "empty"
  BY IsPlain DEF Kinds
<1>5. up \in Seq(Messages) /\ down \in Seq(Messages)
  BY DEF Shapes
<1>6. ~Some(down, "empty") /\ ~Some(up, "ready") /\ dev.mode # "prompting"
  BY <1>2 DEF Prompting
<1>7. ~Some(down, "rcv") /\ ~Some(down, "reboot") /\ dev.mode # "receiving"
  BY <1>2 DEF Prompting, Before
<1>8. Contents(down') = Contents(down) \cup {e}
  BY <1>3, <1>4, <1>5, Added
<1>9. ~(Some(down, "rcv"))' /\ ~(Some(down, "reboot"))' /\ ~(Some(up, "ready"))'
  BY <1>3, <1>4, <1>6, <1>7, <1>8 DEF Some
<1>10. Contents(down) \cap Empties = {} /\ Contents(up) \cap Ready = {}
  BY <1>5, <1>6, NoneOf DEF Empties, Ready
<1>11. NoneAfter(Append(down, e), Empties, Empties) /\ NoneAfter(up, Ready, Ready)
  <2>1. NoneAfter(down, Empties, Empties) /\ NoneAfter(up, Ready, Ready)
    BY <1>10, NoneInOrder
  <2> QED
    BY <1>5, <1>10, <2>1, AddedInOrder
<1>12. PromptedOnce'
  BY <1>3, <1>4, <1>6, <1>9, <1>11 DEF PromptedOnce, Empties, Ready
<1> QED
  BY <1>2, <1>7, <1>9, <1>12 DEF Prompting, SendPlaces, Before, After

LEMMA PromptingHostKeeps ==
  ASSUME Shapes, Begun, Carried, Prompting, program = "serconSend",
         UNCHANGED <<program, size, dev>>, Acts, ~CheckConsole
  PROVE  Prompting'
<1>1. /\ AfterCheck = "failed" /\ AfterReady = "rcv" /\ AfterRcv = "rcvReply"
      /\ (host.pc = "rcvReply" => AfterReply = "lines")
      /\ host.pc # "rebootReply" /\ host.pc # "waitLoad" /\ host.pc # "reboot"
      /\ host.pc \in SendPlaces
  BY DEF AfterCheck, AfterReady, AfterRcv, AfterReply, At, Prompting, SendPlaces
<1>2. Moves
  BY HostMoves
<1>3. Heard
  BY HostHears
<1>4. /\ up \in Seq(Messages) /\ up' \in Seq(Messages)
      /\ down \in Seq(Messages) /\ down' \in Seq(Messages)
  BY <1>3, HostSays DEF Heard, Shapes
<1>5. Enough' = Enough
  BY NothingStored
<1>6. \/ host'.pc = host.pc \/ host'.pc = "failed"
      \/ host.pc = "check" /\ host'.pc = "waitReady"
      \/ /\ (NoReadyLine /\ Silent) \/ (ReadyLine /\ Line.type = "ready")
         /\ host.pc = "waitReady" /\ host'.pc = "rcv"
      \/ host.pc = "rcv" /\ host'.pc = "rcvReply"
      \/ host.pc = "rcvReply" /\ host'.pc = "lines"
      \/ FileSent /\ host.pc = "lines" /\ host'.pc = "ok"
  BY <1>1, <1>2 DEF Moves
<1>7. host'.pc \in SendPlaces
  BY <1>1, <1>6 DEF SendPlaces
<1>8. /\ (Some(up, "ready"))' => Some(up, "ready")
      /\ (NoneAfter(up, Ready, Ready) => (NoneAfter(up, Ready, Ready))')
  BY <1>3 DEF Heard, Some, Ready
<1>9. /\ (Some(down, "empty"))' => Some(down, "empty")
      /\ (NoneAfter(down, Empties, Empties) => (NoneAfter(down, Empties, Empties))')
  BY HostSays DEF Some, Empties
<1>10. ~(Some(down, "reboot"))'
  <2>1. ~SendReboot
    BY <1>1, HostMoves
  <2> QED
    BY <2>1, HostSays DEF Some, Prompting
<1>11. (Some(down, "rcv"))' \/ dev.mode = "receiving" => host'.pc \notin Before \cup {"rcv"}
  <2>1. (Some(down, "rcv"))' => Some(down, "rcv") \/ SendRcv
    BY HostSays DEF Some
  <2>2. SendRcv => host'.pc = "rcvReply"
    BY <1>1, HostMoves
  <2>3. Some(down, "rcv") \/ dev.mode = "receiving" => host.pc \notin Before \cup {"rcv"}
    BY DEF Prompting
  <2>4. host.pc \notin Before \cup {"rcv"} => host'.pc \notin Before \cup {"rcv"}
    BY <1>6 DEF Before
  <2> QED
    BY <2>1, <2>2, <2>3, <2>4 DEF Before
<1>12. (PromptedOnce => PromptedOnce') /\ (host'.pc = "start" => host.pc = "start")
  BY <1>6, <1>8, <1>9 DEF PromptedOnce
<1>13. host'.pc \in Before => PromptedOnce'
  BY <1>6, <1>12 DEF Prompting, Before
<1>14. /\ NoReadyLine /\ Silent => ~Some(up, "ready") /\ ~Some(down, "empty") /\ dev.mode # "prompting"
       /\ ReadyLine /\ Line.type = "ready" /\ host.pc = "waitReady" =>
            ~(Some(up, "ready"))' /\ ~Some(down, "empty") /\ dev.mode # "prompting"
  <2>1. ASSUME NoReadyLine, Silent
        PROVE  ~Some(up, "ready") /\ ~Some(down, "empty") /\ dev.mode # "prompting"
    <3>1. up = << >> /\ down = << >> /\ dev.mode # "prompting"
      BY <2>1 DEF NoReadyLine, NoLine, Silent
    <3> QED
      BY <3>1 DEF Some, Contents
  <2>2. ASSUME ReadyLine, Line.type = "ready", host.pc = "waitReady"
        PROVE  ~(Some(up, "ready"))' /\ ~Some(down, "empty") /\ dev.mode # "prompting"
    <3>1. PromptedOnce
      BY <2>2 DEF Prompting, Before
    <3>2. ReadLine
      BY <2>2 DEF ReadyLine
    <3>3. Some(up, "ready") /\ Line \in Ready
      BY <2>2, <3>2, LineTaken DEF Ready
    <3>4. Contents(up') \cap Ready = {}
      BY <2>2, <3>1, <3>2, <3>3, LineTaken DEF PromptedOnce
    <3>5. ~(Some(up, "ready"))'
      BY <1>4, <3>4, NoneOf DEF Ready
    <3> QED
      BY <3>1, <3>3, <3>5 DEF PromptedOnce
  <2> QED
    BY <2>1, <2>2
<1>15. host'.pc \in After => /\ (Some(up, "ready"))' => Enough
                             /\ dev.mode # "prompting" /\ ~(Some(down, "empty"))'
  <2>1. CASE host.pc \in After
    BY <1>8, <1>9, <2>1 DEF Prompting
  <2>2. CASE host.pc \notin After
    <3>1. host'.pc \in After => /\ (NoReadyLine /\ Silent) \/ (ReadyLine /\ Line.type = "ready")
                                /\ host.pc = "waitReady"
      BY <1>6, <2>2 DEF After
    <3> QED
      BY <1>8, <1>9, <1>14, <3>1
  <2> QED
    BY <2>1, <2>2
<1>16. host'.pc = "ok" => Enough
  <2>1. host'.pc = "ok" /\ host.pc # "ok" => FileSent /\ host.pc = "lines"
    BY <1>6
  <2>2. FileSent /\ host.pc = "lines" => Enough
    <3>1. FileSent => ReadLine /\ Line.type \in {"done", "ready"}
      BY DEF FileSent, Success
    <3>2. FileSent => Some(up, "done") \/ Some(up, "ready")
      BY <3>1, LineTaken
    <3> QED
      BY <3>2 DEF Prompting, After, Carried
  <2> QED
    BY <2>1, <2>2 DEF Prompting
<1>17. host'.pc = "start" =>
         ~(Some(down, "empty"))' /\ ~(Some(up, "ready"))' /\ dev.mode # "prompting"
  BY <1>8, <1>9, <1>12 DEF Prompting
<1> QED
  BY <1>5, <1>7, <1>10, <1>11, <1>13, <1>15, <1>16, <1>17 DEF Prompting

LEMMA PromptingDeviceKeeps ==
  ASSUME Shapes, Begun, Carried, Prompting, program = "serconSend",
         UNCHANGED <<program, size, host>>, DeviceActs
  PROVE  Prompting'
<1>1. program \in Serial
  BY DEF Serial
<1>2. Reacts /\ (Enough => Enough')
  BY <1>1, DeviceReacts DEF Keeping
<1>3. /\ (Some(down, "rcv"))' => Some(down, "rcv")
      /\ (Some(down, "empty"))' => Some(down, "empty")
      /\ ~(Some(down, "reboot"))'
      /\ NoneAfter(down, Empties, Empties) => (NoneAfter(down, Empties, Empties))'
  BY DeviceHears DEF Some, Prompting, Empties
<1>4. up \in Seq(Messages) /\ down \in Seq(Messages)
  BY DEF Shapes
<1>5. Heard => /\ (Some(up, "ready"))' => Some(up, "ready")
               /\ NoneAfter(up, Ready, Ready) => (NoneAfter(up, Ready, Ready))'
  BY DEF Heard, Some, Ready
<1>6. CASE Heard /\ dev'.mode \in {dev.mode, "off"}
  BY <1>2, <1>3, <1>5, <1>6 DEF Prompting, PromptedOnce, SendModes
<1>7. CASE /\ Heard /\ dev.mode = "console" /\ dev'.mode = "prompting"
           /\ down # << >> /\ Head(down) \in Empties /\ down' = Tail(down)
  <2>1. Some(down, "empty")
    BY <1>4, <1>7, TailIsRest DEF Some, Empties
  <2>2. host.pc \notin After /\ host.pc # "start"
    BY <2>1 DEF Prompting
  <2>3. ASSUME host.pc \in Before
        PROVE  PromptedOnce'
    <3>1. PromptedOnce
      BY <2>3 DEF Prompting
    <3>2. ~(Some(up, "ready"))'
      BY <1>5, <1>7, <2>1, <3>1 DEF PromptedOnce
    <3>3. Contents(down') \cap Empties = {}
      BY <1>4, <1>7, <3>1, HeadTaken DEF PromptedOnce
    <3>4. ~(Some(down, "empty"))'
      BY <3>3, DeviceHears, NoneOf DEF Empties
    <3> QED
      BY <1>3, <1>5, <1>7, <3>1, <3>2, <3>4 DEF PromptedOnce
  <2> QED
    BY <1>2, <1>3, <1>7, <2>2, <2>3 DEF Prompting, SendModes, After
<1>8. CASE Heard /\ dev.mode = "console" /\ dev'.mode = "receiving" /\ Some(down, "rcv")
  <2>1. host.pc \notin Before /\ host.pc \notin {"start", "rcv"}
    BY <1>8 DEF Prompting, Before
  <2> QED
    BY <1>2, <1>3, <1>5, <1>8, <2>1 DEF Prompting, SendModes, Before
<1>9. CASE Announces("ready") /\ dev.mode = "prompting" /\ dev'.mode = "console"
  <2>1. host.pc \notin After /\ host.pc # "start"
    BY <1>9 DEF Prompting
  <2>2. ASSUME host.pc \in Before
        PROVE  PromptedOnce'
    <3>1. PromptedOnce
      BY <2>2 DEF Prompting
    <3>2. ~Some(up, "ready") /\ ~Some(down, "empty")
      BY <1>9, <3>1 DEF PromptedOnce
    <3>3. Contents(up) \cap Ready = {}
      BY <1>4, <3>2, NoneOf DEF Ready
    <3>4. NoneAfter(up', Ready, Ready)
      BY <1>9, <3>1, <3>3, Announced DEF PromptedOnce
    <3> QED
      BY <1>3, <1>9, <3>1, <3>2, <3>4 DEF PromptedOnce, Ready
  <2> QED
    BY <1>2, <1>3, <1>9, <2>1, <2>2 DEF Prompting, SendModes, After
<1>10. CASE Announces("ready") /\ dev.mode = "receiving" /\ dev'.mode = "console" /\ Enough'
  <2>1. host.pc \notin Before /\ host.pc \notin {"start", "rcv"}
    BY <1>10 DEF Prompting, Before
  <2> QED
    BY <1>3, <1>10, <2>1 DEF Prompting, SendModes
<1>11. dev.mode \notin {"on", "loader", "loading"} /\ ~Some(down, "reboot")
  BY DEF Prompting, SendModes
<1> QED
  BY <1>2, <1>6, <1>7, <1>8, <1>9, <1>10, <1>11 DEF Reacts

LEMMA PromptingKeeps ==
  ASSUME Shapes, Begun, Carried, Prompting, program = "serconSend", Next
  PROVE  Shapes' /\ Begun' /\ Carried' /\ Prompting'
<1>1. program \in Serial /\ ~BootLine
  BY DEF Serial, BootLine
<1> QED
  BY <1>1, SerialActions, HostCarries, DeviceCarries, CheckKeeps, PromptingHostKeeps,
     PromptingDeviceKeeps

-----------------------------------------------------------------------------
(* Every program, with files it can count the chunks of. *)
Counted ==
  /\ AskedTwice \subseteq {0}
  /\ "usbconSend" \in Programs => \A s \in Sizes : s <= (IndexWrap - 1) * ChunkSize

IInv ==
  /\ Shapes /\ Begun /\ Within
  /\ program \in Serial => Carried
  /\ program = "BootSerial" => Obeying
  /\ program = "serconBoot" => Loading
  /\ program = "serconSend" => Prompting
  /\ program = "usbconBoot" => Booting
  /\ program = "usbconSend" => Sending

LEMMA Beginning ==
  ASSUME Init, Counted
  PROVE  IInv
<1>1. program \in Programming /\ size \in Nat
  BY TransferAssumption DEF Init, Programming
<1>2. PICK rcv \in Messages : rcv = Message("rcv", size, << >>) /\ rcv.type = "rcv" /\ rcv.n = size
  BY <1>1, IsNumbered DEF Kinds
<1>3. /\ up = << >> /\ up \in Seq(Messages) /\ Contents(up) = {}
      /\ \A S, T : NoneAfter(up, S, T)
  BY EmptyIsRest, NoneInOrder DEF Init, Contents, NoneAfter
<1>4. /\ down \in Seq(Messages) /\ Contents(down) \subseteq {rcv}
      /\ program # "BootSerial" => down = << >> /\ Contents(down) = {}
  <2>1. CASE program = "BootSerial"
    <3>1. down = <<rcv>>
      BY <1>2, <2>1 DEF Init, BootCommand
    <3> QED
      BY <2>1, <3>1 DEF Contents
  <2>2. CASE program # "BootSerial"
    BY <2>2 DEF Init, Contents
  <2> QED
    BY <2>1, <2>2
<1>5. PICK mode \in Modes(program) : dev = NewDevice(mode)
  BY DEF Init
<1>6. /\ DOMAIN dev = DevFields /\ dev.mode = mode /\ dev.got = << >> /\ dev.want = 0
      /\ dev.pending = -1 /\ dev.commands = 0 /\ dev.outputs = 0
  BY <1>5 DEF NewDevice, DevFields
<1>7. /\ DOMAIN host = HostFields /\ host.pc = "start" /\ host.pos = 0 /\ host.sendNo = 0
      /\ host.recvNo = 0 /\ host.done = FALSE
  BY DEF Init, Starting, HostFields
<1>8. Shapes
  BY <1>1, <1>3, <1>4, <1>6, <1>7 DEF Shapes
<1>9. Begun
  <2>1. PICK w \in Seq(Int) : w = Wanted
    BY <1>8, WantedIs
  <2>2. dev.want * PieceSize = 0
    BY <1>6, <1>8, WantedIs
  <2>3. First(w, 0) = << >>
    BY DEF First, Smaller
  <2> QED
    BY <1>6, <2>1, <2>2, <2>3 DEF Begun
<1>10. /\ program = "serconSend" => mode \in {"console", "off"}
       /\ program = "serconBoot" => mode \in {"console", "on", "off"}
       /\ program = "BootSerial" => mode = "on"
       /\ program \notin Serial => mode = "usb"
  BY DEF Modes, Serial
<1>11. program \in Serial => Carried
  <2>1. Fitting(rcv)
    BY <1>2 DEF Fitting
  <2>2. program \in Serial => mode \in SerialModes \ {"loading", "receiving"}
    BY <1>10 DEF Serial, SerialModes
  <2> QED
    BY <1>3, <1>4, <1>6, <1>7, <2>1, <2>2 DEF Carried, Places, Some
<1>12. program = "BootSerial" => Obeying
  BY <1>3, <1>7 DEF Obeying
<1>13. program = "serconBoot" => Loading
  BY <1>3, <1>4, <1>6, <1>7, <1>10 DEF Loading, BootPlaces, Places, BootModes, Late, Some
<1>14. program = "serconSend" => Prompting
  <2>1. program = "serconSend" => NoneAfter(down, Empties, Empties)
    BY <1>4, NoneInOrder
  <2> QED
    BY <1>3, <1>4, <1>6, <1>7, <1>10, <2>1
    DEF Prompting, PromptedOnce, SendPlaces, SendModes, After, Before, Some
<1>15. program = "usbconBoot" => Booting
  <2>1. program = "usbconBoot" => NoneAfter(down, Messages, Messages)
    BY <1>4, NoneInOrder
  <2>2. program = "usbconBoot" => mode = "usb"
    BY <1>10 DEF Serial
  <2> QED
    BY <1>3, <1>4, <1>6, <1>7, <2>1, <2>2 DEF Booting, Some
<1>16. program = "usbconSend" => Sending
  <2>1. program = "usbconSend" => mode = "usb"
    BY <1>10 DEF Serial
  <2>2. ~Awaits
    BY <1>3 DEF Awaits
  <2>3. program = "usbconSend" => ~Coming
    BY <1>4 DEF Coming
  <2>4. program = "usbconSend" => Reading
    BY <1>3, <1>6, <2>2, <2>3 DEF Reading
  <2>5. program = "usbconSend" => Numbered /\ Finishing
    BY <1>3, <1>4, <1>6, <1>7, <2>1 DEF Numbered, Finishing, Some
  <2>6. dev.want < IndexWrap
    BY <1>6, WrapAssumption
  <2> QED
    BY <1>4, <1>6, <1>7, <2>1, <2>4, <2>5, <2>6 DEF Sending
<1>17. Within
  BY DEF Init, Counted, Within
<1> QED
  BY <1>8, <1>9, <1>11, <1>12, <1>13, <1>14, <1>15, <1>16, <1>17 DEF IInv

LEMMA StepKeeps ==
  ASSUME IInv, [Next]_vars
  PROVE  IInv'
<1>1. CASE Next
  <2>1. Shapes /\ Begun /\ Within /\ program \in Programming
    BY DEF IInv, Shapes
  <2>2. UNCHANGED <<program, size>> /\ Within'
    <3>1. UNCHANGED <<program, size>>
      BY <1>1 DEF Next, HostStep, Timeout, SerialDevice, UsbDevice, HostUnchanged, Faults, Fault
    <3> QED
      BY <2>1, <3>1 DEF Within
  <2>3. CASE program = "usbconBoot"
    BY <1>1, <2>1, <2>2, <2>3, BootKeeps DEF IInv, Serial
  <2>4. CASE program = "usbconSend"
    BY <1>1, <2>1, <2>2, <2>4, SendKeeps DEF IInv, Serial
  <2>5. CASE program = "BootSerial"
    BY <1>1, <2>1, <2>2, <2>5, ObeyingKeeps DEF IInv, Serial
  <2>6. CASE program = "serconBoot"
    BY <1>1, <2>1, <2>2, <2>6, LoadingKeeps DEF IInv, Serial
  <2>7. CASE program = "serconSend"
    BY <1>1, <2>1, <2>2, <2>7, PromptingKeeps DEF IInv, Serial
  <2> QED
    BY <2>1, <2>3, <2>4, <2>5, <2>6, <2>7 DEF Programming
<1>2. CASE UNCHANGED vars
  <2> USE <1>2 DEF vars
  <2>1. Shapes' /\ Begun' /\ Within'
    BY DEF IInv, Shapes, Begun, Within, Wanted, PieceSize, BootChunkSize, Encoded, File
  <2>2. /\ Enough' = Enough /\ NextPiece' = NextPiece /\ ImageSize' = ImageSize
        /\ \A m : Fitting(m)' = Fitting(m)
    BY DEF Enough, NextPiece, ImageSize, Wanted, Total, PieceSize, BootChunkSize, Encoded, File,
           Fitting, Bytes
  <2>3. Carried' = Carried
    BY <2>2 DEF Carried, Some
  <2>4. Obeying' = Obeying
    BY DEF Obeying
  <2>5. Loading' = Loading
    BY <2>2 DEF Loading, Some, Prepare, Ready
  <2>6. Prompting' = Prompting
    BY <2>2 DEF Prompting, PromptedOnce, Some, Ready, Empties
  <2>7. Booting' = Booting
    BY <2>2 DEF Booting, Some, Real
  <2>8. Sending' = Sending
    BY <2>2 DEF Sending, Finishing, Numbered, Reading, Awaits, Coming, Due, Requests, Some
  <2> QED
    BY <2>1, <2>3, <2>4, <2>5, <2>6, <2>7, <2>8 DEF IInv
<1> QED
  BY <1>1, <1>2

LEMMA Invariance ==
  ASSUME Counted
  PROVE  Spec => []IInv
<1>1. Init => IInv
  BY Beginning
<1>2. IInv /\ [Next]_vars => IInv'
  BY StepKeeps
<1> QED
  BY <1>1, <1>2, PTL DEF Spec

(* What a device has of a file is its beginning, every byte in its place:  *)
(* no fault of the line, no repeated request or answer and no chunk that   *)
(* comes too late puts anything else there (sercon.c, usbcon.c,            *)
(* BootSerial::dataWritten).  usbcon -s sends the file of which its byte   *)
(* can count the chunks and the request after the last (usbcon.c:438), to  *)
(* a device that asks again for the first chunk only (454). *)
THEOREM BeginningOfTheFile ==
  ASSUME AskedTwice \subseteq {0},
         "usbconSend" \in Programs => \A s \in Sizes : s <= (IndexWrap - 1) * ChunkSize
  PROVE  Spec => []FileIntact
<1>1. IInv => FileIntact
  BY EnoughIsAll DEF IInv
<1>2. Counted
  BY DEF Counted
<1> QED
  BY <1>1, <1>2, Invariance, PTL

(* When a program says that the file was sent, the device has all of it:   *)
(* the console's prompt is not taken for the answer to the file, nor the   *)
(* end announced while a chunk is still to come (sercon.c sendFileData,    *)
(* usbcon.c sendFile, bootDevice), within the same limits of usbcon -s.    *)
THEOREM WhatIsSaidIsSent ==
  ASSUME AskedTwice \subseteq {0},
         "usbconSend" \in Programs => \A s \in Sizes : s <= (IndexWrap - 1) * ChunkSize
  PROVE  Spec => []SuccessIsTrue
<1>1. ASSUME IInv, At("ok")
      PROVE  Enough
  <2>1. program \in Programming
    BY <1>1 DEF IInv, Shapes
  <2> QED
    BY <1>1, <2>1 DEF IInv, At, Programming, Obeying, Loading, Prompting, Booting, Sending, Finishing
<1>2. IInv => SuccessIsTrue
  BY <1>1, EnoughIsAll DEF IInv, SuccessIsTrue
<1>3. Counted
  BY DEF Counted
<1> QED
  BY <1>2, <1>3, Invariance, PTL
=============================================================================
