---------------------------- MODULE UsbFifoProofs ----------------------------
(***************************************************************************)
(* FIFO<size> is correct for every size and every set of byte values.      *)
(***************************************************************************)
EXTENDS UsbFifo, SequenceTheorems, TLAPS

(* Advancing an offset wraps it at the end of the ring. *)
LEMMA Advance ==
  ASSUME NEW x \in Slots
  PROVE  (x + 1) % Size = IF x + 1 = Size THEN 0 ELSE x + 1
<1>1. CASE x + 1 = Size
  BY <1>1, SizeAssumption DEF Slots
<1>2. CASE x + 1 < Size
  BY <1>2, SizeAssumption DEF Slots
<1> QED
  BY <1>1, <1>2, SizeAssumption DEF Slots

LEMMA AdvanceInRing ==
  ASSUME NEW x \in Slots
  PROVE  (x + 1) % Size \in Slots
BY Advance, SizeAssumption DEF Slots

LEMMA ZeroInRing == 0 \in Slots
BY SizeAssumption DEF Slots

(* The ring never leaves its slots. *)
THEOREM TypeCorrect == Spec => []TypeOK
<1>1. Init => TypeOK
  BY ZeroInRing DEF Init, TypeOK
<1>2. TypeOK /\ [Next]_vars => TypeOK'
  <2> SUFFICES ASSUME TypeOK, [Next]_vars
               PROVE  TypeOK'
    OBVIOUS
  <2>1. CASE reset
    BY <2>1, ZeroInRing DEF reset, TypeOK
  <2>2. ASSUME NEW v \in Byte, push(v)
        PROVE  TypeOK'
    BY <2>2, AdvanceInRing DEF push, TypeOK
  <2>3. CASE pop
    BY <2>3, AdvanceInRing DEF pop, TypeOK
  <2>4. CASE UNCHANGED vars
    BY <2>4 DEF vars, TypeOK
  <2> QED
    BY <2>1, <2>2, <2>3, <2>4 DEF Next
<1> QED
  BY <1>1, <1>2, PTL DEF Spec
-----------------------------------------------------------------------------
(* The refinement mapping yields a sequence of bytes of the right length. *)
LEMMA HeldBounds ==
  ASSUME TypeOK
  PROVE  /\ Held \in 0 .. Size
         /\ \A i \in 1 .. Held : SlotOf(i) \in Slots
BY SizeAssumption DEF TypeOK, Slots, Held, SlotOf

ContentsAreBytes ==
  /\ Contents \in Seq(Byte)
  /\ Len(Contents) = Held
  /\ \A i \in 1 .. Held : Contents[i] = buf[SlotOf(i)]

LEMMA ContentsSeq == TypeOK => ContentsAreBytes
<1> SUFFICES ASSUME TypeOK
             PROVE  ContentsAreBytes
  OBVIOUS
<1>1. /\ Held \in Nat
      /\ \A i \in 1 .. Held : buf[SlotOf(i)] \in Byte
  BY HeldBounds, SizeAssumption DEF TypeOK
<1>2. Contents \in [1 .. Held -> Byte]
  BY <1>1 DEF Contents
<1> QED
  BY <1>1, <1>2 DEF Contents, ContentsAreBytes

(* The same holds after a step. *)
LEMMA NextContentsSeq == TypeOK' => ContentsAreBytes'
BY ContentsSeq, PTL

(* getFilled(), empty() and the byte pop() returns are those of the queue. *)
LEMMA AnswersFollowType == TypeOK => AnswersAgree
<1> SUFFICES ASSUME TypeOK
             PROVE  AnswersAgree
  OBVIOUS
<1> DEFINE f == [q |-> Contents, full |-> fullFlag]
<1>1. getFilled = Queue!Filled(f)
  <2>1. CASE fullFlag
    BY <2>1 DEF getFilled, Queue!Filled
  <2>2. CASE ~fullFlag
    BY <2>2, ContentsSeq DEF getFilled, Queue!Filled, Held, TypeOK, Slots, ContentsAreBytes
  <2> QED
    BY <2>1, <2>2
<1>2. empty <=> Held = 0
  BY SizeAssumption DEF empty, Held, TypeOK, Slots
<1>3. Held = 0 <=> Contents = << >>
  BY ContentsSeq, EmptySeq DEF ContentsAreBytes
<1>4. ASSUME ~empty
      PROVE  buf[readOff] = Queue!Front(f)
  <2>1. /\ 1 \in 1 .. Held
        /\ SlotOf(1) = readOff
    BY <1>2, <1>4, HeldBounds, SizeAssumption DEF SlotOf, TypeOK, Slots
  <2>2. Contents # << >> /\ Head(Contents) = Contents[1]
    BY <2>1, ContentsSeq, <1>3 DEF ContentsAreBytes
  <2> QED
    BY <2>1, <2>2, ContentsSeq DEF Queue!Front, ContentsAreBytes
<1> QED
  BY <1>1, <1>2, <1>3, <1>4 DEF AnswersAgree, Queue!IsEmpty

THEOREM AnswersCorrect == Spec => []AnswersAgree
BY TypeCorrect, AnswersFollowType, PTL

-----------------------------------------------------------------------------
(* The ring implements the queue: every step of the ring maps to one.      *)

LEMMA ResetStep ==
  ASSUME TypeOK, writeOff' = 0, readOff' = 0, fullFlag' = FALSE, buf' = buf
  PROVE  [q |-> Contents, full |-> fullFlag]' = Queue!EmptyFifo
<1>1. Held' = 0
  BY DEF Held
<1>2. TypeOK'
  BY ZeroInRing DEF TypeOK
<1>3. Contents' = << >>
  BY <1>1 DEF Contents
<1> QED
  BY <1>3 DEF Queue!EmptyFifo

LEMMA PopStep ==
  ASSUME TypeOK, TypeOK', ~empty, pop
  PROVE  [q |-> Contents, full |-> fullFlag]'
           = Queue!Pop([q |-> Contents, full |-> fullFlag])
<1>1. readOff' = (IF readOff + 1 = Size THEN 0 ELSE readOff + 1)
  BY Advance DEF pop, TypeOK
<1>2. /\ Held \in 1 .. Size
      /\ Held' = Held - 1
  BY <1>1, SizeAssumption DEF pop, TypeOK, Slots, empty, Held
<1>3. \A i \in 1 .. Held - 1 : SlotOf(i)' = SlotOf(i + 1)
  BY <1>1, <1>2, SizeAssumption DEF pop, TypeOK, Slots, SlotOf
<1>4. /\ Contents' \in Seq(Byte)
      /\ Len(Contents') = Held - 1
      /\ \A i \in 1 .. Held - 1 : Contents'[i] = buf'[SlotOf(i)']
  BY NextContentsSeq, <1>2 DEF ContentsAreBytes
<1>5. Contents # << >>
  BY <1>2, ContentsSeq DEF ContentsAreBytes
<1>6. Tail(Contents) = Contents'
  <2>1. /\ Tail(Contents) \in Seq(Byte)
        /\ Len(Tail(Contents)) = Held - 1
        /\ \A i \in 1 .. Held - 1 : Tail(Contents)[i] = Contents[i + 1]
    BY <1>5, ContentsSeq, HeadTailProperties DEF ContentsAreBytes
  <2>2. \A i \in 1 .. Held - 1 : Contents[i + 1] = buf[SlotOf(i + 1)]
    BY <1>2, ContentsSeq DEF ContentsAreBytes
  <2> QED
    BY <1>3, <1>4, <2>1, <2>2, SeqEqual DEF pop
<1> QED
  BY <1>6 DEF pop, Queue!Pop

(* A push appends to what the queue keeps: everything, unless it was full. *)
LEMMA PushStep ==
  ASSUME NEW v \in Byte, TypeOK, TypeOK', push(v)
  PROVE  [q |-> Contents, full |-> fullFlag]'
           = Queue!Push([q |-> Contents, full |-> fullFlag], v)
<1> DEFINE kept == IF fullFlag /\ Len(Contents) = Size
                   THEN << >> ELSE Contents
           n == Len(kept)
<1>1. writeOff' = (IF writeOff + 1 = Size THEN 0 ELSE writeOff + 1)
  BY Advance DEF push, TypeOK
<1>2. /\ Contents \in Seq(Byte)
      /\ Len(Contents) = Held
  BY ContentsSeq DEF ContentsAreBytes
<1>3. /\ kept \in Seq(Byte)
      /\ n = IF readOff = writeOff THEN 0
            ELSE IF writeOff > readOff THEN writeOff - readOff
            ELSE (writeOff + Size) - readOff
      /\ kept = << >> \/ kept = Contents
  <2>1. CASE fullFlag /\ Held = Size
    BY <1>2, <2>1, EmptySeq, SizeAssumption DEF Held, TypeOK, Slots
  <2>2. CASE ~(fullFlag /\ Held = Size)
    BY <1>2, <2>2, SizeAssumption DEF Held, TypeOK, Slots
  <2> QED
    BY <2>1, <2>2
<1> HIDE DEF kept
<1>4. Held' = n + 1 /\ n \in 0 .. Size - 1
  <2>1. /\ readOff' = readOff
        /\ readOff = writeOff' => fullFlag'
    BY DEF push
  <2> QED
    BY <1>1, <1>3, <2>1, SizeAssumption DEF TypeOK, Slots, Held
<1>5. \A i \in 1 .. n : /\ SlotOf(i) # writeOff
                       /\ SlotOf(i) \in Slots
  BY <1>3, <1>4, SizeAssumption DEF TypeOK, Slots, SlotOf
<1>6. SlotOf(n + 1) = writeOff
  BY <1>3, <1>4, SizeAssumption DEF TypeOK, Slots, SlotOf
<1>7. \A i \in 1 .. n : kept[i] = buf[SlotOf(i)]
  BY <1>2, <1>3, <1>4, EmptySeq, ContentsSeq DEF ContentsAreBytes
<1>8. Contents' = Append(kept, v)
  <2>1. /\ Contents' \in Seq(Byte)
        /\ Len(Contents') = n + 1
        /\ \A i \in 1 .. n + 1 : Contents'[i] = buf'[SlotOf(i)]
    BY <1>4, NextContentsSeq DEF ContentsAreBytes, push, SlotOf
  <2>2. \A i \in 1 .. n : Contents'[i] = kept[i]
    BY <1>4, <1>5, <1>7, <2>1 DEF push, TypeOK
  <2>3. Contents'[n + 1] = v
    BY <1>4, <1>6, <2>1 DEF push, TypeOK
  <2>4. /\ Append(kept, v) \in Seq(Byte)
        /\ Len(Append(kept, v)) = n + 1
        /\ Append(kept, v)[n + 1] = v
        /\ \A i \in 1 .. n : Append(kept, v)[i] = kept[i]
    BY <1>3, <1>4
  <2>5. \A i \in 1 .. n + 1 : Contents'[i] = Append(kept, v)[i]
    BY <1>4, <2>2, <2>3, <2>4
  <2> QED
    BY <2>1, <2>4, <2>5, SeqEqual
<1>9. fullFlag' = (fullFlag \/ n + 1 = Size)
  <2>1. (readOff = writeOff') \/ fullFlag <=> (n + 1 = Size) \/ fullFlag
    BY <1>1, <1>3, SizeAssumption DEF TypeOK, Slots
  <2> QED
    BY <2>1 DEF push, TypeOK
<1> QED
  BY <1>8, <1>9 DEF Queue!Push, kept

(* FIFO<size> is a bounded queue that forgets what it held when it is      *)
(* pushed onto while full: the refinement the device model relies on.      *)
THEOREM RingImplementsQueue == Spec => ImplementsQueue
<1> DEFINE f == [q |-> Contents, full |-> fullFlag]
<1>1. Init => Queue!Init
  <2> SUFFICES ASSUME Init
               PROVE  Queue!Init
    OBVIOUS
  <2>1. Held = 0
    BY DEF Init, Held
  <2>2. Contents = << >>
    BY <2>1 DEF Contents
  <2> QED
    BY <2>2 DEF Init, Queue!Init, Queue!EmptyFifo
<1>2. TypeOK /\ TypeOK' /\ [Next]_vars => [Queue!Next]_f
  <2> SUFFICES ASSUME TypeOK, TypeOK', [Next]_vars
               PROVE  Queue!Next \/ f' = f
    OBVIOUS
  <2>1. CASE reset
    BY <2>1, ResetStep DEF reset, Queue!Next, Queue!Reset
  <2>2. ASSUME NEW v \in Byte, push(v)
        PROVE  Queue!Next
    BY <2>2, PushStep DEF Queue!Next, Queue!Put
  <2>3. CASE ~empty /\ pop
    <3>1. ~Queue!IsEmpty(f)
      BY <2>3, AnswersFollowType DEF AnswersAgree
    <3> QED
      BY <2>3, <3>1, PopStep DEF Queue!Next, Queue!Get
  <2>4. CASE UNCHANGED vars
    BY <2>4 DEF vars, Contents, Held, SlotOf
  <2> QED
    BY <2>1, <2>2, <2>3, <2>4 DEF Next
<1> QED
  BY <1>1, <1>2, TypeCorrect, PTL DEF Spec, ImplementsQueue, Queue!Spec
=============================================================================
