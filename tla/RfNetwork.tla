------------------------------ MODULE RfNetwork ------------------------------
(***************************************************************************)
(* Emulators whose radio chips (RFSerial) are connected by multicast       *)
(* datagrams.  A packet is what the firmware of one writes: who it is from *)
(* and which it is (its header), and its data.  It goes to every emulator, *)
(* the one that sent it included, in any order or not at all; the header   *)
(* of the last packet sent tells an emulator its own.                      *)
(*                                                                         *)
(* The firmware (not in the repository) writes one message at a time,      *)
(* reads what the chip has for it, and waits for the answer to a packet    *)
(* before it writes another, or the same one again.                        *)
(***************************************************************************)
EXTENDS ReedSolomon, Sequences

CONSTANTS MaybeMute,   \* emulators that may have no socket to send,
          MaybeDeaf,   \* or to receive
          MaxLost,     \* bound: datagrams lost
          MaxSent      \* bound: packets an emulator sends, those again included

Emulators == {p.from : p \in Packets}

VARIABLES
  mute, deaf, \* emulators that have none
  writing,    \* what has been written of a message: its packet
  waiting,    \* the firmware waits for the answer
  lastHead,   \* header of the last packet sent
  air,        \* datagrams on their way: packet and receiver
  writeQueue, \* what the firmware can read: answers, packets with their ECC
  heard,      \* packets the firmware has read
  lost,       \* datagrams lost
  sent        \* packets sent

vars == <<tables, mute, deaf, writing, waiting, lastHead, air, writeQueue, heard, lost, sent>>
radio == <<mute, deaf, writing, waiting, lastHead, air, writeQueue, heard, lost, sent>>

Nothing == [from |-> 0, no |-> 0]
Answer == [kind |-> "answer"]
HeadOf(p) == <<p.from, p.no>>

(* What eccCalc makes of a packet depends on nothing else: there are       *)
(* behaviours that compute it, and others that have a network.             *)
(*                                                                         *)
(* No header has been in memory before: what lastHead holds at first is    *)
(* not set, and is none. *)
Init ==
  /\ \/ TablesInit /\ mute = {} /\ deaf = {}
     \/ NoTables /\ mute = {} /\ deaf = {}
     \/ NoTables /\ mute = MaybeMute /\ deaf = MaybeDeaf
  /\ writing = [e \in Emulators |-> Nothing]
  /\ waiting = [e \in Emulators |-> FALSE]
  /\ lastHead = [e \in Emulators |-> HeadOf(Nothing)]
  /\ air = {} /\ lost = {}
  /\ writeQueue = [e \in Emulators |-> << >>]
  /\ heard = [e \in Emulators |-> {}]
  /\ sent = [e \in Emulators |-> 0]

Coding == (MakeTables \/ EncodePackets) /\ UNCHANGED radio

-----------------------------------------------------------------------------
(* write: the first byte of a packet, and the last one. *)
Following(e) ==
  {p \in Packets : p.from = e /\ p.no \in {lastHead[e][2], lastHead[e][2] + 1}}

WriteFirst(e) ==
  /\ writing[e] = Nothing /\ ~waiting[e] /\ sent[e] < MaxSent
  /\ \E p \in Following(e) : writing' = [writing EXCEPT ![e] = p]
  /\ UNCHANGED <<waiting, lastHead, air, writeQueue, heard, lost, sent>>

WriteLast(e) ==
  /\ writing[e] # Nothing
  /\ writeQueue' = [writeQueue EXCEPT ![e] = Append(@, Answer)]
  /\ IF e \in mute THEN UNCHANGED <<lastHead, air>>
     ELSE /\ lastHead' = [lastHead EXCEPT ![e] = HeadOf(writing[e])]
          /\ air' = air \cup {<<writing[e], f>> : f \in Emulators \ deaf}
  /\ writing' = [writing EXCEPT ![e] = Nothing]
  /\ waiting' = [waiting EXCEPT ![e] = TRUE]
  /\ sent' = [sent EXCEPT ![e] = @ + 1]
  /\ UNCHANGED <<heard, lost>>

(* A mutant: only the number is compared. *)
SameNumber(e, p) == p.no = lastHead[e][2]

IsOwn(e, p) == HeadOf(p) = lastHead[e]

Receive(e, p) ==
  writeQueue' = [writeQueue EXCEPT ![e] =
                   Append(@, [kind |-> "packet", packet |-> p])]

NetworkUpdate(e) ==
  /\ \E p \in Packets :
       /\ <<p, e>> \in air
       /\ air' = air \ {<<p, e>>}
       /\ IF IsOwn(e, p) THEN UNCHANGED writeQueue ELSE Receive(e, p)
  /\ UNCHANGED <<writing, waiting, lastHead, heard, lost, sent>>

(* read, for the bytes of an answer or a packet. *)
Read(e) ==
  /\ writeQueue[e] # << >>
  /\ LET item == Head(writeQueue[e])
     IN IF item.kind = "answer"
        THEN waiting' = [waiting EXCEPT ![e] = FALSE] /\ UNCHANGED heard
        ELSE heard' = [heard EXCEPT ![e] = @ \cup {item.packet}] /\ UNCHANGED waiting
  /\ writeQueue' = [writeQueue EXCEPT ![e] = Tail(@)]
  /\ UNCHANGED <<writing, lastHead, air, lost, sent>>

Lose ==
  /\ Cardinality(lost) < MaxLost
  /\ \E d \in air : air' = air \ {d} /\ lost' = lost \cup {d}
  /\ UNCHANGED <<writing, waiting, lastHead, writeQueue, heard, sent>>

-----------------------------------------------------------------------------
Emulator(e) == WriteFirst(e) \/ WriteLast(e) \/ NetworkUpdate(e) \/ Read(e)

Networking == setup.loop = "none"

Step(e) == Networking /\ Emulator(e) /\ UNCHANGED <<tables, mute, deaf>>

Next ==
  \/ Coding
  \/ \E e \in Emulators : Step(e)
  \/ Networking /\ Lose /\ UNCHANGED <<tables, mute, deaf>>

(* The main loop goes on, and the firmware reads what there is. *)
Fairness == WF_vars(Coding) /\ \A e \in Emulators : WF_vars(Step(e))

Spec == Init /\ [][Next]_vars /\ Fairness

-----------------------------------------------------------------------------
(* A packet that gets to another emulator is read by its firmware, however *)
(* many that emulator sends meanwhile: none is taken for its own. *)
HearsOthers ==
  \A p \in Packets : \A e \in Emulators \ {p.from} :
    (<<p, e>> \in air) ~> (p \in heard[e] \/ <<p, e>> \in lost)
=============================================================================
