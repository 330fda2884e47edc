------------------------------ MODULE FlashBus ------------------------------
(***************************************************************************)
(* The flash chips of a cartridge, one synchronous serial port and a chip  *)
(* select each (Main.cpp: MultiSerialFlash, Port1Classic, Port2Classic),   *)
(* and the firmware that reads and programs them, one byte at a time.      *)
(***************************************************************************)
EXTENDS SerialFlash, FiniteSets, SequencesExt

CONSTANTS
  Chips,      \* the chips, in the order the wrapper asks them
  Writable,   \* those the firmware programs
  Contents,   \* what each memory holds at first
  Byte,       \* bytes of a page
  MaxData     \* bound: bytes programmed or read in one operation

Names == Range(Chips)

ASSUME BusAssumption == /\ Chips \in Seq(Names) /\ IsInjective(Chips)
                        /\ Byte \subseteq 0 .. 255 /\ 0 \in Byte
                        /\ MaxData \in Nat
                        /\ Contents \in [Addresses -> Byte]

VARIABLES
  flash,  \* each chip
  mem,    \* its memory
  job     \* what the firmware is doing, what it sent and what came back

vars == <<flash, mem, job>>

NoJob == [op |-> "none"]

-----------------------------------------------------------------------------
(* The bus.  A transfer writes to every selected chip and then reads from  *)
(* the first of them, if that one was written to. *)

Selected == {c \in Names : ~flash[c].cs}

First(S) == Chips[CHOOSE i \in DOMAIN Chips :
                    Chips[i] \in S /\ \A k \in 1 .. i - 1 : Chips[k] \notin S]

Written(val) == [c \in Names |-> Write(flash[c], val)]

Transfer(val) ==
  LET after == Written(val)
      c == First(Selected)
  IN  /\ flash' = IF Selected # {} /\ canRead(after[c])
                  THEN [after EXCEPT ![c] = Read(@)] ELSE after
      /\ job' = [job EXCEPT
                   !.sent = Append(@, val),
                   !.got = Append(@, IF Selected # {} /\ canRead(after[c])
                                     THEN Answer(after[c], mem[c]) ELSE Idle)]
      /\ UNCHANGED mem

ChipSelect(c, val) ==
  /\ flash' = [flash EXCEPT ![c] = SetCS(@, val)]
  /\ mem' = [mem EXCEPT ![c] = Programmed(flash[c], val, @)]

-----------------------------------------------------------------------------
(* The firmware.  It reads no further than the end of a page. *)

Opcodes == [read |-> MemoryRead, status |-> StatusRead, compare |-> Compare,
            program |-> MemoryWrite]

Command(op, page, off) ==
  <<Opcodes[op]>> \o
  (IF op = "status" THEN << >>
   ELSE <<page \div 128, (page % 128) * 2 + off \div 256, off % 256>>
        \o (IF op = "read" THEN <<0, 0, 0, 0>> ELSE << >>))

Select ==
  /\ job = NoJob
  /\ \E op \in DOMAIN Opcodes, c \in Names, p \in Pages, off \in Offsets :
       /\ off > 0 => op \in {"read", "program"}
       /\ p > 0 => op # "status"
       /\ op = "program" => c \in Writable
       /\ ChipSelect(c, FALSE)
       /\ job' = [op |-> op, chip |-> c, page |-> p, off |-> off,
                  command |-> Command(op, p, off), sent |-> << >>,
                  got |-> << >>, before |-> flash[c].writeBuf]

Commanding == Len(job.sent) < Len(job.command)
DataSent == SubSeq(job.sent, Len(job.command) + 1, Len(job.sent))

SendCommand == /\ job # NoJob /\ Commanding
               /\ Transfer(job.command[Len(job.sent) + 1])

SendData == /\ job # NoJob /\ job.op = "program" /\ ~Commanding
            /\ Len(DataSent) < MaxData
            /\ \E b \in Byte : Transfer(b)

Limit == IF job.op = "status" THEN MaxData ELSE PageSize - job.off

Fetch == /\ job # NoJob /\ job.op \in {"read", "status"} /\ ~Commanding
         /\ Len(DataSent) < Limit
         /\ Transfer(Idle)

(* Only after the whole command: a deselection does not end a command.     *)
Deselect == /\ job # NoJob /\ ~Commanding
            /\ ChipSelect(job.chip, TRUE)
            /\ job' = NoJob

Init == /\ flash = [c \in Names |-> Deselected([i \in Offsets |-> 0])]
        /\ mem = [c \in Names |-> Contents]
        /\ job = NoJob

Next == Select \/ SendCommand \/ SendData \/ Fetch \/ Deselect

Spec == Init /\ [][Next]_vars

-----------------------------------------------------------------------------
TypeOK ==
  \A c \in Names :
    /\ flash[c].writeBuf \in [Offsets -> Byte]
    /\ flash[c].writeOff \in Offsets /\ flash[c].readOff \in Offsets
    /\ flash[c].readAddr \in Addresses \cup {None}
    /\ flash[c].writeAddr \in Addresses \cup {None}
    /\ Len(flash[c].buf) <= 7
    /\ mem[c] \in [Addresses -> Byte]

Received(i) == job.got[Len(job.command) + i]

(* The first byte after a command is the first of its answer: the memory   *)
(* from the address on, or the status.  Neither the command's own last     *)
(* byte nor another chip answers for it. *)
AnswersFollowCommands ==
  job # NoJob /\ ~Commanding =>
    \A i \in 1 .. Len(DataSent) :
      /\ job.op = "read" =>
           Received(i) = mem[job.chip][job.page * PageSize + job.off + i - 1]
      /\ job.op = "status" => Received(i) = Ready

PageOf(m, p) == [i \in Offsets |-> m[p * PageSize + i]]

(* What is programmed is what the buffer held with the bytes sent in place *)
(* of its first ones, again from the start after the last. *)
Overlaid(page, data) ==
  [i \in Offsets |->
     LET here == {k \in 1 .. Len(data) : (k - 1) % PageSize = i}
     IN  IF here = {} THEN page[i] ELSE data[Max(here)]]

(* The end of an operation changes the page it was to program and nothing  *)
(* else, and no other step changes any page. *)
OnlyPageProgrammed ==
  [][\A c \in Names, p \in Pages :
       PageOf(mem'[c], p) =
         IF /\ job # NoJob /\ job' = NoJob /\ job.op = "program"
            /\ c = job.chip /\ p = job.page
         THEN Overlaid(job.before, DataSent)
         ELSE PageOf(mem[c], p)]_vars

(* The chips are page stores. *)
Store == INSTANCE PageStore WITH
           Chips <- Names,
           pages <- [c \in Names |-> [p \in Pages |-> PageOf(mem[c], p)]],
           buffer <- [c \in Names |-> flash[c].writeBuf]

ImplementsPageStore == Store!Spec
=============================================================================
