-------------------------------- MODULE SdBus --------------------------------
(***************************************************************************)
(* The cartridge port of the Xtreme (emu2/BootSerial.cpp: BootSerial with  *)
(* index 1) with a card, and firmware that reads and writes its blocks.    *)
(* The firmware sends with reception off and receives with transmission    *)
(* off, so that the port sends 0xFF (H8CPU::Serial::doRX).                 *)
(***************************************************************************)
EXTENDS SdCard

CONSTANTS
  Data,     \* blocks to write, with bytes that look like something else
  File,     \* what the file holds at first
  MaxBlocks \* bound: blocks in a multiple read or write

ASSUME SdAssumption == /\ Data \subseteq [1 .. BlockSize -> 0 .. 255]
                       /\ File \in [0 .. FileSize - 1 -> 0 .. 255]
                       /\ MaxBlocks \in Nat

NumBlocks == FileSize \div BlockSize
Blocks == 0 .. NumBlocks - 1

VARIABLES
  sdMode,  \* the port has become the card's
  card,
  job,     \* what the firmware does, and the step it is at
  up,      \* the firmware has initialised the card
  reply    \* the last answer waited for, and what it should have been

vars == <<sdMode, card, job, up, reply>>

NoJob == [op |-> "none", block |-> 0, datas |-> << >>, got |-> << >>,
          parts |-> << >>, part |-> 1, at |-> 1]

-----------------------------------------------------------------------------
(* BootSerial.  What is written before the card's time is a log, until a   *)
(* byte of an idle line. *)
Switched(val) == val = Empty

BootWrite ==
  /\ ~sdMode
  /\ \E val \in {10, Empty} : sdMode' = Switched(val)
  /\ UNCHANGED <<card, job, up, reply>>

(* A byte clocked in: the port sends one, and reads if there is one.       *)
Clocked == Write(card, Empty)
In == Answer(Clocked)
ClockIn == card' = Read(Clocked)

-----------------------------------------------------------------------------
(* What the firmware does: parts, each a sequence of steps. *)

Send(val) == [kind |-> "send", val |-> val]
Reply(val) == [kind |-> "reply", val |-> val]  \* the first byte not 0xFF
Expect(val) == [kind |-> "until", val |-> val] \* everything up to val
Collect == [kind |-> "collect", val |-> 0]
Skip == [kind |-> "skip", val |-> 0]

Above(a) == a \div 256  \* all but the last byte

Cmd(n, arg, r1) ==
  <<Send(64 + n), Send(Above(Above(Above(arg)))), Send(Above(Above(arg)) % 256),
    Send(Above(arg) % 256), Send(arg % 256), Send(Empty), Reply(r1)>>

(* n bytes and two of CRC, but for the last of these. *)
Incoming(n, cut) ==
  [i \in 1 .. n + 3 - cut |-> IF i = 1 THEN Expect(StartToken)
                              ELSE IF i <= n + 1 THEN Collect ELSE Skip]

Outgoing(token, data) ==
  [i \in 1 .. BlockSize + 5 |->
     CASE i = 1 -> Send(token)
       [] i \in 2 .. BlockSize + 1 -> Send(data[i - 1])
       [] i \in BlockSize + 2 .. BlockSize + 3 -> Send(Empty)
       [] i = BlockSize + 4 -> Reply(Accepted)
       [] i = BlockSize + 5 -> Expect(Empty)]

Stop == <<Send(64 + 12), Send(0), Send(0), Send(0), Send(0), Send(Empty),
          Skip, Reply(0)>>

(* CMD8 is unknown to the card. *)
Initialise == <<Cmd(0, 0, 1), Cmd(8, 0, 5), Cmd(55, 0, 1), Cmd(41, 0, 0)>>
ReadRegister == <<Cmd(9, 0, 0), Incoming(Len(Register), 0)>>
ReadOne(b) == <<Cmd(17, b * BlockSize, 0), Incoming(BlockSize, 0)>>
ReadMany(b, n, cut) ==
  [i \in 1 .. n + 2 |->
     IF i = 1 THEN Cmd(18, b * BlockSize, 0)
     ELSE IF i = n + 2 THEN Stop
     ELSE Incoming(BlockSize, IF i = n + 1 THEN cut ELSE 0)]

WriteOne(b, data) ==
  <<Cmd(24, b * BlockSize, 0), Outgoing(StartToken, data)>>
WriteMany(b, datas) ==
  [i \in 1 .. Len(datas) + 2 |->
     IF i = 1 THEN Cmd(25, b * BlockSize, 0)
     ELSE IF i = Len(datas) + 2 THEN <<Send(StopToken)>>
     ELSE Outgoing(MultiToken, datas[i - 1])]

Begin(op, b, datas, parts) ==
  /\ job = NoJob
  /\ job' = [NoJob EXCEPT !.op = op, !.block = b, !.datas = datas,
                          !.parts = parts]
  /\ UNCHANGED <<sdMode, card, up, reply>>

BeginInitialise == sdMode /\ Begin("initialise", 0, << >>, Initialise)

BeginRegister == up /\ Begin("register", 0, << >>, ReadRegister)

BeginRead == up /\ \E b \in Blocks : Begin("read", b, << >>, ReadOne(b))

(* It may stop a multiple read at once, or in the middle of a block. *)
BeginReadMany ==
  up /\ \E b \in Blocks, n \in 0 .. MaxBlocks, cut \in 0 .. BlockSize + 2 :
          b + n <= NumBlocks /\ Begin("read", b, << >>, ReadMany(b, n, cut))

BeginWrite ==
  up /\ \E b \in Blocks, d \in Data : Begin("write", b, <<d>>, WriteOne(b, d))

BeginWriteMany ==
  up /\ \E b \in Blocks, n \in 1 .. MaxBlocks : \E ds \in [1 .. n -> Data] :
          b + n <= NumBlocks /\ Begin("write", b, ds, WriteMany(b, ds))

-----------------------------------------------------------------------------
Part(j) == j.parts[j.part]
Now(j) == Part(j)[j.at]

Rest(j) ==
  IF j.at < Len(Part(j)) THEN [j EXCEPT !.at = @ + 1]
  ELSE IF j.part < Len(j.parts) THEN [j EXCEPT !.part = @ + 1, !.at = 1]
  ELSE NoJob

Doing(kind) == job # NoJob /\ Now(job).kind = kind

SendByte == /\ Doing("send")
            /\ card' = Write(card, Now(job).val)
            /\ job' = Rest(job)
            /\ UNCHANGED <<sdMode, up, reply>>

AwaitReply ==
  LET come == In # Empty
  IN  /\ Doing("reply")
      /\ ClockIn
      /\ job' = IF come THEN Rest(job) ELSE job
      /\ reply' = IF come THEN [got |-> In, want |-> Now(job).val] ELSE reply
      /\ up' = (up \/ (come /\ job.op = "initialise" /\ Rest(job) = NoJob))
      /\ UNCHANGED sdMode

Receive(next) == /\ ClockIn
                 /\ job' = next
                 /\ UNCHANGED <<sdMode, up, reply>>

AwaitByte == /\ Doing("until")
             /\ Receive(IF In = Now(job).val THEN Rest(job) ELSE job)

CollectByte == Doing("collect") /\ Receive([Rest(job) EXCEPT !.got = Append(@, In)])

SkipByte == Doing("skip") /\ Receive(Rest(job))

(* Between operations the firmware may keep the clock going.               *)
IdleClock == sdMode /\ job = NoJob /\ Receive(job)

Init == /\ sdMode = FALSE
        /\ card = Blank(File)
        /\ job = NoJob
        /\ up = FALSE
        /\ reply = [got |-> 0, want |-> 0]

Firmware == \/ SendByte \/ AwaitReply \/ AwaitByte \/ CollectByte \/ SkipByte

Next == \/ BootWrite \/ Firmware \/ IdleClock
        \/ BeginInitialise \/ BeginRegister
        \/ BeginRead \/ BeginReadMany \/ BeginWrite \/ BeginWriteMany

Spec == Init /\ [][Next]_vars /\ WF_vars(Firmware)

-----------------------------------------------------------------------------
(* What answers a command is its own answer: nothing left of an earlier    *)
(* operation, and none of a block that was being sent. *)
RepliesAreForThis == reply.got = reply.want

(* The bytes collected are those of the blocks asked for, in order, also   *)
(* when the firmware stops early. *)
ReadsTheBlocks ==
  CASE job.op = "read" ->
         \A i \in 1 .. Len(job.got) :
           job.got[i] = card.file[job.block * BlockSize + i - 1]
    [] job.op = "register" ->
         \A i \in 1 .. Len(job.got) : job.got[i] = Register[i]
    [] OTHER -> TRUE

FileBlock(c, b) == [i \in 1 .. BlockSize |-> c.file[b * BlockSize + i - 1]]

(* A step from job j to job i makes file c file d: only its own blocks, each *)
(* as it was or as it was sent, and all of them by the end of the job.     *)
Outcome(j, i, c, d) ==
  \A b \in Blocks :
    LET k == b - j.block + 1
        new == FileBlock(d, b)
    IN  IF j # NoJob /\ j.op = "write" /\ k \in DOMAIN j.datas
        THEN /\ new \in {FileBlock(c, b), j.datas[k]}
             /\ i = NoJob => new = j.datas[k]
        ELSE new = FileBlock(c, b)

(* A write changes only its own blocks, each to what was sent for it, and  *)
(* all of them by its end. *)
WritesTheBlocks == [][Outcome(job, job', card, card')]_vars

(* No operation waits for ever for an answer, a token or the end of busy.  *)
OperationsEnd == job # NoJob ~> job = NoJob
=============================================================================
