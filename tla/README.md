# Formal models of the Cybiko emulator and tools

The repository holds an emulator of the Cybiko handhelds (`emu2/`), a hardware
library (`lib/`), host tools (`tools/`), instruction tests that run on the
hardware (`test/`) and notes (`docs/`). These modules state what its parts
promise and what they do, check the one against the other with TLC, and prove
with TLAPS what can be proved for every size.

## Inventory

| Component | State | Operations | What is hard | What makes it correct |
|---|---|---|---|---|
| FIFO&lt;size&gt; (`USBDevice.h`) | slots, two offsets, full flag | reset, push, pop, level, empty, full | wrap-around, push onto a full ring | it is a bounded queue |
| USB controller (`USBDevice.cpp`) | FIFOs, enables, events, masks, endpoint map, enumeration state, pending requests | register reads and writes; `updateEnumeration`; five callbacks from usbip.c; reset | firmware, enumeration and host share endpoint 0's one FIFO; requests given up; resets | bytes go to whom they are meant for, in order; each request answered once; no event without interrupt; enumeration ends |
| USB/IP server (`usbip.c`) | device list, clients, select set | update (accept, receive, disconnect), add/remove device, create/destroy | list changed while walked; set must follow list | list sound, every client read |
| CPU instructions (`H8CPU.cpp`) | registers, flags, memory | one step per instruction | flags at the boundaries | same as hardware (`test/instructions`) |
| Interrupt controller | requests, IRQ status and enables | request, service, IER/ISR writes, sleep | late enables, priorities | nothing requested is lost, lowest first |
| DMA, DTC | registers in RAM, counts, enables | transfer on request, end interrupt | activation flags against interrupt requests | each request moves one unit, or interrupts |
| Serial ports | TDR/RDR, status, counters, delayed interrupts | register accesses, update | ends of transmission and reception at different cycles | no byte lost or doubled without ORER |
| Timers, TPU, ADC | counters, compare values, flags, outputs | register accesses, update | counters are brought up to date only when looked at | they are those clocked every cycle; interrupts and sound in time |
| Boot and SD device (`BootSerial.cpp`) | command buffer, status bits, read queue, block buffer | read, write | parser state over commands | card follows its protocol |
| Serial flash | opcode, lengths, addresses, page buffer | read, write, chip select | commands cut short by chip select | a page write writes that page |
| RF chip (`RFSerial.cpp`) | packet buffer, queue, last header, code tables | read, write, network update, error correction | own multicasts come back; the code's bytes are not sent but computed anew | every foreign packet delivered, as a word of the code |
| DS2401, PCF8593 | bit counters, phases | pin changes | bit-level protocols | the answer is the register |
| Keyboard, LCD, memories | arrays, address counters | read, write | little | |
| Main loop (`Main.cpp`) | speaker level and time | turns: events, processor, USB/IP, radio, display | order of the turns | sound never goes back in time |
| `usbcon`, `sercon` | place in the protocol, packet numbers, file position | send file, boot | resends, stale answers, timeouts | the file arrives whole, success is true, transfers end |
| `encoding.c` and the other tools | bit streams | LZSS, BMC | two tables of variable-length codes, end of the bits | decode after encode, a wrong length noticed |
| `lib/H8` | poll loops, dirty rows | sciRead, sciWrite, LCD update | polling against hardware | |

How they interact: `main()` runs everything on one thread, in turns: input
events, then a slice of processor cycles, then `usbip_server_update()`, then the
radio. Devices are called by the processor's bus accesses and serial ports, and
call back `externalInterrupt()`; usbip.c calls the USB device, which answers
through usbip.c. So each register access and each callback is atomic, and the
order between them is arbitrary; only socket peers really run in parallel.

`PROJECT.json` lists the components with their status, and the hazards at their lines.

## Modules

| Module | Models | Correspondence |
|---|---|---|
| `ByteFifo` | the promise of FIFO&lt;size&gt; | operators on `[q, full]`: the bytes that can be popped, and the answer of `full()` |
| `BoundedQueue` | the same as a state machine | Reset, Put, Get |
| `UsbFifo` | FIFO&lt;size&gt; | `buf`, `writeOff`, `readOff`, `fullFlag`; actions `reset`, `push`, `pop` |
| `UsbFifoProofs` | theorems about `UsbFifo` | |
| `UsbDevice` | `USBDevice.cpp` | one action per register access (`ReadTXS`, `WriteTXC0`, ...) and per callback (`usbipIn`, ...); FIFOs are `ByteFifo` values, which `UsbFifoProofs` justifies |
| `UsbControlSystem` | `UsbDevice` with firmware for endpoint 0 and a host | firmware written for the register interface, one register access per step |
| `UsbBulkSystem` | `UsbDevice` with arbitrary firmware on a data pipe and a host | |
| `UsbDeviceProofs` | theorems about `UsbBulkSystem`: requests, order of the data, signals | |
| `UsbControlProofs` | theorems about `UsbControlSystem`: endpoint 0's shared FIFO | |
| `UsbipServer` | connections of `usbip.c` | pointers of the client list, select set, the walk one client at a time |
| `UsbipServerProofs` | theorems about `UsbipServer` | |
| `Sci` | `H8CPU::Serial`, one port and its device | operators on a record of the machine: `update`, `doTX`, `doRX`, `calcNextUpdate`, `SetSCR`, `SetTDR`, `SetSSR` |
| `DataTransfer` | `DMAChannel::transfer()`, `updateDTC()` | operators on the same record; a bus access to the port updates it, as `readIOReg()` and `writeIOReg()` do |
| `CpuSerialSystem` | `executeCycles()`, `serviceInterrupt()`, `externalInterrupt()`, IER; firmware | `phase` is where the loop is; one instruction per turn |
| `CpuSerialProofs` | theorems about `CpuSerialSystem`: the predicted updates, the order of what is sent | |
| `SerialFlash` | `SerialFlash.cpp`, one chip | operators on a record of its fields: `Write`, `Read`, `SetCS`; the memory is a function beside it |
| `PageStore` | what a chip promises: a page buffer, and pages that change only to what it holds | `Load`, `Program` |
| `FlashBus` | two chips behind one port (`MultiSerialFlash`, the ports with the chip selects); firmware | a transfer writes to the selected chips and reads from the first |
| `FlashBusProofs` | theorems about `FlashBus`, the refinement of `PageStore` among them | |
| `SdCard` | `SDCard` of `BootSerial.cpp` | operators on a record of its fields, with the file: `Write`, `Read` |
| `SdBus` | `BootSerial` as the card's port; firmware | an operation is a sequence of parts, a command or a block each, of steps: send, await, collect, skip |
| `SdBusProofs` | theorems about `SdBus`: answers, blocks read, blocks written | |
| `Tpu` | `H8CPU::TPU`, with the speaker's pin (`Port1Sound`) | operators on a record: `update`, `calcNextUpdate`, `setIO`, one per register |
| `Timer8` | `H8CPU::Timer` | the same for the 8-bit timer |
| `IdealTimers` | what timers promise: counters clocked every cycle | `Tick`, and the program's writes |
| `TimerSystem` | the timers under `executeCycles()`; firmware | an instruction with at most one register access, cycle by cycle; the end of a slice |
| `FileHost` | what the programs that send a file share | the file, the program's place, messages both ways |
| `Sercon` | `sercon.c`, and the boot handshake of `BootSerial.cpp` | one action per read and what is done with it |
| `Usbcon` | `usbcon.c`, sending and booting | likewise, per packet |
| `TransferSystem` | the programs with a device and a faulty line | |
| `TransferProofs` | theorems about `TransferSystem` | |
| `BmcCodes` | the writers and readers of BMC's codes | writer's rows, reader's leaves |
| `Compression` | `encodeLZSS` to `decodeBMC`, as `imgtool` calls them | one turn of a loop is a step |
| `ReedSolomon` | `eccInit`, `eccCalc`, `rsMod` | one turn of a loop is a step, at full size |
| `RfNetwork` | `RFSerial` and the multicast group | first and last byte of a message, network update, read |
| `MC...` | instances for TLC | |

Definitions that nothing uses (`PopWithoutWrap`, `doTXRaising`, ...) are the
faults that `PROJECT.json` substitutes to see each property fail.

### UsbDevice

The state of the C++ object is kept field by field (`txEnable`/`rxEnable` are
`enable`, `endpointControl` is `epc`, `txEvent`/`rxEvent`/NAKEV_OUT0 are `event`,
the LAST bits of `txCommand` are `last`, `usbipInSeqnum`, `...DataLen` and the
collected data are `in`). What is abstracted: bytes of endpoint 0 only say who
wrote them (a setup packet, by request, or the firmware); bytes of a pipe are
numbered by the firmware; lengths are scaled down by constants. `in[ep]` is set
to `NoIn` when its sequence number is cleared, because nothing reads the other
fields until they are set again. ALTEV (no bit is ever set), ALTMSK and EPC0 are
left out. `enumer.clean`, `urb` and `reply` are history: who the descriptor
bytes came from, what the host knows of each request, what it was sent.

`enumerationState` is not initialised when the constructor reads it, so `Init`
lets the server be up or down. The model is of a run with `--usbip`: without it
the device is never served. A configuration header that did not come in one
piece leaves part of a local buffer uninitialised, so `LengthsRead` is a set.

Assumed of the host: one request waiting per endpoint, and none when it
detaches. Without the first the device forgets requests (it says so itself, line
624); without the second it answers a client that was freed. Both are in the
list of hazards. A control request with OUT data is never answered by the code;
`usb_control` leaves it out.

### UsbControlSystem's firmware

It is external: the repository has none. It resets the device, opens the masks,
enables reception, and serves one event per interrupt, in either order when two
are pending; it reads a setup packet, switches the FIFO, answers packet by
packet and enables reception when done. It reads TXS0 before it enables
reception, and ends an answer shorter than asked for by an empty packet, as the
comment at line 269 expects ("should be end of data if we have any").

### UsbipServer

`Select`/`SelectAndAccept`, one of `PassOver`, `Serve`, `Drop` per client, and
`Finish` are the steps of one `usbip_server_update()`; the device's own steps
(`usbip_add_device`, `Recreate`) happen only between updates, those of the peers
at any time. `round` holds the function's locals, and `due`/`served` as history.
A freed client's `nxt` and a closed socket's queue are cleared, as nothing may
read them: `ListSound` is what says that nothing does.

### Sci, DataTransfer, CpuSerialSystem

Processor, DMAC and DTC all act on the port and on each other's requests inside
one call, so these operations are functions of a record `w` (port, device,
requests, RAM, sub-channels, descriptors) and `CpuSerialSystem` splits the record
into variables. `Sci` keeps time relative to `lastUpdateCycle`: `since` is what
`update()` finds elapsed, `next` the predicted update. `TransferByDma`,
`ServeRequests`, one instruction and `UpdatePeripherals` are the body of the
loop in `executeCycles()`; a turn takes any of `InstrCycles`.

The firmware either polls, access by access as `sciWrite`, `sciRead` and
`sciTransfer` do (`transfer`, `write`, `read`, and `readSync` for a port that
only receives), or, which the repository has no code for, has the message moved
(`dma` full duplex and synchronous; `dtcTx`, `dtcRx`, and `dtcLog`, a chain whose
first descriptor copies a block). For the programs in `Split`, `SSRx(i) &= ~flag` is
a load and a store, as the compiler may produce. At the start modules are
running, mode and bit rate are set and the I bit is still set.

Left out: full address mode, word size and repeat mode; sleeping; module stop;
multiprocessor reception; changing the mode of a running port. Request numbers are
those of port 1 and channel 1, the only trigger the DMAC knows.

### SerialFlash and FlashBus

Each transfer of the port writes a byte and reads one if `canRead()`; the wrapper
writes to every selected chip and reads from the first. A chip collects the bytes
after an opcode (`Argument`) and acts at the last (`Begun`); a page is programmed
when the chip is deselected, from the start of the page whatever address was sent.
`PageStore` is what a user of the chip may count on; `FlashBus` maps its pages and
buffers and implements it.

The firmware sends a whole command before it deselects, one chip at a time, and
reads to the end of a page at most (the chip would go on into the next page, past
the memory after the last one, and be back at the address after a page's worth
of bytes). The first is needed: deselecting keeps `opCode` and `len` of a command
that is not complete, so a read cut short after its opcode takes the next
command, a program say, for its address, and the page is not programmed. With
`Deselect` allowed before the command is complete, `OnlyPageProgrammed` fails.
An address put together from two commands may even lie outside the memory; what a
chip's parser keeps of it stays in range (`CommandsStayInTheirBuffer`).
Left out: reading and writing the image files.

### SdCard and SdBus

The port takes what is written for a log until a byte 0xFF (`sdMode`). From then
on the card parses commands of six bytes, queues its answers, and queues the next
block of a multiple read when a byte is written and the queue is empty. The
firmware initialises the card, then reads and writes single and multiple blocks
inside the file, stops a multiple read after any byte of a block or before the first,
and may keep the clock running between operations. It sends with reception off, as the
comment at `BootSerial.cpp:167` supposes ("RX is disabled here"): a byte sent takes
nothing out of the queue. Addresses are four bytes, and `CardAssumption` keeps them
within an `int`, the type `readAddress` and `writeAddress` have. The bytes of a block
beyond the end of the file are never written before they are sent; they are 0 here, and
only the block queued ahead has any, which stopping throws away. Left out: a host's port
in place of the log; the handshake that loads a boot file is in `Sercon`.

### Tpu, Timer8, TimerSystem

A channel is not clocked. Its counter, flags and outputs are brought up to date
when a register is accessed, when an interrupt may be due (`updateForInterrupts`)
and, for the sound, at the end of a slice; `update()` jumps from match to match.
Times are kept relative to the present: `since` is what `update()` finds
elapsed, `toNext` the time `nextUpdateCycle` is ahead of `lastUpdateCycle`.
`TimerSystem` lets every cycle pass by itself, an instruction at a time, short,
or as long as slow memory, wait states and the transfers it waits for make it, and
does at the end of each what `executeCycles()` does. `seen` is what reading the timers now would
show; `IdealTimers`, with `seen` for its state, is the specification it
implements, so whoever looks, and however late, must find what a timer clocked
in every cycle has. `setup` is how firmware (external) has set the timers up, and
which registers it goes on to write: six of them, with both kinds of channel,
clearing by an early, a late or no register, PWM and toggled outputs.

`IdealTimers` keeps what the code does on purpose or cannot show: a register
compared after the one that clears the counter is compared with 0 (so a match of
B with A's value is not seen when A clears), and a changed clock starts with the
cycle that was left over.

Two variables are history, for `InterruptsInTime` alone: `late` counts the cycles for
which a channel has owed an interrupt that a clocked one would have requested, and
`from`, in a channel, is the counter's value when the next look was predicted. The
code computes the time of that look as if the counter were 0, so the look may come
`from` clocks after the match, and it must not come any later than that.

Left out: external clocks and input capture, module stop, changing the clock of
the 8-bit timer (its `frac` is then stale), the ADC, ports without a timer.

### FileHost, Sercon, Usbcon, TransferSystem

Five ways to get a file into a device: `sercon -s`, `sercon -b`, `BootSerial`
with a boot file, `usbcon -s`, `usbcon -b` (`serconSend`, `serconBoot`,
`BootSerial`, `usbconSend`, `usbconBoot`). The program's `pc` is the call it is
in; a read and what follows it up to the next is one action. A file is a
sequence of different numbers, so a chunk that is misplaced shows. On the serial
line `up` holds the byte 2, which answers a command, and lines: a byte that comes
late is found in front of a line, and a line whose first byte was taken for the
answer is not recognised.

The device is external, and modelled as the programs' comments and parsers
suppose it: a console or a loader that announces itself, asks for chunks by
number, asks again for one that was spoiled, and says when it is done. Faults,
up to a bound: a spoiled chunk or line, a chunk asked for again too early (over USB
one of `AskedTwice`), a timeout of a second before the answer, unrelated lines, the
device switched off, and on USB an item sent twice.

Left out: the interactive consoles, the list of devices, errors of libusb.

### BmcCodes, Compression

A file is encoded in one go and decoded in one go, item by item, with the
declared length off by one in either direction as well. The constants of the
codes (offsets in a byte, longest copy, items per byte of flags) are parameters, so
that small files reach their limits; the codes of BMC have their full size, and
every length and every offset is written and read by itself (`WriteCopy`).
With such small offsets no copy takes more than nine bits for each of its bytes, so that
the end of the buffer is not reached (see `imgtool.c:211` below).
`Room` is the output buffer of `imgtool`, whose end BMC's writer respects.

### ReedSolomon, RfNetwork

The emulator does not send the bytes of the error correction: it sends header
and data, and the receiver computes the rest. `ReedSolomon` takes `eccInit`,
`genPoly` and `eccCalc` iteration by iteration, with 256 field elements, both
polynomials and packets of both sizes. `EccIsCodeWord` says what it is all for
without the code's tables: 2^1 to 2^n are roots of header, data and correction.
`RfNetwork` has what happens to packets: answered at once, sent to all, echoed to
the sender, who drops what has the header of the packet it sent last. The two
share nothing but the constants, so behaviours either compute or communicate. A header
names the emulator, as its CyID does in the code: two emulators of one model have the
same one unless they are given others (`Main.cpp:421`), and then need not hear each
other.

`lastHead` is not initialised; no packet has the header it holds. A packet of
one's own that comes back after another has been sent is delivered as a foreign
one, as the comment at `RFSerial.cpp:202` admits ("or at least, the last sent one").
Left out: the channel command and bytes that begin no message.

## Runs

| Run | Question | Bounds |
|---|---|---|
| `usb_fifo` | Is the ring the queue, level and answers included? | 3 slots, 2 byte values: every position of both offsets and the overrun of a full ring |
| `usb_control` | Does enumeration end and does every request get its answer, over one FIFO? | 2-byte setup packets and FIFO, descriptors of 5, 3 and 6 bytes, so that answers take several packets, end inside one and fill one; 2 sequence numbers, requests for up to 4 bytes and answers of every length up to that |
| `usb_bulk` | Do answers, bytes and interrupts stay consistent whatever the firmware does? | one pipe with 2-byte FIFOs, 3 numbered bytes, requests of 1 and 2 bytes, 2 sequence numbers: partial fills, overruns, reuse |
| `usbip_server` | Is the list sound while it is walked, is every watched client read? | 3 sockets, so that first, middle and last can go in one walk; one command under way each |
| `cpu_serial` | Does a message get through, both ways, polled or moved, whatever interrupts come in? | 3 bytes, so that a byte is going out, one waits and one is yet to come; characters of 6 cycles and turns of 1 or 2, so that a character may end in any phase of the loop; one external interrupt at any time; time stops counting at 12 cycles without an update, two characters |
| `flash` | Does each answer belong to its command, and does only the page programmed change? | two chips, two pages of 2 bytes, 3 bytes of data: the offset inside a page, the buffer's wrap-around and a page programmed with part of an earlier one; a data byte that is an opcode |
| `sd` | Do block transfers read and write the right blocks, and do they end? | blocks of 2 bytes, a file of 3, multiple transfers of up to 2 and stops after each byte; data that look like a command, a start token and a stop token |
| `timers` | Is a timer that is only looked at now and then the one that is clocked, and is what it owes delivered in time? | 16-bit counters modulo 6, the 8-bit one modulo 4, so that they go round within a slice or two; slices of 5 cycles, instructions of 1, 2 or 4, shorter and longer than a clock of the 8-bit timer (3) and than the distance of two matches; 2 register writes, at any time, after the set-up; times further back than 8 cycles are not told apart (more than a slice, and a shorter time can only make the sound go back); the 8-bit timer at most 5 counts behind |
| `transfer` | Does each program get the file across, and is what it reports true? | chunks of 2 bytes and files of 1, 4, 5 and 6: less than a chunk, a whole number of them, one more; chunk numbers modulo 4 in place of 256, and the number after the largest file's last chunk is the last of them; 3 faults, and over USB only the first chunk asked for twice (`AskedTwice`): files of 7 bytes, or a 1 in `AskedTwice`, violate `FileIntact` as described below; boot chunks of 16 bytes, so that header and file take one or two |
| `codec` | Is what was encoded decoded, and a wrong length noticed? | every file of up to 8 bytes over two letters, and periodic ones up to 20, with 3 flags to a byte, lengths up to 4 (LZSS) and 3 (BMC) and offsets up to 7 and 3: each limit is reached; all 255 lengths and 8192 offsets of BMC |
| `rf` | Are packets put back as words of the code, and does everybody hear everybody else? | the code at full size, two packets; two emulators that send two packets each, one possibly again, with one datagram lost, one socket missing |
| `usbip_sockset` | Does the code do what its comment says? No: see below | as `usbip_server` |

`usb_control` does not check deadlock: when the server cannot be created and
enumeration is over, nothing is left to happen.

Fairness: `WF(Firmware)` in `UsbControlSystem`, because every turn of the main
loop runs the processor and the firmware never waits for anything but an
interrupt; `WF(Update)` in `UsbipServer`, because every turn calls it. Hosts and
peers owe nothing. `CpuSerialSystem` states that the loop of `executeCycles()` goes
on for ever (`[]<><<Loop>>_vars`): one of its steps is always possible, so this
is weak fairness, and the main loop keeps calling it. Its device owes nothing:
`Completes` asks for a message only once the device has all of its own. In `SdBus`
the firmware goes on with what it began (`WF(Firmware)`): it clocks the bytes itself.
`TimerSystem` says only that the processor goes on executing
(`[]<><<Next>>_vars`); `Timer8CatchesUp` excepts runs in which it goes on for ever
executing instructions that take as long as the 8-bit timer's clock. They need no
transfer: a word fetched from 8-bit external memory with wait states takes up to
twelve cycles (`H8CPU.cpp:4033`), the timer's fastest clock is eight, and it counts
once for each instruction (1936), so a program in slow memory leaves it behind for
good. In `TransferSystem` a program that waits goes on when there is
something to read (`WF(HostStep)`) or its time is up (`WF(Timeout)`), and the device
goes on asking; faults owe nothing. `TransferEnds` wants success of every transfer
without a fault whose device is not switched off, with the one exception of
`sercon -b` below. In `RfNetwork` the main loop calls each chip and the
firmware reads what there is (`WF(Step(e))`); that a datagram arrives is in
`NetworkUpdate`, part of that step, unless it is lost.

`cpu_serial` shows two limits of the code, both among the hazards. A turn longer
than half a character loses bytes of a synchronous DMA transfer, because
sub-channel A is served, and starts the next byte, before B has fetched the last
(`InstrCycles = {1, 3}` with `CharCycles = 4` fails). And a port without interrupt
enables moves only when it is accessed, so the firmware waits for TDRE at the
end, as `sciWrite` does; without that wait the last byte stays in TDR.

### Where the code differs from what it says

- `usbip_sockset` (a run): "rebuilt sosket set if someone disconnected" (`usbip.c:703`)
  puts none of the remaining clients back: listing the devices (connect, ask,
  hang up) silences a host that is attached. `CommandsReceived` is stated for
  watched clients for this reason.

The rest was found while modelling, and the models keep away from it:

- `usbipOut()`: "shortcut, it fits in the fifo" (`USBDevice.cpp:587`), but
  only the length is compared with 64, not the room left. A second OUT request
  before the firmware read the first is acknowledged and destroys the first.
- "switch over to usbip now that we have the descriptors"
  (848), but after a second SRST the device stays in the list while it is being
  enumerated again, with a server that accepts hosts.
- "there's only one fifo, so having tx and rx events set is going
  to confuse things" (647) is only respected by the enumeration. A host that
  gives up a request and sends the next while the firmware is about to write the
  first answer gets its own setup packet as data. `usb_control`'s `FifoNotMixed`
  holds because its host waits for its answers.
- "DMAC/DTC can be activated by interrupts, so do these
  right before serviceInterrupt" (`H8CPU.cpp:117`), and the port delays its
  interrupts because "we might be being called from DMA" (2201). But when
  sub-channel B of an asynchronous port reads RDR the port is updated, and raises
  the TXI that A waits for after A's turn: the processor takes it (the program
  `dmaAsync`, defined in `CpuSerialSystem`). With two requests for
  the DTC pending the lower number stops the DTC (2334) and goes to the processor,
  which is set up for neither (`dtcBoth`). `MCCpuSerial`'s `Programs` has neither;
  with either of them `TransfersFirst` fails, and with `dtcBoth` `SentInOrder` too:
  the handler meant for the last byte clears TDRE once more than there are bytes.
- The port is written "sync TPUs that might write the port first"
  (`H8CPU.cpp:4432`), but writing PxDR tells the speaker the present time while
  an enabled channel is brought up to date only to its last count: a stop of the
  channel (TSTR), which restores the output, then tells it an earlier time, and
  the difference, unsigned, is played as some eleven million samples. In
  `timers`, "DR" among the registers of the set-up "tone" with a divisor of 4
  violates `SoundGoesForward`.
- A match of a register with the value of the one that clears the counter is
  lost if it is compared later (`H8CPU.cpp:1707-1803`); `update()` takes the
  halves of TIOR of channels 0 and 3 in the wrong order; an external clock
  counted on both edges shifts by a negative number (1512-1549).
- `fseek(f, SEEK_SET, offset)` (`usbcon.c:454`) has its arguments swapped: it fails
  for every offset but 0. Chunks asked for in order are right; one asked for
  again is not, unless it is the first. And `sendFile` ignores the result of
  `readCyOSPacket`, so an invalid packet has it handle the previous one again.
  Chunk numbers are a byte, and the request after the last chunk needs one too: a
  file of more than 255 chunks (127.5 KiB) is begun again.
- "if the OS is running, attempt to reboot" (`sercon.c:409`): `checkOSConsole` takes
  any byte for an answer that the OS is not running. That of a device that has just
  been switched on is the first byte of "Preparing to load CyOS"; `bootDevice` then
  does not recognise the line, and gives up after ten seconds. `TransferEnds` states
  this exception, `FirstByteLost`, for devices that were `on` from the start; that of a
  device the program has rebooted is not missed.
- `sendCyOSCommand` (`sercon.c:102`) ignores that nothing was read and looks at what
  `buf` holds, and its own result is ignored, like that of `waitOSConsoleReady`:
  a prompt that comes after more than ten seconds is taken for the end of the
  transfer. The models have the console print it in time.
- "worst case output buffer" (`imgtool.c:211`): nine bits a byte, but a copy of two
  bytes from 4096 back takes nineteen. `CopiesSound` states the exception.

## Proofs

Every theorem below holds for every value of the constants that its assumptions
allow, and TLC checks the same property on the instance of a run. Each inductive
invariant was an invariant of a TLC run before it was proved.

| Theorem | States | In |
|---|---|---|
| `TypeCorrect`, `AnswersCorrect` | the ring's offsets stay in it; its answers are the queue's | `UsbFifoProofs` |
| `RingImplementsQueue` | `FIFO<size>` implements `BoundedQueue` | `UsbFifoProofs` |
| `NoSpuriousAnswerAlways`, `NoLostUrbAlways` | data pipes: each request the host waits for is known, no other is answered | `UsbDeviceProofs` |
| `DataKeepsItsOrder`, `OnePipeKeepsOrder` | IN data reaches the host in the order the firmware wrote it | `UsbDeviceProofs` |
| `EventsAreSignalled` | no step leaves an enabled event without its interrupt | `UsbDeviceProofs` |
| `FifoIsNeverMixed`, `LengthsAreRespected` | endpoint 0: what goes through its FIFO is taken for what it is, and all of it | `UsbControlProofs` |
| `ListStaysSound`, `EveryoneDueIsServed`, `WatchesOpenSockets` | the client list through every removal, the walk, the select set | `UsbipServerProofs` |
| `FlashTypeCorrect`, `AnswersAreRight`, `ProgramsOnePage` | the flash chips' parser, answers and memories, for complete commands | `FlashBusProofs` |
| `CommandsStayInTheirBuffer` | a chip's command bytes and offset in a page stay in range, also when commands are broken off anywhere | `FlashBusProofs` |
| `ChipsArePageStores` | `FlashBus` implements `PageStore` | `FlashBusProofs` |
| `PredictedInTime` | the serial port's events are predicted in time, whoever accesses it | `CpuSerialProofs` |
| `MessageInOrder` | a message is sent in order, each byte once, polled or moved by DMAC or DTC | `CpuSerialProofs` |
| `RepliesOfThis` | what answers a command of the SD card is its own answer | `SdBusProofs` |
| `ReadsAreOfTheFile` | what is read is the file's, at its place, also of a read that is stopped | `SdBusProofs` |
| `WritesAreWhole` | a write changes only its own blocks, to what was sent, and all of them | `SdBusProofs` |
| `BeginningOfTheFile`, `WhatIsSaidIsSent` | what a device has of a file is its beginning; success is true (for files whose chunks can be numbered) | `TransferProofs` |

### What is assumed

- `SizeAssumption`: a ring has at least one slot.
- `UsbAssumption`, `BulkAssumption`, `ControlAssumption`: sizes and lengths of
  descriptors and packets are positive, endpoint and sequence numbers are not 0.
  The length of the configuration is at bytes `LenStart` to `LenEnd`, inside a packet
  and inside the header: `wTotalLength` is bytes 2 and 3 of a header of 9 bytes,
  which the code asks for alone first.
- `ServerAssumption`: finitely many sockets, numbered above the server's own.
- `FlashAssumption`, `BusAssumption`: a page has 1 to 512 bytes, since a command has
  nine bits for the offset in one (`SerialFlash.cpp:65` and `76`), and the chips on a
  port are different ones, as `Main.cpp:529` to `532` make them.
- `SciAssumption`, `CpuAssumption`: a character takes at least one cycle and an
  instruction too, a message has at least one byte, and the addresses of TDR and RDR
  are two numbers outside the RAM the transfers use.
- Some theorems have a hypothesis besides, without which they are false (see above).
  `MessageInOrder`: `"dtcBoth"` is not among the programs; `dmaAsync` is included.
  `BeginningOfTheFile` and `WhatIsSaidIsSent`: `usbcon -s` is asked twice for the first
  chunk at most, and its files have fewer chunks than there are numbers.
  `DataKeepsItsOrder`: `OwnPipe` (see below).
- `CardAssumption`, `SdAssumption`: a block has at least one byte, the register's and
  the blocks' bytes are bytes, and the file with one block more fits an `int`:
  a multiple read has its next block queued at the end of the file.
- `ChunkAssumption`, `WrapAssumption`, `TransferAssumption`: chunks are not empty,
  the number in a packet wraps somewhere, the programs are the five of the model, and
  a file has at most 65536 chunks, as their numbers on the serial line are two bytes (`sercon.c:197`).

What the models assume of firmware, hosts and devices (previous sections) is part of
the specifications the theorems are about.

### Arguments

`UsbFifoProofs`: the type invariant is inductive by itself; the refinement maps
the slots from `readOff` on to the sequence `Contents`, and each step is a lemma about
it (`ResetStep`, `PopStep`, `PushStep`), resting on the arithmetic of the offsets
modulo the size. The full flag matters most: with equal offsets it alone
tells full from empty, and after a push onto a full ring it is set while the offsets differ.

`UsbDeviceProofs`: `IInv` adds `Matched` to the two properties about requests: the
number held in `usbipInSeqnum` and the host's waiting request determine each
other through the endpoint number, which is why one search in `usbipUnlink()`
is enough and why `WriteEPC` cannot lose a request. Its proof has one lemma per
kind of step: a request is submitted, grows, is answered later or at once, is
given up, or is not touched. For the order, `Ordered` follows the bytes of an
endpoint from those last given to the host, through what is collected for its
request, to what is in the FIFO: together they ascend and none is above `sent`. It
needs a hypothesis, `OwnPipe(owner)`: each endpoint number is only ever given to the
pipe that owns it. Two FIFOs with the same number do mix, and EPC registers can
be written so; with one pipe, which is what `usb_bulk` checks, the hypothesis holds
by itself.

`UsbControlProofs`: `FifoNotMixed` speaks of the moments bytes are read, and
says nothing in between. `OnePhase` does: endpoint 0 is always `Silent`, or a setup
packet is in the FIFO (`Posted`), or the firmware is `Reading` it, `Deciding`,
`Filling` the FIFO, or has `Sent` a packet, and in each phase the FIFO holds
bytes of one kind, in a number that is known. `Owed(k)` says that the bytes still to
be collected are k: of a descriptor exactly what is missing, of a host's answer no more
than it asked for, with an empty packet to come if it is `short`. Two facts carry
the proof. While the device is enumerated no transmission event is pending
when a setup packet is: `CanSend`, the guard of `updateEnumeration()`, waits for that, and
it is what keeps the firmware from answering twice. And the length of the
configuration is known as soon as a byte after the header may be asked for.

`UsbipServerProofs`: the list is said to be sound by a walk over `nxt`, which is no
fact to reason from. `Linked` has the sequence of clients instead, without
repetition, with every link and the head given by it, and the place p in it that
`usbip_server_update()` has come to (`WalkedTo`): `prev` is the client before, `client` the one
at it, and those due are the ones served and the ready ones from there
on. Inserting at the head and removing at p are lemmas about such
sequences. `Watched` says that the set may hold a closed socket only until the
walk is over and `rebuild` is acted upon.

`FlashBusProofs`: `Told` says what the selected chip holds of a command that is not yet
complete, `Operating` what it does once it is, and `Resting` that every other chip has
neither a command nor an operation, which is why a byte on the shared bus changes one
chip. That a page's address is split over three bytes and put together again
is `CommandBytes`, for pages of any size up to 512. For the refinement, each byte maps to one
byte into the buffer, each deselection to a page becoming the buffer, or to a stutter;
`StartsApart` says that pages do not overlap. All this is about complete commands.
`CommandsStayInTheirBuffer` is about a chip by itself, given any sequence of writes,
reads and changes of its select line: `Parsing` says that fewer bytes than the opcode
asks for are kept, and none without an opcode, and that both offsets are in a page.

`TransferProofs`: `Begun` says that what the device has is the pieces before the one
it wants. Whether the next piece is right depends on the program, and so does
the rest of the invariant. On a serial line (`Carried`) every chunk on its way has the
data of its number, and the device takes only the one it wants. `usbcon -b` has at most
one message on its way, and that is the piece wanted. For `usbcon -s`, whose
program reads the file on from where it is whatever was asked for, `Reading`
says that until the wanted chunk is sent the file stands where it begins, as only the
first chunk is ever asked for again, and `Numbered` that no chunk is ahead of the
device and one with the wanted number has the wanted data. The device knows a chunk
by a number modulo `IndexWrap`, so `dev.want < IndexWrap` is part of the invariant: it
follows from `Within`, the theorems' hypotheses, as `CountedOn` says. That success is true is about
the order of the messages: `NoneAfter` says of two kinds of them that none of the one
follows one of the other. `sercon -s` takes the console's prompt for the end: `PromptedOnce`
says that only one prompt is under way before the file is sent, so that the one
read before is gone by the time the file's is printed. `sercon -b` takes a
line of a device that has left the console.

`CpuSerialProofs`: `Timely` says of any machine, between the parts of any operation,
that `next` is no later than the end of a character on its way and is 0 when an
interrupt was put off; `calcNextUpdate()` establishes it, and time only passes
when it has been acted upon. Its lemmas follow the operators: one for each part of `update()`,
each register, `transfer()` and `updateDTC()`. The loop of `update()`, that of a block
and the chain of descriptors are recursive functions, and `TurnsAre`, `UnitTurnsAre` go
through them by the least counterexample. The chain needs `Chainable`, the shape that
the firmware's descriptors keep. Nothing is assumed of `Programs`, `CharCycles` or
`InstrCycles`: the two programs and the short characters for which other properties
fail are included.

For the order of what is sent, `Given(w, m)` says that the port has been given the first m
bytes: all of them have been sent, or the last is in TDR, which TDRE tells apart.
`update()` may send that byte and leaves m as it is; only clearing TDRE, with the next
byte in TDR (`Loaded`), makes it m + 1. Whoever clears it must know m. For a program
that polls it is where the program is and its count (`PolledTo`); the load and the
store that clear a flag must both find TDRE set, also across an interrupt, and in
`transfer` clearing RDRF must not clear it: a full RDR says that the byte sent for it
has gone. For the DMAC it is what its channel has counted down (`Outgoing`), and for the
DTC its descriptor (`Feeds`), with `AskedOnce`: a request for the next byte is only pending
while TDR is empty, and one at a time, so that no unit is moved onto a byte that waits.
When the DTC has moved the last byte, `EndHandled` follows the handler of its interrupt,
which must disable the interrupt before it clears the flag. Programs that only
receive never let the port transmit (`Silent`), and a silent port sends `Junk`.

`SdBusProofs`: the three properties say little of the moments in between. `IInv` says
where everything is: either the firmware does nothing and the card is `Free`, its queue
and command empty and no transfer open, or it is `Working`, and then every byte of the
operation so far has had its effect. While a command is being sent (`Sent`) the card
holds the bytes sent and nothing else, so the sixth executes that command, with its
argument put together again from four bytes (`SplitInFour`). For a read, `Upcoming`, the
queue and behind it the block that the next byte written would queue, is the rest of the
block being collected and its CRC, and `AddressThen` is the address of the block after
it: it does not matter when `sendBlock()` is called, nor where the firmware stops, since
stopping empties the queue (`Stopped`). For a write, `WrittenTo` says which blocks of
the file are what was sent, `writeBuf` holds the bytes of the present one, and the
offset counts them. `StoredBlock` says that blocks do not overlap: committing one leaves
every other as it is. Each operation has a lemma for sending and one for receiving;
`Outcome` is the step of `WritesTheBlocks`, so that those lemmas can state it.

Induction: the provers cannot instantiate the library's induction theorems,
whose parameter is an operator. `LeastNumber`, which each module that needs it states, says
that a set of numbers has a least member, and is proved from the well-foundedness of <
alone; applied to the set of a formula's counterexamples it is induction.
So the function `SetupPushed`, defined by recursion, is shown to have its
closed form (`PacketPushed`), and least and greatest members of finite
sets can be reasoned about. Data with more structure than numbers stays out of reach.

### Only model-checked

All liveness, as temporal proofs under fairness are out of the prover's reach. In
`cpu_serial`, `ReceivedInOrder` and `TransfersFirst`, which hold because instructions
are short against characters: no theorem about every `InstrCycles` can state them. Of
`sd`, that operations end. The properties of `timers` (with the implementation of
`IdealTimers`), `codec` and `rf`. That decoding undoes encoding for every file is an
induction over the recursive structure of the data; that the radio's words are words of
the code is algebra over a field given by tables.

## Plan

Done: the USB device, the server's connections, the serial ports with DMAC,
DTC and interrupts, serial flash and SD card, timers, file transfers,
compression and the radio; the theorems above. What is left, in this order:

1. The flag arithmetic of the CPU against width-extended integers.
2. `UsbipServer` extended by the client an answer is sent to.
3. `DS2401` and `PCF8593`, bit by bit.

## Not modelled

Instruction decoding (a table, tested instruction by instruction on hardware in
`test/instructions`); keyboard, display and memories (array accesses); windows,
options, file handling and the printing of tools; the DS2401 and PCF8593, which are
small slaves with no hazard but their bit counters; the ADC; build scripts.
Where part of a component is modelled, its section says what is left out.
