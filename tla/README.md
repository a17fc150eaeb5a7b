# Specifications of the SoC-FPGA IoT system

TLA+ models of this repository's own logic: the C programs that run on the ARM
side of the Cyclone V, and the cores in the FPGA they talk to through
memory-mapped registers. TLC checks the models on small instances; the theorems
are proved with TLAPS for every value of the constants.

## 1. Inventory

### The parts and how they interact

`src/main.c` is the product. Its main loop, once a second, reads a humidity and
temperature sensor through the Avalon I2C master core, stores the reading with
the state of two lamps in `data.bin`, and starts a thread. The thread waits for a
character on the Avalon UART and switches a lamp through the LED register.
There are no interrupts and no locks: the program and its threads share device
registers, and every core runs at its own pace.

The other half of the repository is a set of cores with a test program each:
an SSP UART with FIFOs, an I2C master and slave, an SPI master, and the SHA-256,
RSA and AES accelerators.

| component | state | operations | what makes it correct |
|---|---|---|---|
| program: lamps (`main.c` 121-203) | the locals of each thread; the LED register | test RRDY, read the character, read the LED register once or twice, write it | a command switches its lamp and nothing else; no command out of nothing; commands end |
| Avalon UART, receive (`soc_system_uart_0.v`) | `rx_data`, RRDY, ROE | a character arrives, rxdata is read, status is written | RRDY means an unread character |
| program: sensor (`main.c` 341-467) | position in the command sequence, the six bytes | enable, wait for TX_READY, queue a command, read RX_DATA | the six values are the six bytes of this reading |
| Avalon I2C core (`altera_avalon_i2c*.v`) | CTRL, ISR, command FIFO, receive FIFO, master state machine | register accesses; start, address, byte out, byte in, stop | commands are executed in order and in their place, no byte is lost |
| SSP UART FIFO (`DPSFnmCE.v`) | RAM, two addresses, count, two flags | write, read, both, reset | it is a queue |
| SSP UART, transmit (`SSP_UART.v`, `UART_TXSM.v`) | UCR, TDR's hold bit, FIFO, TSR, state machine | write TDR, clear, write UCR, shift a bit | accepted words are sent once, in order, in the configured frame |
| SSP UART, receive, timeout (`UART_RXSM.v`, `UART_RTO.v`, `UART_INT.v`) | receive state machine, RSR, FIFO, RDR, timeout and its flag | sample a bit, give up a frame, read RDR, time out | a frame is one word, a break is one word, a read takes one word, a flag can be cleared |
| program: terminal (`src/Soft/main.c` 540-571) | how many characters it has read | poll USR, read RDR, sleep, clear | characters that are there are read |
| OpenCores I2C master (`i2c_master_*.v`) | CTR, CR, TXR, RXR, SR, byte controller, BUSY | command; start, byte out, byte in, stop, lose arbitration | one command at a time, the bus released |
| I2C slave (`serialInterface.v`, `registerInterface.v`) | stream state, address pointer, 256 registers | address match, pointer, register read and write | a register holds what was last written to it |
| program: I2C driver (`src/I2C_Opencore_software`) | position in the list of commands of a call | wait, order a stop, command, begin again | a call returns, and has been done once |
| SHA-256 engine (`SHA_256*.v`, `Scheduler.v`, `Compressor.v`) | control, three state machines on the bus clock, three on the core's clock, FIFO | fetch a word, assemble and hand over a block, round, write the digest | the digest written is the digest of the message |
| program: SHA-256 (`SHA_256.h`, `src/Soft/main.c`) | the padded message, the registers | pad, start, poll | the blocks are the ones SHA-256 asks for, the digest read is this message's |
| SPI master and driver | CTRL, shift register, clock generator | GO, shift, done | (not modelled) |
| RSA, AES accelerators | operand and key memories, controllers | load, start, read | (not modelled) |
| debouncer, edge detector | counters | sample | (not modelled) |

### What is hard here

* **Interleaving.** Threads of different rounds update the LED register by
  reading, deciding and writing. The test of RRDY and the read of the character
  are two accesses. Bus writes to the SSP UART fall anywhere in a frame.
* **Stale state.** A thread spins on a local copy of RRDY. The sensor program
  reads RX_DATA without knowing that a byte is there. BUSY is read before the start
  condition is ordered; a word leaves the receive FIFO long after it was read.
* **Two clocks.** Blocks cross from the bus clock to the clock of the SHA-256 core
  without a handshake; the core does not wait for a memory that is late.
* **Ordering by position.** The I2C core decides by position what a command is;
  the program restarts the core in the middle of transfers.
* **Partial failure.** A refused I2C byte aborts the transfer and holds both FIFOs
  in reset until a register is written that the program never writes. The other
  I2C driver repeats a whole transfer after any failure, with half of it done.
* **Bounds and wraps.** FIFOs at their limits, pointers that wrap, threads that
  are created and never given back.
* **Waiting.** Loops without a time limit in the program; a transmitter that waits
  for software while software's writes are ignored.

`PROJECT.json` lists each hazard at its line, with the properties that would
catch it or the reason why there is none yet.

## 2. Modules

    BoundedQueue          abstract: a FIFO queue of bounded length
      ^ implemented by
    DPSFnmCE              the clocked FIFO         DPSFnmCE_proofs
      ^ used as the queue it is proved to be
    SspUartTx             bus, UCR, transmit        SspUartTx_proofs
    SspUartRx             receive state machine, bus, polling program
                                                    SspUartRx_proofs
      ^ both extend
    SspUartFormat         decoding of the format bits

    AvalonUartRx          receive registers of uart_0
      ^ extended by
    LedControl            threads and LED register  LedControl_proofs

    AvalonI2c             core i2c_0
      ^ extended by
    SensorI2c             the program's rounds      SensorI2c_proofs

    RegisterDevice        abstract: registers and a pointer, calls done once
      ^ implemented by
    OcI2cDriver           the four calls            OcI2cDriver_proofs
      ^ extends
    OcI2cMaster           the core, and another master
      ^ extends
    I2cSlave              the slave's registers

    ShaCore               scheduler and compressor, on the core's clock
      ^ extended by
    ShaController         read master, FIFO, assembler, write master
      ^ extended by
    ShaDigest             the program's use of the engine
                                                    ShaDigest_proofs

    Sha256Padding         the blocks the program gives to the engine
                                                    Sha256Padding_proofs

### DPSFnmCE: the FIFO of the SSP UART

One step is one rising edge of `Clk`. Each register has a next-value operator
that is the body of its `always` block (`NextA`, `NextDPRA`, `NextWCnt`,
`NextnEF`, `NextrFF`, `NextRAM`), each output a definition (`EF`, `FF`, `HF`,
`Cnt`, `DO`). `Clock` is an edge with `Rst` low, `Reset` one with `Rst` high;
`SSP_UART.v` uses the reset for its clear bits, so it can come at any time. The
inputs are free. The depth is any even number; powers of two are a special case.

`BoundedQueue` says what the users of the FIFO rely on. `ImplementsQueue` is the
refinement: under the mapping `Content` (the words from the read address on, as
many as the count says) every edge is a put, a get, both, a clear, or nothing.

### AvalonUartRx and LedControl: the lamps

`AvalonUartRx` has the three receive registers and `UartClock`, one clock edge
with or without a read of rxdata, a write of status and an arriving character.
`LedControl` has `main` (reset the error bits, create a thread, or fail to) and
one process per thread, one step per bus access: `CheckRx` (126), `ReadRx` (133),
`FirstTest`, `SecondTest`, `WriteLed` (136-200). The four cases of the switch
differ only in the values compared and written, and are the rows of `Table`. A
character can arrive between any two steps and in the same clock as a read. The
Makefile builds without optimisation, so the accesses of the source are the
accesses on the bus, in source order, and the waiting loop is executed.

`Workers` is the number of threads the process can create before the system
refuses; finished threads are not joined or detached and do not come back.

Histories: `calm[w]` (nobody else changed the register since w's first read),
`taken` (who has been given the character in rx_data), `received`.

### AvalonI2c and SensorI2c: the sensor

`AvalonI2c` has CTRL.EN, NACK_DET, the two FIFOs and the master state machine,
one step per command: the device acknowledges or refuses, as it likes and when
it likes. A byte in the receive FIFO is represented by the command that read it;
the properties need to know which byte of the reading it is, not its value.
The bus has one master, so arbitration is never lost; START, RESTART and the
held clock while a byte waits for the next command are part of the steps
`GenStart`, `PopNext` and `ReceiveByte`.

`SensorI2c` is the loop of `main`: `Disable`, `Enable`, then for each of the ten
commands `Poll` and `Push`, and for the six data reads `Read` right after. The
status and interrupt registers printed in between have no effect. `owed` counts
the reads of RX_DATA that found nothing since the last refusal.

### SspUartTx: the transmit side of the SSP UART

One step is a bus cycle, a change of CTS, or one enable of the state machine,
which is a bit time outside Idle. `WriteTDR` and `ClearTHR` stand for everything
between the write and the FIFO (WE_TDR, TDR, HLD, the pulses of re1ce, TxHold);
bus accesses are assumed to be further apart than the synchroniser, which is the
one timing assumption of the module. `IdleBus` is what the wrapper does between
accesses: it selects register 0 without a write, and `UCR <= USR`. The state
machine is `Wake`, `BetweenFrames` and `ShiftBit`; `frame` records the symbols on
the line and is compared with `Frame`, the frame the format stands for, written
down independently of the states.

Words are numbered modulo `Ids` as they are accepted, so `due` (the next to be
framed) and `written` (the next to be accepted) say which words must be where.
The numbers of words removed by a clear are used again.

### SspUartRx: the receive side of the SSP UART

The line changes once per bit: `NextBit` moves along a frame of eight data bits
without parity (what the UART's own transmitter and a terminal send), a rest or
a break; `Glitch` is noise that is gone half a bit later. `Tick` is the state
machine in its waiting states, where it looks at the line sixteen times per bit,
`Sample` in the others, half way through a bit. What the bits are matters to no
property, only whether they ended in their places: `whole`. The format comes from
UCR, and UCR is the status of the moment as long as the bus is idle (`FMT`), so a
character read or a word sent in the middle of a frame changes what the receiver
expects; a write of UCR lasts one bus cycle and is left out.

The program is the loop of `src/Soft/main.c` 540-571 (`src/SSP_UART_Software` has the
same): `Poll`, `ReadRDR`, `Sleep`, and `ClearRHR` at its end. A read of RDR takes its
word with `RE_RHR`, some clocks later. The timeout is not counted: `Timeout` may come
whenever it is armed. Of the four interrupt flags iRTO is modelled; the others are
cleared by the same `Clr_Int`, which is why it suffices for what is said of them.

### I2cSlave, OcI2cMaster, OcI2cDriver: a driver that retries

`I2cSlave` has the slave's stream state, pointer and registers; one step per start
condition, byte with its acknowledge bit, or stop condition. `OcI2cMaster` has the
core's registers and byte controller on the same steps, and another master that may
begin while the bus is free, or just when the core does (then one of the two loses
arbitration). BUSY follows the bus with a delay (`SeeBus`), TIP without.

In `OcI2cDriver` a transfer function is a list of commands (`oc_i2c_master_write`,
`_write_reg`, `_read`, `_read_reg`), and its control is the same for all: wait for TIP,
wait for the bus or order a stop condition, then for each command write CR, wait for
the flag, and begin again if the acknowledge bit or AL is wrong. One step is one
register access, and anything may happen between two.

`RegisterDevice` is what a program expects: calls take effect once and in order.
`DeviceBehaviour` is the refinement. While a call is in progress the abstract
registers are those from before the call (`before`), so its whole effect must be
there when it returns, whatever was repeated.

The environment is allowed `Faults` disturbances: another master's transfer, or
the slave disconnected while the bus is free and connected again later. The other
master addresses other devices. A slave pulled off in the middle of a transfer is not
modelled (it is in the same FPGA as the master), nor are the driver's two event counters.
Simplified, where no property depends on it: arbitration is lost in the address
byte, not to a stop condition of the other master during the core's own start; the
receive register keeps its value while bytes are written; TXR and CR are written in
one step, the core looking at TXR only when CR orders a write.

### ShaCore, ShaController, ShaDigest: two clocks

Here a step is an edge of one of the two clocks and every register is there. The
bus clock has the register file, the read master (`ReadMaster`), the FIFO, the
assembler of blocks (`Assembler`) and the write master; the core's clock has the block
controller, the `Scheduler` and the `Compressor`. The bus runs at 150 MHz and the core
at 80 MHz (`SHA_256.h` 24-25): one or two bus edges between two core edges
(`MaxRatio`). The memory accepts reads and writes and returns data when it likes.

A word is <<message, index>>, a round word <<block, round>>, and the hash is reduced to
whether every round used the round word it should have (`hashOK`); that is what the
controller can get wrong. `late` records that a block was started before it had
been delivered, `leftover` that a message was started with words of another one
still in the engine. The program hashes `Runs` messages in the same buffer.

The controller is not part of the current `soc_system.v` (its component is there,
and `src/Soft/main.c` is the program for a build that contains it).

### Sha256Padding

The four parts of `Padding`, on words that say which bytes of text they hold, whether
the 0x80 follows them, or that they are the length. `PaddingRight` compares the
result with what FIPS 180 asks for, `Padded` and `Blocks`, for every length. The set
of lengths it names is also what the compiled C function gives.

## 3. Runs

| run | states | what it shows |
|---|---|---|
| `fifo` | 320 | the flags and pointers of the FIFO are right in every state; it implements the queue |
| `led` | 58,548 | a command always leaves its own lamp as told (`OwnLampObeys`); an undisturbed one leaves the other alone too (`UndisturbedIsAtomic`); no thread acts on the reset value of rxdata; RRDY is never set for a character somebody has; a thread past the RRDY test finishes |
| `led_waiting` | violated | a waiting thread never wakes (finding 1) |
| `sensor` | 33,533 | see below |
| `sensor_read_done` | violated | a byte is announced before it is there (finding 2) |
| `ssp_tx` | 194,300 | frames are as configured, nothing accepted is lost, words go out in order and do go out |
| `ssp_hold` | violated | held and full is for ever (finding 3) |
| `ssp_cts` | violated | a frame starts without CTS (finding 4) |
| `ssp_rx` | 1,458,145 | see below (findings 5 and 6) |
| `oc_i2c` | 224,040 | see below |
| `sha` | 481,196 | see below (finding 7) |
| `padding` | 5,120 | which text lengths are padded as SHA-256 asks for (finding 8) |

What `sensor` says, taken together: the wait for TX_READY keeps every command
(`NoCommandDropped`) and refusals and restarts of the core never make it mistake
a command (`CommandsInPlace`). A read that comes too early does leave its byte
behind, exactly one per early read (`EveryMissLeavesAByte`), so from then on every
value is the byte `owed` places earlier (`ReadingShifted`); a reading is the six
bytes in order only as long as no read ever came early. The
shift is bounded, the receive FIFO never fills (`NoByteDropped`): a read command
is only queued when the previous ones fit the command FIFO. A refusal stops all
transfers for good (`RefusalIsForever`), and yet the rounds go on
(`RoundsComplete`): the program never notices.

What `ssp_rx` says: a frame whose start bit the receiver met is never given up,
whatever the idle bus makes of the format in between. It leaves one word, and if
the FIFO was empty when it began, the right one, unflagged (`FramesDelivered`): an
empty FIFO is the format 8N1. With characters pending the format is another one;
the word may be flagged, mutilated or late, and a frame that follows directly may
not be met at all. A break leaves one word (`BreakGivesOneWord`). The program takes
one word per read (`ReadTakesHead`). Two things are exact statements of what is
wrong: the timeout flag stays for ever (`TimeoutFlagStays`), and the program serves
every level of the FIFO but one (`PollingIsServed`).

What `oc_i2c` says: the driver writes no command into one in progress
(`CommandsOnlyToAnIdleCore`), returns with the bus released
(`BusReleasedBetweenCalls`), returns (`CallsReturn`), and is the abstract device
(`DeviceBehaviour`): a transfer is only repeated from an address that was not
acknowledged or lost in arbitration, never after the slave's pointer has moved. That
matters most for `read`, whose address byte moves the pointer as it is acknowledged:
what follows it cannot fail any more.

What `sha` says: every block crosses the clocks whole and in its turn
(`BlocksHandedOver`), the digest is reported (`CheckDoneReturns`), and it is right
exactly if no block was late (`DigestRightUnlessLate`). `BlocksHandedOver` speaks of
steps that change the block handed over; the same block used a second time would be
a wrong digest, and is excluded by `DigestRightUnlessLate`. With the real numbers, 64
rounds at 80 MHz are about 118 bus clocks for 16 words: a memory that takes more than
some seven clocks per word on average gives wrong digests. `SHA_256_Intit`
empties the FIFO (control[2]), but nothing recalls the reads in flight: words that are
delivered after the clear enter the next message (`leftover`).

### Bounds, and why they are enough

* `fifo`: depth 4 (`Half = 2`), two words. Empty, one, half full, one left and full
  are different states and the pointers wrap; the theorems cover every depth.
* `led`: two threads, so that each can overtake the other between any two accesses;
  a character for each command and one that is none. The theorems cover any number
  of threads and characters. No symmetry, because of the liveness property.
* `led_waiting`: two threads, two commands.
* `sensor`: FIFOs of 64, six bytes. The real FIFOs have 256; what matters is that the
  program can be rounds ahead of the bus before TX_READY stops it (a threshold of
  32, three rounds of ten commands) and that many rounds fit before the receive
  FIFO could fill (ten readings). The same properties hold at 256 (434,213 states,
  40 s); 64 keeps the runs short. `NoByteDropped` does depend on the depth: it holds
  from six places on, whatever the length of a reading (proved), and fails with four.
* `sensor_read_done`: depth 8, the shortest counterexample.
* `ssp_rx`: a receive FIFO of three words, half full at two: the smallest one with
  all four statuses. Two characters for the program to read, so that there is one
  before and one after a read. The line goes on for ever. The theorems cover
  every depth and every number of characters.
* `oc_i2c`: two registers (`MaxByte = 1`), so that the pointer wraps; two disturbances,
  so that a second one meets the retry of the first. Calls go on for ever.
* `sha`: two words a block for 16, eight rounds for 64, two digest words for 8, which
  keeps the ratio of the time a block takes to arrive to the time it lasts. Three
  blocks, so that there is one in the middle; two messages, so that one meets what
  another has left. The FIFO is longer than a message, as it is in the program
  (240 words in 256). The theorems cover all sizes, the real ones among them.
* `padding`: every length the buffers of the callers can hold; the theorem has no
  bound.
* `ssp_tx`, `ssp_hold`, `ssp_cts`: FIFO of 2, modes 0 and 1 (2 and 3 differ from 0
  only in pins outside the model), formats 8N1 and 7E2 written by software, and
  all sixteen through the idle bus. `Ids = 5` numbers tell apart the words in the
  FIFO (2), the one in TSR and the next one.

Deadlock is checked in every run but `padding`, which is a function and returns.

### Fairness

* `LedControl!FairSpec`: weak fairness of the main loop and of each thread. Linux
  schedules them all; nothing is assumed about the serial line.
* `SensorI2c!FairSpec`: weak fairness of the program and of the core. A command on
  the bus ends because the core clocks it; the device answers or its silence is
  a refusal. This excludes a device that stretches the clock for ever.
* `SspUartTx!FairSpec`: weak fairness of `Bit`, the baud rate generator.
  `ReleasingSpec` adds that software keeps offering words without the hold bit:
  the finding holds even then.

* `SspUartRx!FairSpec`: weak fairness of the pop pulse, which is a clock, and of the
  program. Nothing is assumed about the line or the timeout.
* `OcI2cDriver!FairSpec`: weak fairness of the driver, the core, BUSY and the end of
  another master's transfer; strong fairness of `Connect`, because the slave can only
  be connected while the bus is free and the retries make that come and go.
* `ShaDigest!FairSpec`: weak fairness of the program and of the core's clock; strong
  fairness of a bus clock on which the memory does not wait (`FreeBus`): it may delay
  any access, but not every one for ever.

## 4. Proofs

### DPSFnmCE_proofs

`IInv == TypeOK /\ FlagsExact /\ PointersAgree` is inductive. `PointersAgree` is not
inductive without `FlagsExact`: a full flag set with a count other than zero would
let a read move one pointer and not the count's meaning; and `FlagsExact` needs the
count to be in range, because the flags are decided from `Cnt` one edge ahead.
`ClockEffect` first says what an edge does to `Count` in
the four cases of (accepted write, accepted read); `ClockIInv` and `ResetIInv`
are then cases of arithmetic. The refinement (`FifoImplementsQueue`) compares
`Content` before and after an edge element by element: `PutStep`, `GetStep`,
`PutGetStep`, `IdleStep`, `ResetStep`. The only assumption is that half the depth
is a positive number.

### LedControl_proofs

The inductive invariant adds to the checked properties that RRDY is only set after
something was received, and what a thread knows at each point: between its tests
it has one of the four commands, a calm thread's failed test still fails
(`TestsHold`), the value it is about to write switches its own lamp (`OutObeys`) and,
if it is calm, is what its command makes of the lamps as they are.
`SwitchIsApply` and `SwitchObeys` are the two facts about `Table` it all rests on:
a row of the switch computes `Apply` if both tests see one value, and obeys for
its own lamp even if they see two. Then one lemma per action, and the action
properties follow from the invariant in the state before the step
(`CommitIsWrite`: only `WriteLed` commits). The assumptions are that characters
are bytes and that "no character" is none of them.

### OcI2cDriver_proofs

`IInv == TypeOK /\ CoreInv /\ CallInv`. `CoreInv` says when the core is idle, from what
the driver has seen of the interrupt flag. `CallInv` says how much of a call is done:
`Stage(s)` is the state of the slave when `s` of the call's commands are, and
`InProgress` is the one in between, per state of the byte controller. The checked
properties alone are not inductive, because nothing in them says that a transfer cannot
fail half way. The argument for that is `OnlyTheFirstFails`, `Owned` and
`MidwayOwns`: after the first byte the core owns the bus, so arbitration is over,
the slave cannot be disconnected, and it is in a state in which it acknowledges what it
is given. So a failure leaves the pointer and the registers `Untouched`
(`WriteByteIInv`, `LoseArbitrationIInv`), and the last command leaves the `Effect` of
the call (`AcknowledgedByte`, `ReadByteIInv`). The refinement (`DriverIsDevice`) is then
short: a call takes effect in the step with which it returns (`Returned`), and all
other steps are `Unseen`. The assumptions are that there is a register and that the
number of disturbances is a number; there is no bound on either.

### SspUartTx_proofs

`IInv` adds to `TypeOK` and `NothingLost` that a frame on the line is of the word before
the one due (`FramedIsDone`), and, per state of the transmitter, what the line has
carried so far (`SteadyFrame`): `FrameAsConfigured` only speaks of the last stop bit
and is not inductive. `Lengths` bounds the frame in frames whose format changed. The
words are numbers modulo `Ids`, so the arithmetic is in four lemmas (`Modulo`,
`NextOf`, `NextOfModulo`, `ShiftModulo`). `Loaded` and `NotLoaded` are the two ways a
frame begins: with the word due, or, after `StopBit1` with CTS withdrawn, with the
old one; `FramesAreInOrder` follows from them. `FrameElements` takes the reference
frame apart, symbol by symbol, for every format. The assumption is that of the
module: the FIFO has a place and `Ids` tells the words of FIFO, TSR and bus apart.

### SensorI2c_proofs

There are two invariants. `Control` is about commands: the command FIFO holds
consecutive commands of the rounds (`InOrder`), and each state of the core knows which
command it executes and which comes next (`Place`), so that a command whose restart
bit is clear is never the first of a transfer. A refusal leaves everything empty
(`Refused`), and stays. From it follow `NoCommandDropped`, `CommandsInPlace` and
`RefusalIsForever`, for every length of a reading and every depth.

`Counted` is about bytes. `Balanced` is `EveryMissLeavesAByte` with a bound on `owed`:
a read misses only if the bytes owed and its own are still commands or being received,
and there are at most `Half + 2` of those, because the program looks at TX_READY before
every command. `InTurn` gives the place of each byte, in the command FIFO, in the core
and in the receive FIFO: it is as many before the byte asked for next as there are
reads from it on (`ReadsFrom`). The lemmas before it count the reads of a sequence that
loses its head or gains a command, and bytes modulo the length of a reading
(`FollowingByte`). A byte that finds the receive FIFO full would break the balance;
`RoomForByte` excludes it if the FIFOs have six places (`Half >= 3`; there are 256 in
`soc_system.v`). The theorems about bytes state that as their hypothesis; without it
they are false.

### SspUartRx_proofs

The checked properties say what happens when a frame ends, a read is made or a pulse
comes; `IInv` adds what has to be true on the way. `InStep` is the heart: a receiver
that met a start bit with an empty FIFO is waiting for exactly the bit the line is
about to carry, `sampled` telling whether it has looked at the present one already
(`Place`). That needs the format to stay 8N1 (`EmptyIs8N1`), hence the FIFO to stay
empty for the length of the frame; no word can be written before the frame is over,
because there is one receiver. `BreakWaits` says that after the word of a break
the state machine waits for a mark, and with `LineLevel` that there is none until the
break is over. `ProgramWaits` keeps the pop pulse and the next read apart: the pulse
comes before the program leaves its pause. The assumption is the module's: a FIFO
that has room between half full and full, and at least one character to read.

### Sha256Padding_proofs

`IInv` says what each of the four parts finds: the text copied (`Copied`), the mark set
(`Marked`), then the zeros and the number of blocks of the branch taken (`Filled(n)`),
or, if no branch is for the length, nothing. `SomeBranch` and `BranchBlocks` compare
the chain of ranges in the code with the number of blocks SHA-256 asks for: they differ
for ten lengths, and above 951 there is no range. `PaddingIsRight` is therefore an
equivalence, for texts of any length: right for 0 to 887 and 898 to 951 bytes, and
wrong for every other.

### ShaDigest_proofs

`IInv == Typed /\ Phases /\ Hashed`.

* `Typed` adds to `TypeOK` that an address is on the bus only while a word is left, and
  that the assembler's signals follow from its state. It holds in every run, also in one
  that begins with another message's words in the engine.
* `Phases` follows the program through its three writes of the control register. The
  bus side is reset at the first bus edge after a write, the core only at its own next
  edge. If the engine is started before that edge (`Dirty`), the core is still reset in
  time: the two bus edges that fit between two core edges have gone by between the
  writes, so the next edge is the core's, and the bus side has not left reset. This is
  where `MaxRatio <= 2` is needed, and again in `Live`: the write master must not have
  begun to write while the core still takes a block.
* `Hashed` is about a message that began with an empty engine, `m` blocks of it handed
  over. `InOrder`: the words on the bus, in the FIFO and in `q` are consecutive words
  of the message. `Stream(m)`: the words shifted into `mem` since the last block are those
  of block `m`, and while a block is offered and taken `mem` does not move; the pulse
  that takes it has been seen by the assembler before the next word could be
  shifted (`tm.state < phase`). `Expanding(m)`: the Scheduler expands the blocks in
  turn, and as long as nothing was late the Compressor is one round behind it
  (`InTime`); from the first late block on, the hash is spoilt or about to be
  (`Spoilt`), because the first word it uses is the last one of the block before.

There is one lemma per register group for an edge (`ReadMasterStep` to
`CompressorStep`), then `Bus...`, `Core...` and `Program...` for each of the three parts.
`BlocksAreHandedOver` and `DigestIsRight` follow: the word count of a finished run
leaves nothing in the FIFO or on the bus (`StreamCounts`). The assumptions are those of
the module: sizes at least one (two for rounds and words), a message that fits the
FIFO, and at most two bus edges to one core edge, which 150 and 80 MHz give. For a
core slower than that nothing is claimed.

### Only model-checked

Every safety property the runs check is a theorem. What remains with TLC is liveness,
which is out of TLAPS's reach as used here: `CommandCompletes`, `RoundsComplete`,
`AcceptedIsSent`, `CallsReturn`, `PollingIsServed` and `CheckDoneReturns`; and the four
counterexamples, which are behaviours and not theorems.

## 5. Findings

1. `main.c:129`: a thread that finds RRDY clear loops on its own copy of the bit
   and never wakes (`led_waiting`).
2. `main.c:444`: "Read done" and RX_DATA before the byte has been received
   (`sensor_read_done`).
3. `SSP_UART.v:739`: "hold until Tx FIFO filled" never ends: filling the FIFO is what
   makes every releasing write ignored (`ssp_hold`).
4. `UART_TXSM.v:303`: after a frame, the next starts without CTS and repeats the
   previous word (`ssp_cts`). `FramesInOrder` says that this is the only way a word
   is ever sent twice.

5. `SSP_UART_Avalon.v:76`: no read ever clears an interrupt flag, because SSP_En is
   raised for register 3 only (`ssp_rx`, `TimeoutFlagStays`).
6. `src/Soft/main.c:560`: the polling loop tests one of the two status bits and
   leaves 32 to 63 characters unread (`ssp_rx`, `PollingIsServed`).
7. `Compressor.v:127`: the next block is compressed whether or not it is there; a slow
   memory gives a wrong digest and the status of a right one (`sha`,
   `DigestRightUnlessLate`).
8. `SHA_256.h:241`: texts of 888 to 897 and of more than 951 bytes are padded wrongly
   (`padding`, `PaddingRight`).

Met on the way and not the subject of a run: idle bus cycles overwrite FMT, so a
format written by software (0x1100, `src/Soft/main.c:540`) lasts one bus cycle;
`FrameAsConfigured` is about frames during which the decoded format stays the
same. `SSP_UART.v:271` says that mode 0 passes xCTS on, line 974 ignores it.
The first write of the terminal program to TDR (0x1800) clears the transmit FIFO
only, so what the receive FIFO holds from before is read as an answer; it masks a
received word with 0x7F and so never sees the error flag. In `src/Soft/main.c` the
digest of line 512 is that of the text as typed, not of the decrypted one, so its
comparison with the signature says nothing about the decryption; and the AES
results are read after a fixed wait (442, 471) instead of a poll of the status.

## 6. Not modelled, and why

* **SPI master**: a vendored core and a straight-line test of one transfer.
* **RSA and AES**: the arithmetic is a data computation no model checker enumerates;
  the controllers repeat the shape of the SHA-256 one without its second clock.
* **re1ce at clock level**: the models of the SSP UART take bus accesses to be further
  apart than the pulse takes to cross, and the pop pulse to arrive some time later.
  Two TDR writes closer than that can merge (hazard at `SSP_UART.v:789`).
* **data.bin**: the sensor program stores its reading and reads it back in the same
  round; the file is never used for anything else.
* **Debouncer, edge detector, baud rate generator**: counters with one input.
* Generated interconnect, u-boot, device trees, compiler databases and vendor
  libraries (not this project's logic); the floating-point conversion of the
  readings and all printing (no property depends on them).
