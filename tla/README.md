# A model of OpenMPTL

OpenMPTL is a C++ template library for programs on ARM Cortex microcontrollers
without an operating system, with two demo programs (`stm32f4discovery`,
`stm32f103stk-demo`) that also run as a simulation on a PC. This directory holds
TLA+ modules of the parts whose correctness depends on the order of things: a
main program against interrupts, threads against each other, two drivers on one
bus, the compiler's merging of register lists against what a list means, and the
start of each program on the registers of its device. `PROJECT.json` ties every
definition to the lines it models and every property to a run.

Paths below are relative to `src/`.

## 1. The system

| Component | State | Operations | Talks to |
|---|---|---|---|
| ring buffer, `include/fifo.hpp` | two atomic indices, the slots | `push`, `pushs`, `pop`, `reset` | one producer, one consumer |
| USART stream, `arch/.../stm32/common/usart_stream.hpp` | `tx_fifo`, `rx_fifo` | `isr`, `open`, `close`, `flush` | USART registers, NVIC channel, ring buffers |
| USART driver, `.../common/usart.hpp` | CR1, SR, DR | enable and disable, load-change-store of interrupt bits, `set_baudrate` | the peripheral |
| fifo stream, ostream, `lib/include/` | none | `put`, `write`, `puts`, `flush`, `endl` | ring buffer, `flush` of the device |
| terminal and hooks, `lib/include/terminal.hpp`, `terminal_hooks.hpp` | `cmd_buf`, `cmd_index` | `process_input`, the hooks | the stream; the baudrate hook closes and reopens it |
| main programs, `projects/*/src/kernel.cpp` | their locals | `init`, `run` | everything |
| simulation, `include/register_sim.hpp`, `lib/include/terminal_sim.hpp`, `sim_reactions.cpp` | simulated registers, two flags | `react` on every store, detached threads | CR1, both queues, stdin and stdout |
| register masks and lists, `include/register*.hpp` | the registers | `set`, `clear`, `test`, `reset_to`, `strict_reset_to`, merging | all drivers describe their setup as lists |
| type lists, `include/typelist*.hpp` | none (compile time) | append, filter, map, unique, `for_each` | register lists, vector table |
| system time, `projects/stm32f103stk-demo/src/time*`, `timepoint.hpp`, `systick.hpp` | SysTick counter, `systick_count` | `systick_isr`, `TimePoint`, `nanosleep`, `TimeMeasurement` | SysTick exception |
| real time clock, `f1/.../rtc.hpp` | counter in two halves, write flags | `get_counter`, `set_counter`, `init` | backup domain, RTC interrupt |
| debouncer, joystick, ADC | value, candidate, hold time; conversion flag | `poll`, `get_position_blocking` | system time |
| screen and its state machine | list of rows, the top row | `react`, `update` | joystick events, LCD |
| SPI, LCD, radio | SPI control register, display buffer | `enable`, transfers | two drivers share one bus |
| clock, flash, power setup; startup and C runtime | RCC, flash and PWR registers; memory sections | waits with and without timeout; copy and clear of sections, constructors | hardware, linker script |
| vector table, NVIC | table (compile time); enable and pending bits | built from the resource list; `enable`, `disable` | all interrupt handlers |
| register tables and address maps, `arch/.../reg/` | none (compile time) | addresses, reset values and fields | everything that touches a register; the simulation's dump |
| GPIO, cycle counter, system calls, number formatting | pins, a counter, the heap pointer | set, reset, toggle; `_sbrk` | drivers, screen |

**What is hard here.** (1) One core with interrupts: the main program is stopped
between any two instructions, and code that loads a control register, changes it
and stores it back can undo what a handler did. (2) A peripheral that moves on
while its status is looked at. (3) Lock-free queues with blocks that are published
whole. (4) Sessions: `close()` and `open()` while bytes are still in registers and
queues, called from inside the function that reads them. (5) Detached threads in
the simulation, stopped by a flag they poll. (6) Merging of register masks from the
right, with assertions, from lists assembled in several files. (7) Time in two parts
that are read one after the other, on unsigned integers. (8) Two devices with
different SPI settings on one bus, and a bus that is still shifting when a driver
function returns. (9) A start that raises clocks, waits for flags and lifts
protections in an order the hardware demands, from registers that a reset does
not all reset: the real time clock keeps its own. (10) Numbers of interrupts,
bits and addresses that differ by device and are written in several places. There
is no network and no storage.

**What makes each part correct.** The ring buffer is a bounded queue, refuses only
when full and shares no slot. The stream sends what it accepted once and in order,
accounts for every received byte, obeys `open()` and `close()`, and its transmit
interrupt neither starves the main program nor forgets flushed bytes. The terminal
runs the command that was typed. The simulation has one thread per job and does
what the hardware would. A register list does what its elements say in any order or
does not compile. Time is not ahead, and waits end and are long enough. Every byte on the SPI reaches its device and the display shows
what the joystick led to. At every moment of a start the flash memory follows the
clock; afterwards pins, clocks and rates are what the program's resources say, each
interrupt finds its handler, and the LEDs blink. The
hazards behind these, each at its line, are listed in `PROJECT.json`.

## 2. The modules

| Module | Role |
|---|---|
| `Fifo` | abstract: what a ring buffer promises |
| `RingBuffer`, `MCRingBuffer` | `fifo.hpp`, every load and store a step; instance for TLC |
| `RingBufferProofs` | its invariant, and that it implements `Fifo` |
| `UsartStream` | `usart_irq_stream` on `usart`, the interrupt, the peripheral, any caller |
| `Terminal` | extends `UsartStream`: the caller is the main loop with `process_input()` and hooks |
| `TerminalProofs` | the stream's invariant and what follows; that the terminal uses it as `UsartStream` allows; the command line |
| `SimTerminal` | the terminal on the simulated registers, with threads |
| `SimTerminalProofs` | which threads run, and that the bytes are printed in order |
| `RegMask`, `RegList` | register masks; what the compiler makes of a list of them |
| `Registers`, `MCRegisters` | a list at run time, against an interrupt; instance for TLC |
| `RegistersProofs` | algebra of the masks; what running a list does, for lists of every length |
| `Timing` | SysTick, its exception, `TimePoint`, `nanosleep()`, `TimeMeasurement` |
| `TimingProofs` | what time points and measurements say of the time, and how long a sleep is |
| `SpiBus` | the SPI with the drivers of display and radio as sequences of what they do |
| `Demo` | extends `SpiBus`: main loop of `stm32f103stk-demo`, joystick, debouncer, screen, heap |
| `DemoProofs` | the debouncer, for every hold time and clock; the bus and the display, for every size |
| `Induction` | induction over numbers and recursive functions, stated so that the provers can use it |
| `PeripheralsCommon`, `PeripheralsF1`, `PeripheralsF4` | the headers' registers: offset, reset value, fields |
| `AddressMap` | the headers' second account of the registers: a name for each address |
| `Interrupts` | channels of each device, core exceptions, the vector table |
| `Resources`, `ResourcesF1`, `ResourcesF4` | what drivers and programs put into their lists of resources |
| `Programs` | the three programs from reset to main loop, as operations on registers |
| `Startup`, `MCStartup` | these programs on their devices, with resets; instance for TLC |
| `StartupPlan` | a start read as a straight line, what makes a program sound, the inductive invariant |
| `StartupProofs` | that the device has the registers the plan has, and what follows; vector table and baud rate divisor for every input |

Definitions with a comment beginning "Mutant" are wrong variants of the definition
that follows them. No module uses them; they exist to show that the property named
in `PROJECT.json` fails when the code has that bug.

### RingBuffer

The producer's program is the one loop of `pushs()` (a block of one element is
`push()`): load the own index, load the other's once, fill slots while the *copy* says
there is room, publish. The consumer's is `pop()`. Private copies (`write_index`,
`read_index`, `c_write_index`) are variables, because they may be old. The
acquire and release orders of the atomics make program order visible to the other
side, so that interleaving the steps covers every execution. `reset()` is only taken
when both sides are outside a call, as its comment demands; module `SimTerminal`
shows a caller that breaks this. `counted_ring_buffer` is instantiated nowhere and left out.

### UsartStream

One step is one access to shared state: `isr()` is entry with its load of SR
(`IsrEnter`), the receive half and the transmit half; `open()` and `close()` are split at
each store and at the load and store of CR1. A queue operation is one step. This is
sound because `RingBuffer` implements `Fifo` (theorem `Refinement`): a block that is
published is one `Put`, a `pop()` one `Get`, at the moment the index is stored.
While the handler runs the main program does not (`MainAt`), the peripheral does.
Bytes are numbers so that order and loss are visible.

The peripheral, external to the code: a data register each way, RXNE and TXE as their
state, an overrun flag that a load of DR clears if the load of SR before it has shown it
(an overrun between the two stays, and so does its request, until the next byte), a request
line, and the NVIC bit that latches it and survives `disable()`. The transmitter has one stage; the
shift register behind it would only delay `sent`. `irq_count` and `irq_errors` are
only displayed and left out.

### Terminal

The callers of `UsartStream` are replaced by `Kernel::run()` and
`terminal::process_input()`, one action per call of the stream. A character is its
class: printable, carriage return or anything else. A hook is a program that writes
as often as it likes and flushes, or the baudrate hook: `close()`, `set_baudrate()`,
`open()`. Which hook a name selects does not matter to what is checked. If the
command buffer is full, the terminating NUL is stored where `cmd_index` lies. That
is undefined; the model allows both results a build can have, `cmd_index` becoming 0
before it is looked at, or not.

### SimTerminal

Every store to CR1 calls `react()`, which compares the old value with the new one and
starts or stops threads; this is part of the main program's step sequence
(`Store`, then `React`). Threads have the loop of the code: look at the flag, poll or
pop, publish. There `reset()` is split at its two stores, and the queues of the
threads at loads and stores. Which keys are in `rx_fifo` is left out, its indices are not.

### RegMask, RegList, Registers

A register's value is the set of its one bits, a mask a set of bits covered and a set of
bits to be one. `RegList` has what the compiler does to raw lists (nested, with `void` and
with elements that are no masks): `typelist`, `make_reglist`, merging, unique, assertions.
A `regval` is taken for its mask: its `clear()` is private (`register.hpp:264`), so
that to clear a list with nothing but a `regval` for some register does not compile; the
model checks these lists, too.
`Registers` takes such lists and runs the result against an interrupt that sets one bit
anywhere: one store for bit-band writes and resets, load and store otherwise.

### Timing

The counter has `reload_value + 1` ticks to a period. `TimePoint::set()` is two steps,
with the exception before, between or after them. The main program can see the counter
at 0 with the exception still pending, but not longer: with HCLK divided by 8
(`systick_clock::external`, which both demo programs use) a tick is shorter than exception entry and exit,
hence the guard of `systick_isr`. Handlers are assumed to take less than a period (10 ms).
`time` and `read` are history.

### SpiBus, Demo

A driver function is a sequence of operations (drive a pin, wait until not busy, send,
receive, disable, configure), which the main program works off one at a time, while
the SPI shifts on its own: data register, shift register, receive register. BSY is taken
to be set from the store to the data register until the byte is out. A byte
carries the device it is for and, for the display, the address it will be
stored at; what a device hears is decided by chip selects, data line and
configuration at the end of its last bit. What the display hears in a configuration not its own
does not come out as what was sent.

`Demo` puts the main loop on top: conversion of the joystick's voltage, `poll()` of the
debouncer, the events to the screen, commands that test the radio or eat the heap until
`_exit()`, then `lcd::enable()` and `update()`. `process_input()` runs all lines that wait, one after
the other, so that `_exit()` may find the bus as the radio's. A row of the display is one byte, the row's
number with the text of the joystick row. The clock ticks at most once a turn, as the
turn takes about 2 ms and the period is 10 ms; `Word` is its modulus, small so that it
wraps. `moves` is history: ups and downs, counted modulo the number of rows.

### The register tables

`PeripheralsCommon`, `PeripheralsF1` and `PeripheralsF4` have the headers' registers as
functions from names to records of offset, reset value and fields, and `Peripherals` with
the base address of each. Addresses are counted in words, as TLC's integers have 31 bits.
`AddressMap` translates `address_map.hpp`, which its generator made from the vendor's
description and which the simulation's dump uses. The same facts are thus
stated twice in the repository, and `MCStartup` compares them (`TablesAgree`) and takes
the map as the device's own addresses where it has a name.

### Resources, Programs, Startup

`ResourcesF1` and `ResourcesF4` translate the drivers' configuration traits: which pins in
which mode, which clock bits, `min_latency()`, PLL and bus dividers, baud rate divisor, interrupt
handlers. A mask is symbolic (`regval`) and becomes bits with the tables (`Mask`). A
program is a sequence of operations: `core::startup()` with the PLL, early registers and
constructors in its order, `Kernel::init()`, the opening of the terminal; lists
go through `RegList` as in the compiler.

`Startup` runs a program on a memory of addresses. The program uses the address the headers
give, the device has its registers at the map's. The device, external: a store to a
peripheral without its clock is ignored, so is one to the real time clock outside of
configuration mode, while a write is going on, or without access to the backup domain;
flags that only hardware sets or that can only be cleared; BSRR, BRR and ISER; oscillator,
PLL, switch of the clock, synchronisation, end of a write and the second as steps that
come when their conditions hold. `Reset` may come between any two steps: RAM and
the backup domain survive, the rest is as after power-on. The code
never resets itself: a reset is the button of the board or its supply.

A read-modify-write is one step here (`Registers` and `UsartStream` are about the
other case): during the start the hardware and the two handlers change other bits than
those the main program writes; which they are is `Volatile` in `StartupPlan`. The UART's interrupt is in `UsartStream`; `SpiBus` has the
initialisation of display and radio. `stm32f103stk-demo`'s `systick_isr()` only counts,
see `Timing`. The count of the real time clock is not modelled, its registers are.

## 3. The runs

All with two workers, each within a minute; distinct states in brackets.

| Run | What it shows | Bounds, and why they are enough |
|---|---|---|
| `ring_buffer` (106154) | no shared slot, implements `Fifo`, refuses exactly when full, "empty" only if nothing was published at the call, no side waits for the other | 4 slots: indices wrap in every position, blocks of 0 to more than capacity; 2 elements. The same for every size by proof. |
| `usart_stream` (481989) | order and accounting of bytes, bits of a session; flushed bytes are sent; the transmit interrupt stops; received bytes are fetched | queues of 3 and 2, blocks up to 2, 4 bytes out, 3 in, 2 sessions: both queues fill, overrun, refusal, and a second `open()` with bytes left over all occur. Safety holds for all values by proof. |
| `terminal` (221805) | the command is what was typed; what is written gets sent; the stream is used only as `usart_stream` allows | buffer of 2 characters, 3 keys of any class, 2 sessions: a line that fills the buffer and one more; a command that closes the stream with the echo still queued |
| `terminal_buffer` | violation, see 6 | as `terminal` |
| `sim_terminal` (193106) | one printing thread; a polling thread while open; polling ends after a close; printed in order; all printed | 3 slots, 2 threads of each kind, 2 sessions: the second session starts before the first's threads have looked at the flag |
| `sim_writer` | violation, see 6 | one more byte each way |
| `registers` (121306) | lists do what their elements say in any order; rejection exactly of contradictions; one write per register on reset; what `test()` means; bit-band writes keep other bits | 2 registers, one of them in the bit-band region, 2 bits, lists of up to 3 masks and nested ones, all four operations, one interrupt: three masks are the first at which merging from the right could differ from comparing pairs |
| `timing` (199641) | readings lag by less than a period and are never ahead; measured ticks; sleeps are long enough but for a torn start; sleeps end | period of 4 ticks, up to 4 ticks between two steps (a whole period), requests below and above a period. Words of 12 ticks, so that uptime exceeds a word while intervals fit. `MaxTime` is never reached: it only makes wrong variants finite. |
| `timing_diff`, `timing_round` | violations, see 6 | as `timing`; `Word` is 64 in the second, so that requests overflow as 4.3 ms does in the code, at about half a period |
| `demo` (225416) | every byte reaches its device with that device's settings and no other hears it; answers belong to their bytes; the display shows the rows and the position the accepted moves lead to, and the message after `_exit()`, also right behind a command that gave the bus to the radio; accepted exactly if held | display of 2 bytes and addresses of 2: a first, a last, a next byte; 3 rows, more than the display shows, so that it scrolls round; voltages on both sides of two thresholds and between windows; hold time 2 on a clock modulo 5, which wraps while a position is held; one block of heap |
| `startup` (3442) | see below | `stm32f103stk-demo` at 24 (value line, another PLL formula and vector table), 36, 48, 56 and 72 MHz: every number of wait states and divider; `stm32f4discovery` at 96, 120, 144 and 168 MHz, the `ledtest` at 2.4, 2.7 and 3.3 V: other columns of the latency table; one reset at any moment, a second one would meet the same registers; LEDs toggle every 2 ticks instead of 1000 |

`startup` is few states because a start is a single thread of about 60 steps; each
state has all registers of a device. `ClocksAreRight` computes the frequencies from the
registers and the vendor's limits, not from the traits. `ResourcesInEffect` compares
every mask of the program's list with the registers, and the mode of every pin with a table
of how the boards are wired. `InterruptsHaveHandlers` looks up what is enabled in the
vector table. `StoresTakeEffect` is violated by a store to a register without clock, to one
that is protected or busy, or at another address than the device's. `StartsAsPlanned` is the
inductive invariant of the proofs, and evaluates their hypothesis for each of the twelve builds.
`LedsBlink`
says that the program gets through all its waits, and what its LEDs then do.

Deadlock is not checked where the callers may simply stop calling, or the bounds
end the run (all runs but `ring_buffer`); progress is stated as liveness instead.

TLC has checked each inductive invariant before it was proved; the runs keep
`StartsAsPlanned`, which evaluates what the proofs assume, and leave the others to the proofs. In `Terminal`, `UsesStream` carries over
what the stream's run and proofs show: the main loop's steps are steps of
`UsartStream!Next`.

**Fairness.** Interrupts are taken and finished (the core does that), the transmitter
shifts and the counter ticks (hardware), a call that was entered runs on (one main
program, never blocked), the host schedules the simulation's threads. Nobody is
assumed to call, write, read, type, open or close; `Terminal` assumes that its main
loop goes round, which is its code. Nothing is assumed of the receiver: bytes need
not arrive. In `Demo` the program, the
bus and the converter run and the clock ticks; the last is strong fairness at the place
where the program looks at the clock, since ticks come every 10 ms whatever the program does
and only their order with the polls is modelled. Strong is also that of `NoCommand`: commands may
follow each other in one `process_input()`, but run faster than lines of four characters come in at
115200 baud, so that a turn finds `rx_fifo` empty in the end. In `Startup` the processor runs,
interrupts are taken, and oscillators, PLL and real time clock come up once they are
enabled: the code has no timeout for them, a board without the crystal
does not start. All other fairness is weak.

## 4. What is proved

`RingBufferProofs`, for every `Size > 0`, element set and set of blocks:
`IInv` is inductive. Beyond types it says that a producer inside the copy loop has
filled exactly the `i` slots from the published index on, that its copy of the read
index is behind the real one by a number of elements the consumer took since, and
that the consumer's copy of the write index is between the read index and the
published one; without these, `NoSlotShared` does not follow one step later. From it:
`SlotsAreNotShared`, `EmptyAnswerIsTrue`, `RefusalIsTrue`, and `Refinement`: initial
states map to initial states, copying stutters, publishing is `Put`, releasing is `Get`.

`TerminalProofs`, of the stream, for every capacity, block length and bound, under
`CapacityAssumption` and `BoundAssumption`: `StreamInv` is inductive. Its parts
strengthen the invariants of the run: `FlagIsTrue` (a TXE the handler remembers is
still true, since only the handler fills the register), `TxNumbered` and `RxNumbered`
(order place by place, and no byte numbered higher than what has arrived), and
`SessionSteps` (where the main program is inside `open()` and `close()`, and that its
copy of CR1 still has UE). There is one lemma a side (`TxStep`, `RxStep`,
`CountStep`, `FlagStep`, `ControlStep`, `SessionStep`), each by the actions that
touch it. From it: `StreamTypes`, `BytesInOrder`, `BytesAccounted`, `SessionIsRight`.
The bounds on bytes and sessions are constants of any size, so they limit the run only.

`RegistersProofs`, for all registers, bits, masks and lists. Of two or three masks: merging
commutes, associates and its assertions hold exactly if every two of the masks agree;
setting a merged mask is setting both; clearing likewise; the neutral mask changes nothing.
Of a list of any length, by induction over it: what a filtered and what a unique list
contains (`FilteredList`, `UniqueList`), and what merging from the right comes to
(`MergedList`); hence `AssertedMeansConsistent`, the assertions of all merges hold exactly
if no two elements contradict each other, and `OneMaskPerRegister`, each register is left once, with
the union of what its masks cover and set. Of a run of a list with an interrupt at any
moment, `RInv` is inductive. Its part `PlanInv` says that what is left is the end of the
list the compiler made, `WritesInv` that no register written to comes again, `AppliedInv` what
each register has become and that a copy in the processor is still right, `KeptInv` that bit-band writes
kept the interrupt's bit. From these `RejectsContradictions`, `WritesOnce`,
`InterruptBitsSurvive`, `TestIsRight`, and `RunIsListApplied`: the merged list does what
the elements do one by one, in any order. The last needs a second induction, over the
elements as written: a bit of a register is in the end what the masks
that cover it say, if they do not contradict each other.

`TerminalProofs`, of the terminal, for every size of queues, line buffer, welcome and number of keys, under
`RoomAssumption` (the bound `MaxTx` leaves room for what the main loop writes, so that it
never limits the loop): `TermInv` is `StreamInv` with `PlaceInv` (the stream is closed
exactly where the main loop takes it to be, and inside `open()` or `close()` only behind a
call of them), `RoomInv` (what may still be written fits the bound) and `LineInv` (buffer
and line grow together). Since a step of the terminal is a step of `UsartStream`
(`StepUsesStream`), `NextStream` carries `StreamInv` over, and `TerminalIsMainProgram` all that is
proved of the stream: `TerminalBytesInOrder`, `TerminalSession`. Of its own: `TerminalUsesStream`,
`TypedLine`.

`SimTerminalProofs`, for any number of threads, keys and sessions: `SimInv`. TXEIE, which
`close()` leaves alone, is never seen to be cleared, so that the flag of the printing threads
is never set and only the reaction to the first flush starts one (`SingleReader`);
RXNEIE is set exactly from the end of `open()` to `close()`, and after the reaction to it
somebody listens (`OpenListens`). In the first session `PrintInv`: byte `k + 1` is in slot `k`
round the buffer until it is printed (`QueueInv`), the index a printing thread has loaded is one
the queue has had since the byte printed last, and what it has taken out is the next (`TakenInv`).
That no second thread moves the index in between is `SimInv`; slots are told apart because
fewer bytes wait than there are slots (`SlotsApart`). Hence `PrintsInOrder`, for every size of
the queue.

`TimingProofs`, for every reload value, word width and ratio of units, provided the run is
shorter than the wrap of `systick_count` (`CountLasts`; for the code 497 days): `ClockInv`
says that the ticks so far are the periods counted, one more while the
interrupt is due after a period has ended, and the rest of the counter; `HalfRead`
keeps the first load of a TimePoint within its period. Hence `TimePointsLag`. For
`nanosleep()`, if the ends of the sleeps come before the wrap, too (`EndsCounted`): `add_ns()` moves a
TimePoint by the ticks asked for at least, because a carry adds the tick by which a period is longer
than `reload_value` (`AddTicks`), and when `operator<` is false the time is not before (`NotLess`);
`SleepInv` keeps the end that far from where it was read. Hence `SleepsEnough`. With
`MeasureInv` and the arithmetic of `operator-` modulo the word (`DiffTicks`),
`MeasurementIsExact`, for measurements whose ticks fit into a word (8 minutes at 9 MHz), since
`get_ns()` multiplies the periods by their ticks; how long the system has been up does not matter.

`DemoProofs`, of the debouncer, for every hold time and clock width: `hold_time` is as far
ahead of the clock as the position has still to be held, unless the clock was near its wrap
(`DebInv`); hence `AcceptedOnlyIfHeld`.

`DemoProofs`, of the bus, for every number of bytes of a picture and of an address and
every number of rows. A driver function is a sequence of operations, of which the invariant must
know at every place what is still to come and that it is right. The argument: a
*phase* is the pins, the configuration, what the display shows once all bytes stored have
reached it, and whether the bus is quiet, has bytes for the display under way, or an exchange with
the radio. `Takes(up, a, o, b)` says which operations are allowed in a phase and what the next
is: pins and configuration change in quiet only, a byte is sent only with its device alone
selected, its configuration and its data line. `Runs(up, s, a, b)` says that the sequence `s`
goes from phase `a` to `b` this way; runs join (`RunsBoth`), so each driver function is shown to
run once, from the functions it is made of (`LcdInitRuns`, `LcdUpdateRuns`, `NrfInitRuns` and
the transfers of the radio). A sequence with as many parts as a picture has bytes needs induction
(`SendsRun`, which follows the display's address pointer round), so does one with as many as
an address has (`AddressBrings` with `FlattenClosed`: transfers that leave the bus idle are
closed under joining). `BusInv` says that what is left of the function entered runs from
a phase to which registers, pins and display are linked (`Linked`) to one where the next function
may be entered (`Ending`). It is inductive: the program's step takes the first
operation (`DriverStepKeeps`), the hardware's step leaves the phase (`SpiHardwareKeeps`), and where a
function is entered it runs. `ListInv` keeps the screen's place equal to the counted moves. From them
`DevicesHearTheirBytes`, which with `ClockFits` includes that the clock is one the device can
follow, `AnswersMatch`, `DisplayIsCurrent`.

`Induction`: the theorems on induction of the library take the property as an operator,
which the provers used cannot instantiate. Stated over sets they are first-order: a set of
numbers that contains 0 and, with each number, the next, has all (`SetInduction`, from the well-foundedness of
`<`); a property is proved by taking the set of the numbers that have it. `RecursionExists`
and `RecursionHolds` give the same for a function defined by recursion: the step is
itself a function on numbers and values, and the definition, a `CHOOSE`, is shown to
have the values the recursion says.

`StartupProofs`, for every set of programs and devices, any number of resets and every interval of
the LEDs. A program that ran alone on a device whose every wait ends would have the same
registers at each operation every time: its *plan* (`StartupPlan`). `PlanAssumption` defines it: the
registers after a reset first, and then what each operation makes of the ones before. The
device does not run this way. Oscillators and PLL become ready and the clock is switched when it suits
them, the second comes, handlers clear its flag and toggle LEDs, and a reset starts again
with the backup registers as they happen to be. `StartInv` says how far the plan holds all the same:

- at every address the bits that only the program changes are as planned; the others (`Volatile`) are
  the ready flags, the flags of the real time clock and the outputs of the toggled LEDs, and of the
  ready flags those are on that the plan has on, because the program waited for them (`Follows`);
- except in the backup registers, until the program has reset them (`Known`, `Wiped`);
- the switch of the clock is off, or on the PLL and the program has asked for it (`SwitchInv`);
- `reached` is what lies behind (`Done`).

It is inductive (`PlanIsFollowed`) for programs that are `Sound`, a condition on code and plan
alone: each store is accepted along the plan, a wait for several bits is for all of them, no backup
register is used before it is reset, the clock is switched for good. A store does to the device
what it does to the plan, in every case of the device's stores (`TakenAsPlanned`); that the device accepts it
where the plan does needs that acceptance depends on bits that must be *on* only
(`FollowsAccepts`). Then what holds along the plan holds of the device. `ResourcesStay` and
`InterruptsServed`: their registers are quiet, no other actor writes them. `ClocksStayRight`:
the frequencies are those of the plan with the switch where it is, and `ClocksPlanned` has them
right with the switch in each place it may be in; the second counts only once the backup registers
are known. `StoresWork`: a store of bits only the program changes has the effect it has in the plan; the
set and reset registers of a port and the clearing of a flag are shown directly.

The theorems have `ProgramsAreSound` (`StartSound` of every program) as hypothesis. It is about
the programs as data, sixty operations on given registers, and a proof could only compute it;
TLC does, for each build of the run (`StartsAsPlanned`). What is left to prove, and is proved, is that
no order of events and no reset makes a difference.

Two formulas are shown for every input, not only for those of the three programs, since other lists
of resources and the rates of the baudrate hook go through them: `HandlersInPlace`, for every device
and set of handlers the table has each in the entry the core takes, and the default
elsewhere; `DivisorIsNear`, the two roundings of `usart.hpp:143` together are less than one step of
the divisor off for every clock and rate, with the fraction 16 among the results (see 6).

Only model-checked: the liveness properties `Lockfree`, `FlushedIsSent`, `TxInterruptStops`,
`RxIsFetched`, `EchoIsSent`, `ClosedIsDeaf`, `EverythingPrinted`, `SleepEnds`, `HeldIsAccepted`,
`LedsBlink`. They need fairness and ENABLED, which are out of the prover's reach. Every safety
property and action property a passing run checks is a theorem.

## 5. What is not modelled

- Compile-time formulas on one value: the address of a bit-band alias. Number
  formatting and the font: sequential functions within reach of a unit test.
- `counted_ring_buffer`, `irq_count`, `irq_errors`, `set_contrast()`, the cycle counter, alarms and
  overflow of the real time clock, waits with timeout and the internal oscillator in
  `rcc.hpp`, remapping of pins, modes of the converter, parity and flow control: no
  program uses them. The MPU's registers, and those of CAN, DMA, Ethernet and USB in the
  address maps, likewise.
- Builds with `DYNAMIC_BAUD_RATE` in `Startup` (the hook is in `Terminal`) and the test variants of
  the ledtest.
- Priorities of interrupts: the programs leave them at their reset value, so that no
  handler interrupts another.
- The simulation's thread for SysTick and its reactions to clock, converter and SPI stores,
  which set a flag at once: less than what `Startup`, `Demo` and `SpiBus` allow the hardware.
- What the linker script does, the contents of sections, vendored tinyfsm (its dispatch is a
  call in `Demo`).

## 6. Where code and documentation disagree

| Run | Disagreement |
|---|---|
| `terminal_buffer` | `terminal.hpp:108` stores the NUL one place behind `cmd_buf` when the line is as long as the buffer |
| `sim_writer` | `fifo.hpp:41` allows a single writer; closing and opening within one sleep of the polling thread leaves two |
| `timing_diff` | `timepoint.hpp:64` converts ticks with the inverse factor; `diff()` promises nanoseconds |
| `timing_round` | `timepoint.hpp:52`, "always rounded up": the 32-bit product wraps from 4294968 ns on |

Known and not a run:

- `nanosleep()` is short by up to a period if the tick comes between the two loads of
  `end` (the allowance in `SleepsLongEnough`); no document promises more.
- `usart.hpp:170` wants no communication while the baud rate is set; the hook sets it right
  after `close()`, which does not wait for the byte in the data register (only with
  `DYNAMIC_BAUD_RATE`).
- `fifo.hpp:73` wants `reset()` while nobody uses the queue; in the simulation `open()` resets
  `tx_fifo` with the printing thread inside `pop()`. Hence `PrintedInOrder` is about the first
  session. Two polling threads may also lose a key.
- Between the list of resources, which makes its pin a low output, and `nrf::init()` the
  radio is selected and hears the commands of `lcd::init()`; `BytesReachTheirDevice` leaves
  out that phase.
- The fraction of the baud rate divisor can round up to 16 and is then masked without a carry
  (`usart.hpp:143`), and not masked in the compile-time variant; no rate of the programs gets
  there.
- An overrun between `isr()`'s loads of SR and DR leaves ORE set without a byte to read;
  `isr()` looks at RXNE only (`usart_stream.hpp:61`), and the handler is taken over and over until the
  next byte comes. No byte is lost uncounted or out of order.
- `rtc::get_counter()` can be torn by a carry between its two loads.

## 7. Reading order

`Fifo` and `RingBuffer`, then `UsartStream`, `Terminal`; `RegMask`, `RegList`, `Registers`;
`Timing`, `SpiBus`, `Demo`; the tables, `Resources*`, `Programs`, `Startup`. `SimTerminal` stands
alone.
