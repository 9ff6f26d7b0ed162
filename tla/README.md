# TLA+ specifications of the L298N tester

The tester is a small program on an AT90USB1286. It drives an L298N H-bridge
with a PWM from timer 3 while an operator holds buttons and turns pots, and it
reports what it does over USB to a program on the host, the debug reader. This
directory holds a specification of it, the configurations with which TLC checks
it, and proofs that TLAPS checks.

- [The system](#the-system): components, state, interactions, what is hard
- [The modules](#the-modules): which module models which code, and how
- [The runs](#the-runs): what TLC checks, with which bounds
- [Disagreements](#disagreements-between-the-code-and-what-is-said-of-it)
- [The proofs](#the-proofs): what holds for all constants, and why
- [What is not modelled](#what-is-not-modelled) and [the plan](#the-plan)

`PROJECT.json` maps every definition to the lines it stands for, and lists the
runs, the mutants, the hazards and the theorems in a form for tools.

    tlc -config MCTester.cfg MCTester     # a run
    tlapm TesterProofs.tla                # the proofs of a module

## The system

Paths are relative to `src/`; the firmware is in `firmware/`.

| component | state it keeps | operations | what makes it correct |
| --- | --- | --- | --- |
| `pwm.c` | timer 3 registers (COM3C, clock select, ICR3, OCR3C, TIMSK3), `g_cs_bits`, `g_interrupt_cb` | init, enable, disable, set callback; two timer interrupts | TOP and clock give the period asked for on the finest clock; the compare value stays below TOP; a duty that is set comes into effect, and the change to it never lengthens a pulse; the callback is called whole |
| `driver.c` | two direction bits of port B, `g_pwm_duty`, `g_pwm_period` | init, set and toggle direction, enable, disable, get state | what is reported is what the timer does |
| `procedure_0.c` to `procedure_2.c`, `main.c` | the message `tx_msg`, locals of the running procedure, the LED, the watchdog | the main loop and three procedures, each with a loop that reads inputs and a loop that runs the motor | the motor starts as announced and only then, is reversed through a brake that does not last, stops when the operator says so or the watchdog expires, and is at rest between runs |
| `time.c` | `g_counter_ms`, `g_timer_counter`, `g_timer_reached` | compare interrupt of timer 0; read the counter; take the event | a time stamp is read whole, an event is taken once |
| `input.c`, `adc.c` | ADC registers | read the buttons and the switch (two samples each) and the pots (two conversions each) | one press is reported as one; a press that lasts is reported; a pot gets its own value |
| `msg.c`, `transport.c` | `cnt` and `error_cnt` of the message | init, send | the host can tell what it has missed |
| `protocol.c` | none | CRC of a message | the table is the one of the polynomial |
| `usb_rawhid.c` | `usb_configuration`, `tx_timeout_count`, the registers of the USB controller | init, send, receive (never called); two interrupts | a report goes to the transmit endpoint or is counted as lost; a send returns; a control transfer ends and its data is exact |
| `tools/debug-reader` `main.c` | a buffer, a message count | open, receive and print | silence of the board is not taken for a malformed report |
| `tools/debug-reader` `hid.c` | a list of open devices | open, close, receive, send; the parser of report descriptors | what is claimed and open is what the list says; the usage is found wherever the descriptor ends |
| `tests/sim` | | loads the firmware into a simulator | a tool without logic of its own |

How they interact. One main thread calls downwards: procedures, driver, pwm;
procedures, msg, transport, usb_rawhid. Five interrupts come in between any two
instructions of it that leave interrupts on: timer 0 (`time.c`), the two of
timer 3 (`pwm.c`, which calls back into `procedure_2.c`), and the two of USB.
They share with the main thread the statics named above, PORTD (the LED), TIMSK3 and
the endpoint selection register UENUM. The critical sections are `time_get_ms`,
`time_get_and_clear_event` and parts of `usb_rawhid_send`. Outside the processor
are the operator, the USB host, and the watchdog (8 s), fed only at the top of
the main loop.

What is hard here, and nearly impossible to test on a board: a button pressed or
let go between any two steps; an interrupt between two bytes of a load, or
between a test and what follows from it; a bus reset in the middle of a send; a
watchdog reset in a run; the edges of 16-bit arithmetic; the order of writes to
the bridge; a counter that stands above the TOP it is given; a contact that
bounces at the one moment it is looked at; a host that ends a transfer early; a
library call that fails half-way through a list. `PROJECT.json` lists these
hazards by line, each with the properties that would fail.

## The modules

| module | models | extends |
| --- | --- | --- |
| `Pwm` | `pwm.c`: the registers and every function that changes them, with the 16-bit arithmetic | |
| `Driver` | `driver.c` over `Pwm`, and the arithmetic properties | `Pwm` |
| `DriverCalls` | the driver alone, called with any duties and periods | `Driver` |
| `Timer3` | `pwm.c` again, one register access at a time, under the running counter and its interrupts | |
| `HBridge` | abstract: what the output of the bridge may do | |
| `Tester` | `main.c`, the three procedures, timer 3 interrupts, clock, operator, watchdog | `Driver` |
| `TesterProperties` | the properties of the program, the inductive invariant, the refinement of `HBridge` | `Tester` |
| `Board` | `main.c` and the procedures in time: the lengths of their delays, the watchdog | |
| `Clock` | abstract: a counter read at one instant, an event taken at most once | |
| `Time` | `time.c` byte by byte, under its interrupt, shown to implement `Clock` | |
| `Input` | `input.c` and `adc.c`: samples, delays and conversions, bouncing contacts, the charge of the ADC | |
| `Crc` | definition: the remainder of a division of polynomials | |
| `Protocol` | `protocol.c`: `crc16_ccitt` with its table, one step for each byte | `Crc` |
| `Usb` | `usb_rawhid.c`: the send step by step, both interrupts, the bus | |
| `Link` | `msg.c` and `transport.c` over `Usb`, and the host that receives | `Usb` |
| `Control` | `usb_rawhid.c`: the data and status stages of control transfers, against a host | |
| `Reader` | `main.c` of the debug reader, next to the board in time | `Board` |
| `Hid` | `hid.c`: the list of devices, with every library call that may fail | |
| `HidParser` | `hid.c`: the loop over the items of a report descriptor | |
| `DriverLemmas`, `DriverCallsProofs`, `TesterProofs`, `TimeProofs`, `LinkProofs`, `PeripheralsProofs`, `ReaderProofs` | the proofs | the modules they are about |
| `Recursion` | lemmas about induction, recursive functions and `FlattenSeq`, for `DriverCallsProofs` and `ReaderProofs` | |
| `MCDriverCalls`, `MCTester`, `MCPeripherals`, `MCReader` | the small instances | |

A definition whose comment begins with `MUTANT of` is a plausible bug in the
definition it names. It belongs to no specification; it records which mistake
the properties are known to notice.

**Pwm and Driver.** The variables are the registers. `g_pwm_period` of `pwm.c`
and ICR3 are always written together, so `icr` is both; `driver.c` has a second
copy of the period, `g_pwm_period`, in microseconds. `SetPeriod` picks a clock and
a TOP as the `if` chain of `set_period` does; `DutyCycle` wraps its product at
16 bits as `duty_cycle *= duty` does. The interrupts touch none of these
variables, so an operation is one step, with the exception of
`driver_set_direction`, which writes two port bits and is two steps.

**Timer3.** The same functions as sequences of register accesses. `cnt` and `up`
are the counter of the phase and frequency correct mode, `ocr` the buffered
compare register and `compare` what the compare unit has taken over at BOTTOM, `oc`
the pin. TOP is not buffered, so a counter above a new TOP misses it and runs on
to MAX. The callback pointer has two bytes, and `called` is what an interrupt found
in it. `settled` is history: the counter has passed BOTTOM since the last
`pwm_enable`.

**Tester.** `pc` is the next step of the main thread. A step ends where another
actor could see or change something: an output of the bridge, the LED, the
interrupt mask, the clock, a button. `driver_set_direction` is a subroutine with
its arguments and return point in `call`. `msg` is `tx_msg`; `sent` is the last
message given to `msg_send`. The main thread reads buttons and pots when the
code does: `pressed` changes at any time (`Press`), pots are read as any
member of `AdcValues`. `Timer3Interrupt` is both handlers; it is enabled when the
mask and a running timer allow it. `WatchdogReset` may come at any step after
boot, which also covers runs longer than its eight seconds. `onAt` and `offAt`
are history. The clock stops at `MaxMs` and does not wrap: `g_counter_ms` wraps
after 49.7 days (`time.c:26`), and in a run that lasts through that the times
reported are out of order, so that `Timeline` and `FinalReport` speak of the days
before it.

The output of the bridge is the refinement mapping to `HBridge`: coast when the
channel is disconnected or the timer stands, a direction when the inputs differ,
a brake towards the other direction when they are equal.

**Board and Reader.** `Board` is the skeleton of `Tester` in time: a step lasts
from one `time_delay_ms` to the next, `left` is what remains of its delay, and a
delay of d ms sees d / MsPerTick ticks rounded down or up. A wait is as long as
what the code may do in it: the delay, `InputMs` for `input_update`, and
`ReportMs` for a report, the conversion of `driver_get_state` (`driver.c:49`)
included. Every tick raises the timer event, so a tick must be longer than the
period of the event, 250 counts of 1.004 ms (`BoardAssumption`). `wdt` is what
the watchdog has counted, and it bites at WatchdogTicks. A pass of the run of
procedure 2 is bounded by the watchdog only: with a PWM period of a few
microseconds the two interrupts of timer 3 follow each other without a pause, an
AVR executes one instruction of the main thread between two of them, and
`time_delay_ms`, which counts instructions, lasts many times longer. `hung`
stands for the two places in which the processor may wait for ever for the host,
the control request handler and a send on a suspended bus. `Reader` opens the device,
receives with a timeout of ten seconds and sorts the result into a message, an
error or "invalid bytes read", on which it exits.

**Time.** `ie` is the interrupt enable bit, `ocf` the flag of the compare match.
A call disables interrupts, loads byte by byte, enables them again. The mapping
to `Clock` lets a read take effect at the return, and a poll at the clearing
of the flag.

**Input.** Time passes in the delays only. `held` and `before` are what the
operator holds and held before the last change, `age` the time since; within
`BounceMs` of a change a pin may show either. `ADMUX` is the selected channel
and `stable` how long it has been selected; a conversion before `SampleMs` may
give anything. The pots stand still, each at its own position. Sets of contacts
are those that are pressed; the code reads pins that are 0 when pressed and
inverts them.

**Crc and Protocol.** A 16-bit word is the set of the positions of its ones, so
that exclusive or is the symmetric difference. `Crc` is the definition the
comment in `protocol.c` gives, a long division with one step (`Reduce`) for each
bit; `Protocol` is the loop with the 256 entries of the table as they stand in
the source. That every entry is what eight steps of the division leave of its
index is an assumption there (`TableAssumption`), since the numbers are literals;
TLC computes all 256.

**Usb and Link.** `usb_rawhid_send` is seven steps: the check of the
configuration, `cli` with the selection of the endpoint, the test for a free
bank, the two tests with interrupts on, the retry, and the write with interrupts
off. A halted transmit endpoint may or may not show room (`HasRoom`): the
controller does not say what RWAL is under STALLRQ. `USB_GEN_vect` is two steps, since the bus can set a flag between its read
and its clearing of UDINT. `USB_COM_vect` is one. The host resets the bus, sends
control requests, starts frames, and fetches reports when it likes. `Link` adds
the two counters of `msg.c`; `session` is history that tells the messages of one
procedure from the next.

**Control.** `USB_COM_vect` from the SETUP packet to the end of the transfer:
the loop over packets, the empty packet after a full one, the wait for TXINI or
RXOUTI, the stages of SET_ADDRESS, HID_SET_REPORT and the rest, and the stall. A
packet is where it begins in the data and how long it is. Assumed of the
hardware and the host: a pass of the handler over UEINTX is short against a
transaction on the bus; a SETUP packet empties the FIFO; the host sends the next
SETUP packet when the handler has ended; its HID driver asks for reports with
the length of the report descriptor (64). Lengths of descriptors and of requests
for them are any. The last assumption matters, since the handler does not look
at the length of a report request: after a HID_SET_REPORT of 32 bytes or fewer it
would wait at `usb_rawhid.c:928` for a second packet that no host sends, with all
interrupts off, and a HID_GET_REPORT of less than 64 would be given more than it
asked for (`usb_rawhid.c:906`). Like a bus reset in the middle of a transfer,
which leaves the handler waiting too, that is `Hang` in `Board`.

**Hid and HidParser.** `hids` is the linked list as a sequence, `claims` and
`handles` what libusb has claimed and opened for the process. `rawhid_open` goes
device by device and interface by interface, and each call that the library may
refuse (open, claim, descriptor, memory) has its failing alternative. The calls
of the API come in any order, also with numbers that are not in the list. A call
with a null handle ends the process (`Crash`). In `HidParser` a descriptor is a
sequence of items of which the device may deliver any number of bytes; `reach`
is history: the furthest byte that was read. An item is a sequence of bytes, as
long as its prefix says if it is short (`ItemsAssumption`).

## The runs

| run | configuration | states | what it shows |
| --- | --- | --- | --- |
| driver | `MCDriverCalls.cfg` | 325 821 | the arithmetic at both sides of every boundary, the CRC of the message over every table entry, bouncing contacts and the ADC |
| tester | `MCTester.cfg` | 1 172 664 | safety of the program and its time stamps, with both ends of both pots |
| tester_live | `MCTesterLive.cfg` | 37 336 | `HBridge` with its fairness, and the liveness of the runs |
| time | `MCTime.cfg` | 60 480 | `Time` implements `Clock`; the event keeps coming |
| link | `MCLink.cfg` | 3 175 801 | transport, two full banks, loss and recovery, wrap of the counters |
| link_live | `MCLinkLive.cfg` | 131 597 | a send returns |
| peripherals | `MCPeripherals.cfg` | 47 118 | timer 3 under `pwm.c`, control transfers |
| reader | `MCReader.cfg` | 2 068 415 | the debug reader against the board in time; the list of `hid.c`; its parser |
| driver_duty, time_rate, link_suspended, link_reset | | | counterexamples, see below |

Three runs put together parts that share nothing: `driver` (the driver, the CRC and `Input`),
`peripherals` (`Timer3`, `Control`) and `reader` (`Reader`, `Hid`,
`HidParser`). In each, one part takes steps while the others are in
their initial states, so the states are those of the parts added up, not
multiplied, and the behaviours of each part are exactly its own.

The bounds and why they are enough:

- `MCDriverCalls`: periods on both sides of each boundary of `set_period`, and
  the duties at the ends and around powers of two. The proofs cover the rest. A
  period of 0 means "the one before" (`driver.c:100`, `pwm.c:123`); no procedure
  passes it, but the driver takes it, so it is among the periods. Before any
  other period the timer has no clock, and `PeriodIsReported` and `FinestClock`
  have nothing to say.
  For the CRC a message of four bytes: the sum goes over every pair of bytes,
  and so through every entry of the table from every remainder that one byte
  leaves.
- `PotEnds` is the smallest and largest reading: the duties 0 and 1023 and the
  shortest and longest period. Middle readings differ only in values that no
  guard looks at.
- `MaxMs` = 1 gives two instants: any two stamps coincide or differ. Where time
  plays no part it is 0. The theorems cover any number.
- `Base` = 2 keeps the four bytes and lets the counter wrap after 16 ticks, with
  a carry through every byte; `EventPeriod` = 3 does not divide 16.
- `TxTimeout` = 1 or 2 (the code has 100) lets the timeout expire before and
  after a bank gets free. `CountMod` = 3 lets the counters wrap while a message
  is missing. `MaxBusEvents` = 2 counts bus resets, control requests and
  watchdog resets once the transport is ready: a reset and a new configuration,
  or a halt and its release, in the middle of traffic. Before that they are not
  bounded. `MaxSessions` = 1 gives two procedures in a row.
- `Timer3`: a counter up to 8 with the periods 2 and 5 and the compare values 0,
  1 and 3: a compare value of the last run above the new TOP, a counter above
  it, and a pulse of no length all occur.
- `Control`: ENDPOINT0_SIZE as in the code (32); descriptors and lengths below,
  at and above its first two multiples, the ends 0, 255 and 256.
- `Input`: a unit is 5 ms, the sample time; 20 ms of debounce are 4, contacts
  bounce for 15 ms. The caller is away for at most 125 ms (`PollMs` = 25), which
  is what a pass of most loops takes between two calls: a delay of 20 ms, 5 ms in
  `driver_get_state`, and a send that times out after 100 ms. The operator
  changes one contact every 190 ms (`HoldMs` = 38), and here the value matters.
  It is the bound of `LongHold`, under which the theorem holds: two times of
  debounce, two of sampling, the time between two calls, and a bounce. One unit
  less (185 ms) and `NoFlicker` fails: one button may bounce when it is sampled
  for the second time because another one started the delay, so a button that
  has just been reported may be taken for released for one pass. Some absences
  are longer: an interval of procedure 0 (up to 1023 ms), the end of a procedure
  (up to 2.34 s, from the last reading in procedure 0 through the interval, the
  final delay and three sends that time out). The theorem covers them with
  `PollMs` set to that, and the bound is then about 2.4 s. In a run of procedure
  2 with interrupts that follow each other without a pause the delays of the
  debounce stretch with all others, and no such bound is known.
- `Board`: the times are those of the code, in ticks of half a second, which
  neither the delays nor the reports divide: delays are rounded both ways, and
  no tick passes without an event of its 251 ms.
- `Hid`: two devices with two interfaces, four handles: a device opened twice
  while the first handle is in use, several interfaces on one handle.
  `HidParser`: three items of every length and kind, cut off at every byte.

Fairness. `Tester!FairSpec` is weak fairness of the main thread: the processor
runs. The operator, the timers and the watchdog owe nothing, so the liveness
properties are conditional on the buttons. `Time!FairSpec` adds that timer 0
counts, that a pending interrupt comes once interrupts are enabled again and
again, and that the main loop goes on polling (`main.c:99`). `Link!FairSpec`
says the same of the USB interrupts, lets the main thread advance between
interrupts (an AVR executes an instruction after each `reti`), and has the host
start frames, as a host does on a bus it has not suspended; it does not have the
host fetch anything. `MCPeripherals!FairSpec` has the running timer count and
the main thread finish a call of `pwm.c`; the processor run the request handler
and the host go on with a transfer it has begun, or end it (it owes no new one).
`MCDriverCalls!MCSpec` has time pass and the processor read inputs, and the caller,
which may ask for the buttons only, ask for all groups again and again
(`main.c:83`), which takes strong fairness since it is away in between. That an
AVR executes an instruction after each `reti` is also why the main thread
advances, if slowly, when the interrupts of timer 3 leave it nothing else.

Deadlock is checked in every run.

Properties, by what could go wrong:

- *The motor*: `QuietBetweenRuns`, `StartsAsAnnounced`, `ImplementsHBridge`,
  `ReleaseStops`, `ButtonStops`, `ReleaseReturns`, `MotorRunIsBounded`,
  `OverrunIsLow`, `SettledIsRegular`, `DutyTakesEffect`.
- *What the host is told*: `PeriodIsReported`, `SettingsAreApplied`, `FinalReport`,
  `Timeline`, `LossIsCounted`, `BoardIsHeardInTime`, `DataIsExact`.
- *Interrupts*: `ArmedOnlyInRun`, `DarkOnReturn`, `Sections`, `CallbackIsWhole`,
  `ImplementsClock`, `OnlyTxEndpoint`, `LossIsNoticed`, `NeverBothWait`,
  `HandlerReturns`.
- *Inputs*: `NoFlicker`, `PressIsSeen`, `PotsAreTheirOwn`.
- *Arithmetic*: `FinestClock`, `CompareBelowTop`, `IsCcitt`.
- *The host's library*: `ClaimsMatchList`, `HandlesMatchList`, `UsageIsFound`.

Three of them hold by little. `BoardIsHeardInTime` holds of a board that the
reader has heard once: a board that boots (two seconds, then eight of the
watchdog) can be silent for exactly the reader's ten seconds. From then on the
gap is at most the watchdog, a report and the rounding of two ticks (the
theorem). `NoFlicker` needs the 190 ms above. `OverrunIsLow` depends on `stop` leaving the
waveform mode as it is: with the mode bits of TCCR3B cleared (`Timer3!StopAll`)
the registers are no longer buffered, and the output can be high with the
counter above its compare value.

## Disagreements between the code and what is said of it

Four runs end in a counterexample.

- `driver_duty`: `pwm_enable` multiplies TOP and duty in 16 bits (`pwm.c:132`).
  From a period of 9 us on the product can wrap, and the output is not the
  `pwm_duty / 1023` that the debug reader prints (`main.c:102-105`): with a
  period of 100 us and full duty the compare value is 31 of 800.
- `time_rate`: timer 0 is set to a compare value of 0xFA (`time.c:69`), 251
  counts of 4 us, and is called a 1 KHz counter (`time.c:65`). After 250 ticks a
  millisecond is missing.
- `link_suspended`: `usb_rawhid_send` has a timeout (`usb_rawhid.c:488`) that
  only the start of a frame counts down. If the host suspends the bus while both
  banks are full, it never returns by itself. In a run of the motor the program
  then waits, powered, until the watchdog resets it. The run assumes the same
  fairness as `link_live` but for the frames.
- `link_reset`: `USB_GEN_vect` reads UDINT and then clears all of it
  (`usb_rawhid.c:732-733`). A bus reset that arrives between the two is lost,
  and `usb_configuration`, said to be zero when not configured
  (`usb_rawhid.c:229`), stays set with every endpoint off. The window is a few
  cycles, and the interrupt that is cut must have been held up since the last
  frame before the reset, as `USB_COM_vect` does while it waits for the host
  (`usb_rawhid.c:829-831`). The model has no durations, so it does not say how
  likely that is.

Others were met while reading and modelling, and have no run of their own; where
they change a state the models have them as the code does.

- `hid_close` (`hid.c:365-377`) counts the device it is closing among those that
  use the handle, so it never closes a handle; the kernel does at exit.
  `HandlesMatchList` says that no handle is closed under a listed device or
  opened in vain, and does not notice this leak, which nothing written of the
  library contradicts. `hid_close` clears `usb` and leaves `open` set, so a later
  call for that device passes a null handle to the library (`Hid!Crash`).
- `rawhid_send` is documented to return -1 on an error (`hid.c:136`) and hands
  on what the library returns (`hid.c:145-147`).
- A long item of a report descriptor has three bytes in front of its data, and
  `hid_parse_item` skips five and one more (`hid.c:310`), so what follows a long
  item is read three bytes off. `UsageIsFound` therefore speaks of descriptors
  of short items, and of long items says only that nothing behind the end is
  used.
- The reader prints `log_msg` although the firmware never fills it, from an
  array that nothing initialises (`main.c:33`, `main.c:127-133`).
- Procedure 0 reads inputs for as long as its button is held, and starts when it
  is let go (`procedure_0.c:35-57`). Nothing in the loop feeds the watchdog, so
  a button held for eight seconds resets the board before the motor has started.

## The proofs

The theorems hold for every value of the constants: any set of pot readings, any
bound of the clock, any byte size and event period, any width of a counter, any
timeout, any message and any descriptor. Every safety property that a run checks
is the statement of one of them. Each module of proofs names its inductive
invariant as a conjunction of parts, shows it by one lemma per action or group of
actions, and derives the properties from it.

**Driver** (`DriverLemmas`, `DriverCallsProofs`). `DriverInv` joins the types,
`PeriodIsReported`, `FinestClock` and `CompareBelowTop`. The lemmas about
`CsBits`, `SetPeriod` and `DutyCycle` follow the five clocks; each operation of the
driver preserves `DriverInv`. `CompareBelowTop` is the interesting one: the
product wraps, and the wrapped product shifted by ten is at most 63, which could
pass a small TOP; but with a small TOP the product does not wrap.

**Checksum** (`DriverCallsProofs`). `CrcInv`: `crc` is the checksum of the bytes
read so far. The division takes a bit in a step, the loop a byte, so
`ChecksumStep` has to show that the remainder of a message with a byte more is
one step of `crc16_ccitt` from the remainder of the message. The division is
linear, and a polynomial whose degree is low enough is not touched: the byte at
the end is added to nothing for as long as the message before it lasts
(`ByteWaits`), and the lower eight bits of the remainder are shifted through the
last eight steps (`LowByteWaits`). What is left is the higher byte and the new
one through eight steps of division, and that is an entry of the table.
`DegreeFalls` bounds the rest after each step. Two facts are assumed that the
provers cannot compute, `TableAssumption` and `BytesAssumption` (a byte has eight
bits, as `2^e` is defined); neither is about a constant that could be chosen, and
TLC evaluates both in full.

**Program** (`TesterProofs`). `IInv` is inductive: `TypeOK`, `DriverInv`,
`Discipline`, `Timeline`, `FinalReport` and `DarkOnReturn`. The invariants that
matter do not follow from themselves: that the motor is off at rest depends on
which step called `driver_set_direction` and with what arguments
(`CallIsSound`), on the output following the step (`OutputFollowsStep`), and on
the interrupt mask (`ArmedOnlyInRun`); that a start was announced depends on
what the last message showed since the buttons were read (`RunIsAnnounced`); that a run
has the duty and the period its procedure chose depends on what was chosen
before (`SettingsAreApplied`). What is announced includes the period, but for
procedure 0, which never fills it in.
From `IInv` follow `TypeCorrect`, `AlwaysQuietBetweenRuns`,
`AlwaysArmedOnlyInRun`, `AlwaysSettingsAreApplied`, `AlwaysTimeline`,
`AlwaysFinalReport`, `AlwaysDarkOnReturn`, `AlwaysStartsAsAnnounced` (an action
property) and `ImplementsHBridgeSafety`: each step of the program is a step of
`HBridge` or leaves its output alone.

Three more action properties of `TesterProperties` bound in steps of the main
thread what the liveness properties leave open. They speak of every step, so
they need no fairness and are proved: a brake ends with the next step
(`BrakesAreBrief`); the motor is off at most eight steps after the operator asks
for it (`MotorStopsSoon`); procedures 1 and 2 return within nineteen when
nothing is pressed (`ProceduresReturnSoon`). `StopsIn` and `ReturnsIn` count the
steps to go, from every step, in a call of `driver_set_direction` and with
buttons that were read before the operator let go, for which the loop goes round
once more. The program takes these steps if the processor runs, so together with
the weak fairness of `FairSpec` they give `ButtonStops`, `ReleaseStops` and
`ReleaseReturns`; that last inference is TLC's.

**Clock** (`TimeProofs`). The invariant is `TimeTypeOK` and `Sections`:
interrupts are off inside the calls, so what has been loaded stays equal to the
counter. `ValueIncrement` shows that adding one byte by byte with carries adds
one to the number modulo Base^4. `TimeImplementsClock` is the full refinement,
since `Clock` has no fairness.

**Timer 3** (`PeripheralsProofs`). `Timer3Inv` has the types, `SettledIsRegular`, and
three parts that the properties need: the timer stands while `pwm_enable`
changes it and is in the buffered mode from `pwm_init` on (`ModeIsBuffered`);
while the pin is high the counter is below the compare value or on it, about to
leave downwards (`HighIsBelow`, which gives `OverrunIsLow`); the two bytes of
the callback differ at one step, at which no interrupt can come
(`PointerIsGuarded`).

**Transport** (`LinkProofs`). `LinkInv` adds to the properties what ties the
host's history to the device: nothing is sent before the first `msg_init`
(`Sessions`), an endpoint that is off is empty (`OffIsEmpty`), a bank found free
stays free until the write (`RoomIsKept`), the report handed down is the message
as the counters stand (`ReportIsMessage`), and the last report of the chain
differs from the counters by as many numbers as errors, with one to come while a
message is on its way (`ChainIsCounted`). The proof of `AlwaysLossIsCounted` is
arithmetic modulo CountMod (`IncIsNext`, `ModSmall`) and a case for each way a
report enters, leaves or never reaches the endpoint. `SendAlwaysWindsDown` is
what a step may not do to a send under way: neither a retry nor an interrupt
gives it more time, each frame that is handled takes some, and once there is
none it has at most four steps left (`LastSteps`). So it lasts no longer than
`TxTimeout` frames if the bus has frames, which `SendReturns` adds and
`link_suspended` takes away.

**Reader** (`ReaderProofs`). `ReaderInv` bounds the silence: a reader that waits
for a board it has heard has waited no longer than the watchdog has counted and
one report (`GapIsShort`); and while a board boots, and is quiet, a reader that
has heard it holds a handle from before the reset, on which its call fails at
once (`BootIsQuiet`). `BoardIsAlwaysHeard` assumes `LongTimeout`: the timeout of
the reader is at least the watchdog, a report and two ticks. With the 105 ms of a
report and the shortest ticks there can be, 251 ms, that is 8607 ms, and the code
has ten seconds.
`MotorRunIsAlwaysBounded` needs no assumption: no action but the top of the main
loop and a reset takes the watchdog back, and there the motor is off.

**List of devices** (`ReaderProofs`). `HidInv`: handles are numbered as they are
given out (`HandlesAreNumbered`), so a new one is in no entry; the scan goes up
through the interfaces of a handle, so the interface it claims is not in the
list yet (`ScanIsInOrder`); no two entries are the same interface
(`ListIsASet`), so that closing one releases no other; `free_all_hid` has closed
all up to its place (`FreedUpToCount`), so that dropping the list drops no
claim.

**Control transfers and pots** (`PeripheralsProofs`). `ControlInv`: in the loop
the host has all up to the packet in the FIFO, in full packets (`LoopIsAhead`);
after it, a packet that is short or completes the request is in the FIFO until
the host has it (`LastIsSent`); a short answer is sent without the loop
(`AnswerIsDue`). `WaitInv` adds who has the next step at each stage of the
host's transfer: the SETUP packet is unread (`IsAsked`); the bytes of a report
that the host has yet to send are those the handler has yet to receive
(`IsTaking`); the status is to be sent or is in the FIFO, with the new address
set only afterwards (`IsEnding`); the host is through and the handler has what
it needs to come to its end (`IsDone`). `AlwaysSomeoneGoesOn` follows: the two
never wait for each other. `InputInv`: between the two conversions of a pot the delay that
is left completes the sample time (`ChannelSettles`), and a pot that was read
keeps its value while the other is (`PotsRead`).

**Buttons** (`PeripheralsProofs`). `PressesDoNotFlicker` assumes `LongHold`, how
long the operator leaves the contacts alone. `ContactsInv` says that the buttons were
reported as they are held, or as they were held before a change that is not
older than the way from the last report to this step, and a bounce
(`ReportIsRecent`; `Reach` is that way for each step). From one report to the
next it is at most two times of debounce, two of sampling and the time between
calls, so the last change has been reported before the next one, which is where
the bound comes from. What is left is a right report followed by a wrong one in
the same bounce. If no button was active before the change, the first sample
either misses it or starts a delay that outlasts the bounce
(`FirstIsSettled`); in the delay before the second sample, either the first
sample has seen the change or another button started the delay
(`SecondIsLater`), and then the change is reported too late to be taken back.

**Parser** (`ReaderProofs`). `ParserInv`: nothing behind the bytes received has
been used (`ReachIsReceived`), and the loop stands behind the first n of the
items received whole, with the page and usage that these say and no smaller
number that says enough (`IsBehind`). The loop works on bytes and the property
on items; `Places` says where in the bytes an item and its parts are, and
`SaidStep` what one item more says. The parser stops because the usage is
complete or because the next item is cut off, and both give `Found`. The bounds
on `reach` are proved for long items too.

**Recursion**. The provers instantiate no theorem that takes an operator, so the
induction theorems of the library are out of their reach. `SetInduction` states
induction for a set of numbers, as a consequence of the order of the naturals
being well-founded. From it follow that a recursive function exists
(`RecursionExists`) and so satisfies its equation, `Division` and `FlattenSeq`
among them (`FlattenIsJoin`, `FlattenPrefixes`), and that a bounded set has its
extremes (`Extremes`).

The assumptions on the constants are the `ASSUME`s of the modules; TLC
evaluates them.

Only model-checked: every liveness property (`ReleaseStops`, `ButtonStops`,
`ReleaseReturns`, `Heartbeat`, `SendReturns`, `DutyTakesEffect`,
`HandlerReturns`, `PressIsSeen`) and the fairness of `HBridge`, since the prover
does not reach `ENABLED`. `ImplementsHBridgeSafety` is the rest of that
refinement.

## What is not modelled

- Durations in `Tester` and `Link`: there the watchdog may reset the processor
  at any step. `Board` has them, and leaves out what `Tester` has.
- The current-sense reading, the switch `sw0`, which no procedure acts on, and
  the log text, which nothing writes.
- `usb_rawhid_recv`, which is never called; the contents of the descriptors;
  remote wake-up. Those are why `usb_rawhid.c` is `partly` modelled.
- The formatting of the debug reader, and how it prints the fields of a message.
- The set-up of ports and pins beyond what other modules look at.
- The simulator harness, the board definitions and the build files: they have no
  state. Of `board_def.h` and `avr_mcu_section.h` the constants that matter are
  in the modules that use them; the rest are names of pins and notes to the
  simulator.

## The plan

Done, in the order of their importance: the driver and its arithmetic, the
program, the clock, the transport; timer 3 under its counter, the checksum, the
inputs in time, the watchdog and the debug reader, the list of devices and the
parser, the control transfers; the proofs of the safety properties of all of
them.

What could follow: `Board` as a refinement of `Tester` with a clock, so that the
durations and the driver are in one model.
