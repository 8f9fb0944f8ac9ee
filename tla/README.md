# Bus Ninja: a TLA+ verification project

Bus Ninja (`src/`) is firmware for AVR microcontrollers that lets a person talk
to I2C and SPI chips from a serial console. This directory holds TLA+ models of
its parts, the TLC configurations that check them, and TLAPS proofs of the
results that hold for every size. The program itself is `src/src/`; source
references below are to that directory unless they say otherwise.

## 1. The system

One thread runs `driver_tick` (ninja.c:17) for ever: watchdog, UART, USB,
console, LED. Two kinds of code run beside it: interrupts (the tick timer, and
USB connect and disconnect), and nested calls, because a command that waits for
keys calls `driver_tick` itself while `console_tick` is on the stack. There are
no locks; the I2C and JTAG drivers mask interrupts while they toggle pins.

A character travels like this: UART register or USB endpoint -> `hw_uart_tick`
or `usbdev_cdc_tick` (which first asks `console_rx_ready_callback`) ->
`console_rx_callback`, which edits the line -> `console_tick` ->
`execute_command_line` (commands.c), which cuts the line into brackets and words
-> global commands, or the functions of the current bus (`bus_interface_t`) ->
`bus_i2c.c` or `bus_spi.c` -> the drivers `hw_i2c.c`, `hw_spi.c` -> the pins.

| Component | State | Operations | What is hard | Correct if |
|---|---|---|---|---|
| I2C bus mode, bus_i2c.c | `state`, `pending_data` | open, close, start, stop, write, read, scan | every operation is performed one token late, because the last read must be refused | the wire follows the tokens in order, one behind; errors release the bus |
| I2C driver, hw_i2c.c | `hold_bus`, pin directions, interrupt mask | init, bus_clear, start, stop, tx, rx | a slave that stretches the clock, sends, refuses, or is in a transfer after a reset; nested masking | frames are well formed, bytes arrive, `hold_bus` and the wires agree, calls return |
| Console, console.c | mode, `cmdbuf`, `got_line`, `got_key`, `last_key`, `putcf` | set_mode, rx, rx_ready, key_poll, tick | nested ticks, two inputs, USB interrupt | a line is what was typed and runs once; keys are seen once |
| Main loop, menu.c, command_bitbang.c | stack, `exitCount` | driver_tick and the waits below it; bitbang makes the pins of port B inputs | re-entrance; pins changed below the current mode | as for the console and the modes |
| USB serial, usbdev_cdc.c | connected flag, callbacks | tick, connect, shutdown, putc | callbacks change between test and call; output runs the USB task | the host is not left waiting; no request is handled within itself |
| USB modes, usbdev.c | `usbMode`, `connected` | usbdev_init, tick, events, control requests | the mode changes in steps, with the interrupt between them | a host meets one mode; flags follow the cable; a switch ends |
| UART, hw_uart.c | receive register | tick, putc | no flow control | as for the console |
| Command interpreter, commands.c, bus.c | `duplex`, `current_bus`, `outmode` | execute_command_line, handle_command, bus_init | state that outlives the line; optional function pointers | a line calls what it means, and only functions that exist |
| Parser, parse.c | none (pointers of the caller) | tok, tok_num, parse_number | 8-bit arithmetic, prefixes, words that are not numbers | words once and in order, numbers exactly |
| LED patterns, led.c | `cur_seq`, `seq_index`, `t`, A, B, duration, `step_timer` | set_seq, tick | the led command cuts in; 16-bit products; byte counter | steps in order, exact fade, steps end |
| LED output and tick, hw_led.c, tick.c | `ticks`, brightness | timer interrupt, tick_get | the counter is read in four bytes while the interrupt writes it | duty equals brightness, patterns go on |
| SPI mode and driver | SPI registers, chip select | open, close, start, stop, write, read, xact | chip select over mode changes; pins shared with I2C; a wait without limit | selected exactly inside brackets; a byte that is sent ends while the controller has its pins |
| JTAG device, jtag.c, usbdev_jtag.c | request and reply in one buffer, delay, reset lines | requests of the host, cable | the reply is written over the request; 16-bit lengths; replies that outlive a connection | pairs clocked as sent, replies as sampled, in order, each arrives |
| AVR ISP device, usbdev_avrisp.c | connected flag | control requests of a stub | it prints from within a control request | as for the USB modes |
| Watchdog, cpu | registers | reset | its time limit is shorter than some waits of the USB library | - |
| LUFA | vendored | | | external |

`PROJECT.json` lists all of them under `components`, and what is hard to test,
with the line where it bites, under `hazards`.

## 2. Modules

| Module | Models | Style |
|---|---|---|
| `BusI2c` | bus_i2c.c | one action per handler; a call of the driver is one event in the history `wire` |
| `BusPins` | `BusI2c` composed with bus.c's `bus_init`, bus_spi.c, hw_spi.c and the write of command_bitbang.c on the pins of a board | one action per handler; what a call leaves on the pins |
| `BusProofs` | | proofs about `BusI2c` and `BusPins` |
| `HwI2c` | hw_i2c.c and a slave on two open-drain wires; the reset command | a call is the sequence of its statements, one action per statement |
| `I2cProtocol` | what hw_i2c.h promises of the wires, from outside | abstract specification; `HwI2c` implements it (`FollowsProtocol`) |
| `HwI2cProofs` | | proofs about both |
| `Console` | console.c, ninja.c's `driver_tick`, usbdev_cdc.c's receive loop, hw_uart.c's tick, menu.c, command_bitbang.c | one action per stretch of code that no interrupt can disturb |
| `ConsoleProofs` | | proofs about it |
| `UsbDevice` | usbdev.c, the callbacks of its three modes, LUFA's shutdown, reset and interrupt, and a host | one action per step of `usbdev_init` that the interrupt can come between |
| `UsbDeviceProofs` | | proofs about it |
| `Jtag` | usbdev_jtag.c, jtag.c, and a host | one action per half of the tick, per command, and per TAP clock |
| `JtagProofs` | | proofs about it |
| `Commands` | commands.c, bus_init, the function tables | one action per arm of the scanner's two states |
| `CommandsProofs` | | proofs about it |
| `Format` | the conversions of console.c, `bus_out` of bus.c | operators |
| `Parse` | parse.c and the argument loop of the test command, on typed lines and on what `Format` prints | one action per iteration of `parse_number` |
| `ParseProofs` | | proofs about it |
| `LedSequence` | led.c without its timer | one action per branch of `led_seq_tick`, one for `led_set_seq` |
| `LedTimer` | `LedSequence` composed with `led_tick`, tick.c and hw_led.c | one action per byte-wise read of the counter, one for the interrupt |
| `LedProofs` | | proofs about `LedSequence` and `LedTimer` |
| `MC...` | the instances for TLC | constants; `MCLedTimer` also holds the program's pattern table |

Definitions whose name extends another's (`WriteNextNoClear`, `FadeNarrow`) are
deliberate defects, used to show that each property can fail.

### How state and actions correspond to the code

* **BusI2c.** `state` and `pending` are the C variables, with the names of the
  enum without `STATE_`. `hold` is the driver's `hold_bus` as its callers see it.
  `typed` and `wire` are histories since the last address: tokens that came, and
  calls that were made. `Open`, `Close`, `BusStart`, `BusStop`, `BusWrite`,
  `BusRead` and `BusScan` are the seven functions of the interface; their cases
  have the names of the states (`WriteFirst`, `WriteNext`, `StopRead` ...). The
  slave's acknowledgement is chosen freely.
* **BusPins.** `shared` says whether the board's I2C wires are SPI pins (they are
  on the AT90USB162). `ddr`, `spe` and `cs` are the direction bits, the SPI
  controller's enable bit and the level of SS; `I2cToken` is a step of `BusI2c`
  with the wires as the last driver call leaves them (`EndsLow`). `waiting` is the
  loop of `hw_spi_write8`; with SS an input the controller may stop being a master,
  and it need not end. `Bitbang` is `DDRB = 0x00` of command_bitbang.c:15, in
  any mode and amid any transaction: the SPI pins become inputs, and with them, on
  the AT90USB162, SCL and SDA. The history `floating` holds the outputs it took away
  that nothing has set since.
* **HwI2c.** `mSda`, `mScl` are the direction bits, `ie` the interrupt flag, and
  `prog` the statements left of the running call; `MasterStart`, `MasterTx` and
  so on write the C functions down as such sequences. `Sample` is enabled only
  when SCL is high, which is the wait of `hw_i2c_read_bit`; `Poll` is another
  round of that wait. The slave is external: the device of the I2C specification
  at the address of `src/test/i2c/24LC16B.txt`, which may refuse a byte, stretch
  the clock in the slots `StretchAt` and send any byte of `Bytes`. `Callers`
  says in which order bus_i2c.c may call the driver; amid a read it may be clearing,
  opening or START that comes next (`aborting`). The history `astray` is set by such a
  START until the wires show a START or STOP condition. `CpuReset` is the reset
  command: the processor starts anew, the slave does not notice.
* **Console.** `pc` is the place in `driver_tick` and the functions it calls,
  `calls` the activations of `execute_command_line` on the stack (each waiting
  command runs the same ticks again). `plugged` is the USB state that the
  interrupt changes between any two actions. A callback pointer that is changed
  while the main loop loads its two bytes sends control to `pc = "wild"`.
  `typed` and `unread` are histories. `menu2`, `menu1` and `bitbang` stand for
  the commands that wait for two keys, for one (also dumpkeys), and for `+++`.
* **UsbDevice.** `usbMode`, `connected` and the modes' own flags are the C
  variables; `pc` is the place in `usbdev_init` (`shutdown`, `reset`, `detach`,
  `select`, `init`), `loop` the main loop. `state`, `irqs`, `pending`, `attached`,
  `eps` and `setup` are LUFA and the controller. `Interrupt` is the connect or
  disconnect, `Reset` the bus reset, both in the interrupt; a control request is
  answered in the main loop, in one step. A host asks for `Enumeration`, then
  what its driver for the described device asks (`Session`). `overrun` is a
  request handled within itself until the stack is full; a device there, and a
  host that has nothing left to ask, stop, so this run does not check deadlock.
* **Jtag.** `buf` is `usbBuffer`, with the request's bytes `Offset` cells above the
  reply's; `toHost` is `dataToHostSize`; `length`, `steps`, `outIndex`, `inIndex`,
  `outData`, `inData` are the locals of the three TAP loops, which differ in the
  delay and in the levels sampled at each clock. Bits are opaque, `<<i, k>>` being
  the k-th pair sent with request i or the k-th level sampled for it, so that a
  lost, repeated or misplaced bit shows. A host polls for its replies and may have
  `MaxWaiting` requests without one. It is a well-formed host: usbdev_jtag.c:176-190
  checks neither that a request fits into `usbBuffer` nor that one which asks for a
  part of a byte brings the byte (the 16-bit length would underflow), so both are
  assumed (`Request`, `RequestsAssumption`) and every property of this module, run or
  proved, is about such a host only.
* **Commands.** Characters are chosen as they are read, so all lines arise.
  `scan`, `word`, `firstToken` are the scanner's locals; `ahead` is the character
  that ended a token and is looked at again. `calls` is the history of the calls
  through `current_bus`. A command name and a number's digit are one character
  each: how numbers are spelled is the subject of `Parse`.
* **Parse, Format.** Characters are ASCII codes; `start`, `end`, `i`, `base`, `num`
  are the C variables. `digit_to_int` is computed modulo 256, the value modulo
  `Word`. `dump` is a list of bytes that `bus_out` has printed in some mode, and
  whose text is then the line. No build calls `bus_set_outmode`: the decimal and
  binary modes are reachable only in the functions themselves.
* **LedSequence, LedTimer.** Variables as in led.c; `current` is the step being
  played. `ticks` has a low byte with `Base` values and a rest with `Highs`; each
  `tick_get` reads the low byte, then the rest, with interrupts between. `pc` says
  which of the two `tick_get` of a round is under way.

## 3. What the runs check

| Run | Shows |
|---|---|
| `bus_i2c` | both bus modes on shared and separate pins. `OneBehind`: the wire is exactly one operation behind the tokens; `CompletesInOrder`: `]` catches up, and exactly the read before STOP is refused; `SlaveListening`: data only after an acknowledged START, with the bus held; `ErrorReleasesBus`; `WireTracksHold`: SDA is free between calls, SCL low exactly while the bus is held, and SPI is off where it shares them; `SelectedWhileOpen`: the chip select follows the brackets, and a byte under way has a controller that is on with its pins; both but for pins that bitbang made inputs |
| `hw_i2c` | well-formed transactions: `FollowsProtocol` (refinement of `I2cProtocol`), `HoldTracksBus`, `PeerListens` (what a call returned is true of the slave), `Delivered` |
| `hw_i2c_abort` | a read may be broken off (by clearing, opening, or a START), and the processor reset between two calls: `ClearFreesTheBus` (but for the time `astray`), and under fairness `CallsReturn`, with interrupts enabled |
| `console` | UART and USB together, nested ticks, a cable pulled at any step: `NothingThrown`, `LineFaithful`, `NoReentry`, `KeyFresh` |
| `console_usb` | the USB console alone: `LineHandled`, `HostNotStuck` under fairness |
| `usb_device` | a change of mode against the interrupt and a host: `OneIdentity`, `ConsoleDetached`, `FlagsTrackLine`, and under fairness `SwitchEnds` |
| `jtag` | requests of every kind, a host that may send ahead, a cable that may be pulled: `TapsAsSent`, `ReplyIsSampled`, `RepliesInOrder`, and under fairness `Answered` |
| `commands` | every line against a declarative meaning (`LineMeaning`), and `NoNullCall` |
| `parse` | `NumeralsOnly` and `EveryWordOnce` against reference definitions, `ReadsBack` (what is printed is read as the same bytes), `LineEnds` |
| `led` | `StepsInOrder`, `Linear`, `DutyCycle`, `Paced` (not sooner than STEP_TIME, not later than that and three rounds), and under fairness `GoesOn` |

Two runs show where code and text disagree; each violates one property:

* `bus_i2c_delayed`: a `[` inside a transaction drops the stored operation, so in
  `[0xA6 5 [0xA7 r]` the byte 5 is never sent.
* `hw_i2c_stop`: in `[0xA7]` no STOP condition reaches the bus if the slave's
  first bit is 0, although hw_i2c.h:86 says so.

Met on the way, and stated where a property has to except it:

* STATE_ERROR is "to stop any more bus traffic" (bus_i2c.c:19), yet every further
  token goes through a default branch that clears the bus again.
* After `s` inside brackets the next byte is clocked on a bus that nobody holds,
  and SCL stays low until the next START or STOP (history `scanned`).
* A reset amid a byte (reset pin, watchdog) can leave a slave that the one START
  byte of `hw_i2c_bus_clear` does not free; the reset command comes between calls,
  where it does.
* `bitbang` inside brackets: where the modes share the pins SCL goes up although the
  driver holds the bus, until its next call; and in the SPI mode SCK, MOSI and SS stay
  inputs until the mode is entered again, so that whoever pulls SS low makes the
  wait of hw_spi.c:33 endless (history `floating`).
* `[0xA7 r [0xA6 5`: the START of the second address comes while the slave sends. If
  its bit is 0 there is no START condition: it goes on sending under the address, its
  acknowledgement slot gets whatever bit falls on it (a 0 makes it send another byte),
  the driver may take one of its bits for an acknowledgement, and clearing the bus
  afterwards need not free it, in spite of hw_i2c.h:54 (history `astray`).
* Words with two prefixes are read in the second one's base, so `hb0` is binary
  (parse.c:44, `TwoPrefixes`). Bytes printed by `console_puthex8` have no prefix
  and are not read back.
* Keys that come faster than a command polls overwrite each other (console.c:82);
  bitbang's exit counts ticks, not `+` keys (command_bitbang.c:21).
* A slave that stretches the clock where the driver does not wait (writing bits,
  the master's acknowledgement) loses clock edges, which is why `StretchAt` of the
  passing runs holds only slots in which `read_bit` runs.
* A connect interrupt between `usbdev_cdc_shutdown` and the end of `USB_ShutDown`
  gives the console back to `usbdev_cdc_putc`; in the ISP mode, which reports from
  within control requests, the next request is then handled within itself without
  end (history `late`). A disconnect during `usbdev_init` is discarded (history
  `missed`): `connected` stays TRUE until the cable is pulled again.
* `jtag` is defined as a command (global_commands.c:292) but not in the table.
* JTAG: a reply that is not fetched before the bus is reset goes to the next
  connection (history `stale`); with two requests under way, a reply is lost if
  the host fetches the one before it between the halves of a tick (history
  `piped`); a TAP request without data clocks one stale pair and has no reply.
* LED: a `step_timer` within two rounds of the counter's largest value may never
  be passed, and the pattern stops; a read at a carry is off by up to 2^24 ticks;
  a brightness with its highest bit set is shown for one tick more.

### Bounds

* `bus_i2c`: five tokens after an address (`MaxTokens`): every state is left and
  entered again with every answer; bytes even and odd, so that both directions
  occur; both kinds of board; any number of changes of mode and of bitbang. The theorems have no
  such bounds.
* `hw_i2c*`: eight bits per byte, five bytes (the slave's two addresses, a
  foreign one, data that begin with 0 and with 1); transactions of any length,
  the state space is finite without a bound.
* `console*`: lines of two characters (`LineMax`) and three typed (`TypedMax`),
  so that a line overflows; two or three bytes waiting (`QueueMax`) against a
  burst of two or three (`Burst`), so that Enter can be followed by more input in
  one burst; `exitCount` wraps at 4 (`Wrap`).
* `commands`: all lines of up to five characters of an alphabet that has each
  class of character the scanner tells apart, one line after another, from every
  bus and duplex flag. Five hold `{2]2`, `2:2`, a switch and a comment.
* `parse`: all lines of up to four characters, which hold each prefix with two
  digits, and two words; `Word` is 256, so that three hexadecimal digits wrap.
  Printed bytes: each of the 256, followed by 0 or 100, in every output mode.
* `led`: patterns of one and of two steps of one and two ticks, the brightness
  0, 1, 2, 253, 255 among them; a counter of two digits of four values
  (`Base`, `Highs`), which carries and wraps; a round of the main loop takes
  one or two ticks (`RoundTicks`), STEP_TIME is 2. The theorems are about every
  table, and `TableAssumption` checks that the program's is one of them.
* `usb_device`: five events (`MaxEvents`), so that there are two changes of mode
  and the cable is pulled and plugged in during each.
* `jtag`: three requests (`MaxSent`), two of them under way (`MaxWaiting`): enough
  for a reply to meet the next request and the next connection. TAP requests of
  0, 3, 8, 9 and 18 pairs, in a buffer (`Size`) where the reply of the last one
  reaches cells of the request; the theorems have any size up to 256, with which
  the reply's size just fits its byte.

### Fairness

* `hw_i2c_abort`: weak fairness of the processor's statements and of the slave
  letting SCL go. The first holds because nothing preempts the driver for ever
  (interrupts are masked); the second is the assumption the code itself makes:
  it waits without timeout.
* `console_usb`: weak fairness of the main loop, `main` being `while(1)
  driver_tick()`. Nothing is assumed of the host, the cable or the keys.
* `usb_device`: weak fairness of the processor (the interrupt, `usbdev_init`, the
  task) and of a host that resets and enumerates what attaches. Commands, the cable
  and further resets are not fair.
* `jtag`: weak fairness of the main loop and of the host's polling; estick hosts
  poll until they have the reply.
* `led`: weak fairness of the timer interrupt and of the main loop.
* `parse`: a sequential function goes on.

Deadlock is checked in every run but `usb_device`.

## 4. What is proved

With TLAPS, for every value of the constants that satisfies the named
assumptions. Every safety property that a run checks is a theorem. Each proof
finds an inductive invariant, shows that every action keeps it, one lemma per
action or group of actions, and reads the properties off it.

* **BusProofs** (any set of bytes, any number of tokens, any set of boards). Of
  `BusI2c`: `TypeCorrect`, `ListeningCorrect`, `ErrorCorrect`, `OneBehindCorrect`,
  `LastReadCorrect`, `CompletionCorrect`. `TypeOK` is inductive, and each of the
  other invariants is inductive relative to it (`ListeningStep` to `LastReadStep`);
  `BusInvariant` is their conjunction. The action property `CompletesInOrder`
  follows from `BusInvariant` in the state before `]`: `OneBehind` says that only
  the stored operation is missing. Of `BusPins`: `PinsImplementBus`, that every step
  with the SPI mode in between is a step of `BusI2c` or leaves it alone, so that its
  theorems hold on the pins as well (`PinsListeningCorrect`,
  `PinsCompletionCorrect`); `WireCorrect` and `SelectionCorrect`, whose invariant
  says in which mode which pins are outputs, or were until bitbang, and who holds them.
* **HwI2cProofs** (any number of bits per byte, any set of bytes, any address). The
  statements left of a call are a suffix of its program; the invariant names for
  each suffix what the wires, the slave and the sampled data are there (`Place`,
  in `IInv == WiresAre /\ Registers /\ Running`), so that a step is a step from one
  place to the next. With well-formed transactions and a slave that stretches the
  clock only where the driver looks at it again (`Textbook`): `HwI2cTypes`,
  `HwI2cHolds`, `HwI2cPeer`, `HwI2cDelivers`, and `HwI2cFollowsProtocol`, the step
  simulation of `I2cProtocol`. With reads that are broken off and resets
  (`Breaking`): `HwI2cClears` and `HwI2cBreakingDelivers`. There the slave may be
  sending while the driver begins a transfer that it does not see; `LagPlace`
  says that it then counts the bits of the START byte one ahead (`Lag`), takes its
  last bit for a refusal, and leaves before the STOP. After a START amid a read
  even that is lost, and both theorems except the time `astray`; but that time must
  be shown to end soundly. While it lasts the slave drifts (`Drifting`: it sends, or
  is off), and only the driver's own wires are known at each statement (`BlindPlace`).
  `DriftDrive` says that each change of them is then a mere edge, which leaves the
  slave drifting, or a START or STOP condition, which ends the time with the slave
  where the invariant `AnyPlace` has it. The invariant needs a slave
  that does not hold SCL while it sends: `hw_i2c_bus_clear` does not look at SCL, and
  with reads broken off and `StretchAt = {"sendData"}` TLC finds `ClearFreesTheBus`
  violated. So `Breaking` allows `slaveAck` only, as the run `hw_i2c_abort` does.
* **ConsoleProofs** (any keys, line length, burst, queue, with or without a
  UART): `ConsoleTypes`, `NothingIsThrown`, `NeverReentered`, `KeysSeenOnce`,
  `LinesAreFaithful`. None is inductive. The invariant adds what the code relies on
  silently: `StackInv`, that at most one activation is on the stack and that one
  there means key mode (so the nested `console_tick` finds no line to run) except
  between its start and its end; and `PendingInv`, that in the USB loop between
  asking `console_rx_ready_callback` and delivering the byte nothing can finish a
  line. Without the second, the race that `console_rx_callback` guards against
  could not be excluded. `LinesAreFaithful` is about the recursive function
  `LineOf`; it rests on `EditPushes`, that one more character typed edits the line
  as the callback edits `cmdbuf`.
* **CommandsProofs** (any alphabet, any table of command names, lines of any length):
  `CommandTypes`, `NoNullIsCalled` and `LineMeans`. The invariant of the first two adds
  `Undone`: the functions in `calls` are those of the bus with which the line began,
  which the global commands change only before the first of them. `LineMeans` needs
  `Scanned` on top of it: `calls`, `duplex` and `firstToken` are what the text read so
  far means if it ended there (`Searched`), where that text stops before the word in
  work, which begins after a separator (`Within`), and before a separator that is
  still to be looked at (`Between`). The step at the end of a word has two halves.
  The scanner's: one more word or bracket appends what it means and changes nothing
  before it (`SearchedWord`, `SearchedSeparator`, from `SameMeanings` and `ItemsEnd`).
  And the word's: what `handle_command` makes of it, which splits at the first colon
  that a number follows, is what it means, which allows one colon (`PartsAgree`,
  `WordsMean`).
* **ParseProofs** (any characters, lines of any length, any printed bytes, any word
  that holds a byte): `ParseTypes`, `WordsOnce`, `NumeralsAlone`, `PrintedIsReadBack`. The
  first two are from `IInv == TypeOK /\ AtWord /\ WordsSoFar`: between words the line
  is at a blank or an end, within one at its first character (`AtWord`), and the
  words reported are those that end before it (`WordsSoFar`); `WordsApart`,
  `NextWord` and `OneMoreWord` say that what `tok` finds is the next element of
  `WordsOf`. `NumeralsAlone` is from a second invariant on top of it, `Judging`: of a
  word in work, the characters read so far follow one of the `Notations` and
  `num` is their value modulo `Word` (`Follows`); `ModularDigit` moves the modulus
  through the multiplication, `DigitIs` shows that the subtraction in 8 bits sorts
  out every character that is no digit, and `GivesUp` that no other notation
  could take a word that is given up. For `PrintedIsReadBack` the
  further invariant `Source` says that the line is the one that was printed;
  `DecimalRead`, `HexadecimalRead` and `BinaryRead` show that each text is a numeral
  in one notation only, with the value of the byte, and `TextsAreWords` and
  `FirstTwo` that the two texts are the first two words reported.
* **LedProofs** (any table of at most 85 steps per pattern of 1 to 255 ticks, any size
  of the counter, any STEP_TIME): of `LedSequence`, `LedTypes`, `LedStepsInOrder`,
  `LedLinear`. `TypeOK` and `StepsInOrder` are inductive together. `LedLinear` rests
  on `FadeExact`: for t < duration the two products are at most 255 times (duration -
  t) and 255 times t, so their sum is at most 255 * 255 and no 16-bit operation
  wraps. Of `LedTimer`: `TimerImplementsSequence`, from which `TimerStepsInOrder` and
  `TimerLinear` follow; `LedPaced`, from `Pacing`, which bounds the distance of the
  two halves of `tick_get`, of `step_timer` and of the counter (`NotEarly`,
  `NotLate`); `LedDutyCycle`, from `Lighting`, which counts the lit ticks by the
  highest bit of the counter's place (`Counted`). `TimerInvariant` is the three
  together.
* **JtagProofs** (any buffer of 2 to 256 bytes, any offset, any number of requests, of
  a host that is well formed as `RequestsAssumption` has it): `JtagInPlace` (the loops
  fetch only what the request brought and write only below it), `JtagTapsAsSent`, `JtagReplyIsSampled`,
  `JtagRepliesInOrder`, and `JtagTypes`, the type invariant, whose bounds of the indices
  rest on that assumption. The invariant says where the loop is: `Indices` and
  `Progress`, that both indices are functions of the number of clocks, so that the
  one that writes is never above the one that reads; `Unread`, that the cells still
  to be read hold the request; `Samples`, that the cells written and `in_data` hold
  the levels so far; `Ready`, that a reply which waits is complete. `ShiftByte` and
  `DownByte` say what the shifts do to a byte. The order of the replies adds `Ordered`
  (replies sent, reply at hand and request in work are in the order of the
  requests) and `Owed` and `Active` (what the host waits for is what is still in work,
  unless a reply was left over or overtaken).
* **UsbDeviceProofs** (any default, any commands, with and without a UART, any
  number of events): `UsbTypes`, `UsbOneIdentity`, `UsbConsoleDetached`. The
  invariant adds that the controller is off and no host served while the mode is
  selected (`Switching`), what a host can have asked (`Asked`, `Present`), and where
  the console may lead to the serial port (`Output`). `UsbFlagsTrackLine` is for a
  table whose commands select one mode, as the program's: with commands that lead
  back to a mode that was left, the flag of that mode is stale. Its invariant says
  how the flags (`Flags`) and the serial port's callbacks (`Callbacks`) stand at each
  place of `usbdev_init`.

Recursive functions (`LineOf`, `NumberOf`, `Meaning`, `ValueIn`, `PutDec`) need induction. The
library's induction theorems cannot be instantiated here, so these proofs go by
least counterexample: `Least` (every set of numbers that is not empty has a least
element, from the library's `WFMin`) yields that the function exists, and from
then on its equations are used.

The type invariants of `BusI2c`, `Console`, `LedSequence`, `Jtag` and `UsbDevice`
are proved and not checked by a run of their own.

Only model-checked: the liveness properties, which rest on fairness and ENABLED,
outside the proof system's reach.

## 5. What is not modelled

* Wall-clock time: the watchdog's 30 ms, delays of the drivers.
* Text output beyond the conversion of a byte, logging, echo, help, version: no
  state depends on them. Descriptors and line encodings are constant tables.
* Values of bytes on SPI, and the levels of port B that `bitbang` prints.
* In `HwI2c`, changes of the wires that the driver does not make: bitbang amid a
  transaction, or the SPI mode on the same pins, move SCL and SDA below it. `BusPins`
  has both, up to what the pins are between two calls; what a slave then makes of
  the edges is in no module.
* JTAG requests that do not fit the buffer or ask for a part of a byte they do not
  bring: the code does not refuse them, and nothing is said of what it then does.
* LUFA is vendored; its endpoints, transfers and class driver are modelled as
  usbdev.c and the modes use them. A control request is one step: what happens when
  the cable is pulled within one is the library's affair.
* The hardware variant of hw_i2c.c is disabled by an `#error`; bus_commands.c is
  prose in no build.

## 6. Plan

Done: the input path, the I2C path down to the wires, the bus modes on their pins,
the USB modes, the JTAG device, the parser and the LED, and proofs of all of these.
What is next:

* `I2cStack`, the handlers of `BusI2c` that drive the wires of `HwI2c`, so that the
  order of calls which `HwI2c` assumes (`Callers`) becomes a result, and that stack
  as an implementation of `BusI2c`; with it, bitbang amid a transaction on the wires.

## 7. Running

In this directory: `tlc -workers 2 -config MCBusPins.cfg MCBusPins`, and so on for
each run of `PROJECT.json`; the longest (`commands`) takes about a minute.
`tlapm HwI2cProofs.tla` takes about ten minutes, `tlapm ParseProofs.tla` three, the other proof modules
(`tlapm BusProofs.tla` and so on) take less.
