# A TLA+ model of the beem emulator

beem emulates a BBC Microcomputer Model B: a 6502 and its bus, the 6522 VIAs, the
6845 CRTC and video ULA, the 6850 ACIA and serial ULA with a cassette, and a Qt
debugger around them. This directory models the parts where order, timing or a
second thread decide whether the emulator is right, checks the models with TLC and
proves the central invariants with TLAPS.

## 1. Inventory

| part | source | state it keeps | operations | talks to |
|---|---|---|---|---|
| Run control | `apps/beeb/src/beeb_worker.cc`, `libs/beeb/src/execution_engine.cpp`, `main.cc`, `debugger_window.cc` | three atomics: `state_`, `done_`, `reset_requested_` | the worker's loop `start_beeb()`; `pause`, `step`, `step_out`, `run`, `do_break`, `stop` on the UI thread | two threads, one engine; queued `paused()` signals |
| Execution engine | `execution_engine.cpp` | breakpoints, watches with shadows, step-out target, last watch report | `run`, `step_instruction`, table edits | ticks the board, is edited by the UI |
| Instruction history | `execution_engine.cpp` | a ring buffer of 100 records | record, read back | written by every instruction |
| Breakpoint manager | `breakpoint_manager.h` | three ordered tables | set, clear, clear all, save, load | signals to the engine |
| Board | `beeb.cpp`, `clock.cpp` | clock levels, stretch sequence, cached interrupt | `tick`, `reset`, `begin_time_stretch` | CPU, memory and all devices |
| ACIA | `acia_6850.cpp` | control, status and data registers, both shift registers, modem inputs | four register accesses, two clocks, CTS and carrier changes | CPU, serial ULA, interrupt line |
| UEF tape stream | `uef_tape_stream.cpp` | segments and a position | construct, `next_bit`, `at_carrier` | the cassette port |
| Serial ULA, cassette port | `2c198_sula.cc`, `cassette_port.cpp` | control register, dividers, tape counter, carrier lock, motor | register write, 16 MHz tick | ACIA, tape stream |
| Tape insertion | `beeb_worker.cc`, `beeb.cpp` | the owned port and the ULA's raw pointer to it | `load_tape` | UI thread against worker thread |
| 6522 VIAs | `6522_via.cpp`, `data_connectors.h` | ports, control registers, both timers, interrupt flags and a cached output | register accesses, 1 MHz tick, CA1 and CA2 | CPU, interrupt line; one-place mailboxes to keyboard, latch and CRTC |
| Keyboard, IC32 latch | `keyboard.cpp`, `IC32Latch.cpp` | two keys and two modifiers, the scan column, lights; the latched pins | 1 MHz tick, key press and release | VIA, UI thread |
| Host key events | `crt_window/vdu_view.cc`, `key_mapper.cc` | whether the event filter is installed | key and mouse events | keyboard |
| 6502 | `m6502.cpp`, `cycle_handler.cpp`, `opcodes.cpp` | registers, opcode and cycle, a temporary address | reset, sync, one cycle of one of about 150 opcodes | the bus |
| CRTC, video ULA, CRT | `6845_crtc.cpp`, `5c094_vula.cpp`, `crt.cpp` | counters, palette, shift register, beam | character and pixel ticks | DRAM, VIA |
| Memory | `beeb.cpp`, `dram.cpp`, `rom.cpp` | page table, contents | dispatch, load | CPU, CRTC, UI thread |
| Sound, ADC | `sound_76489.cpp`, `adc.cpp` | tone counters; a conversion countdown | writes, ticks | VIA, user |
| UEF parser, disassembler, windows | `libs/uef`, `libs/disassembler`, `apps/beeb/src` | files, text, pixels | parse, format, draw | everything above |

What is hard here. Two threads share the engine and the board with three atomics and
no locks. A chip's registers are updated from several places (CPU access, clock,
modem input) and their flags must agree. One-shot effects hang on clock edges that
are stretched at run time. Counters are 8 bits wide and compared for equality. And
the state that decides a test is often older than the test: watch shadows, the
interrupt cache, queued signals, a pointer that was tested. `PROJECT.json` lists the
hazards one by one with the line and the properties that cover each.

What makes each part correct: a pause is prompt and is kept, and every request of the
user is eventually served (run control); run() stops exactly where it should and
reports the truth (engine); manager and engine agree (breakpoints); one CPU access is
one device access (board); the status register describes the chip, and what is sent
is what is received (ACIA); the bits played are the bits in the file (tape); carrier,
lock and motor agree in three chips, and a tape is heard in full (serial ULA); the
cycles of the handlers add up to the instruction set, and every instruction ends (CPU);
the interrupt output is the flags and enables, a key that is down is seen and one that
is up is not (VIA and keyboard); frames have the lines and addresses the registers say,
the VIA sees every vertical sync and no field is lost on its way to the window (video).

## 2. Modules

`RunControl` - the worker thread and the UI thread. One action is one access to an
atomic together with the thread-local work up to the next. `wpc` and `upc` are the
places of the two threads in the code; `canGo` and `canPause` are the enabled states
of the debugger's buttons (Step, Step out and Run always change together);
`pausedEvents` counts queued signals. Whether an instruction hits the step-out
target, a breakpoint or a watch is a free choice. The history variables `late` and
`intent` are only read by properties. `RunControlProofs` holds the theorems.

`RecentInstructions` - the abstract history: a list of at most `Capacity` records.
`InstructionHistory` - the ring buffer and `instruction_history()`, shown to
implement it.

`ExecutionEngine` (with `MCExecutionEngine`) - extends `InstructionHistory`. One
iteration of `run()` is one action with its checks in the order of the code;
`check_watches()` visits an unordered map, so it may visit any set of quiet watches
before the one that triggers. `held`, `added` and `poked` are history variables. The
CPU is external: an instruction may write anything and go anywhere.
`ExecutionEngineProofs` holds the theorems about both.

`BreakpointManager` - the manager's and the engine's tables, the signals between
them, and the file as a sequence of lines of numbers. Conversions are modelled: a
number is reduced to the width of its type, a malformed one is absent.
`BreakpointManagerProofs` holds the theorems.

`BusTiming` - `Clock::tick()` and `Beeb::tick()` at the level of clock edges. The
set `clks` is the byte `clks_`; `stretch` is what is left of a stretch sequence,
which the code consumes from its end. CPU and devices are external.
`BusTimingProofs` holds the theorems.

`Acia` - the whole chip as one state machine. A character is a function from bit
numbers to bits. Word lengths, the counter width, the width of an int and the
divisors are constants, so that the wrap of the shift counters and the undefined
shift beyond the int (a nondeterministic word) happen on small instances.
`AciaHistory` adds what the CPU was shown and what was lost. `AciaClocks` adds the clocks
as the serial ULA supplies them, for liveness: `rs423` is the input it has selected,
which drives CTS* and stops the receive clock, and `quiet` says that the CPU writes neither
a format nor the SCR again; the machine sends or receives, not both at once. `MCAcia` and
`MCAciaFormats` instantiate the two. `AciaLoopback` wires the transmit
line to the receive line. `AciaProofs` holds the theorems.

`UefTape` - segments built from chunks and the walk over them.

`SerialCassette` - composes `Acia` and `UefTape` with the serial ULA and the cassette
port. A call of the ULA that makes two calls to the ACIA takes two steps; `stage`
keeps everything else out in between, as the single thread does. `divider` is the counter
that makes the receive clock of the 16 MHz clock and that every write to the SCR reloads.
`CassetteLoad` puts
two kinds of use on top of it: free use, where the CPU writes any register and tapes
are changed at any moment, and a load, where the chip is set up as the filing system
does it, for eight bits and no parity, and the whole tape is played. `TapeSound` is the reference: the sound of the
chunks one after the other, with no segments in it. `CassetteProofs` holds the theorems.

`OpCodes` - the table of `opcodes.cpp`. `CycleHandlers` - the handlers of each opcode
as a sequence of names: addressing modes that the code spells out for every opcode are
written once, and the 32 definitions `Handlers00` ... `HandlersF8` say which opcode
uses which. `M6502` - what each named handler does to registers, bus and memory, with
the arithmetic of `do_add_bcd()` and its kin as operators, `maybe_handle_sync()` with
the interrupt, `maybe_handle_reset()` and `do_cycle()`, which throws when there is no
handler. The memory answers in the cycle after the address. `InstructionSet` - the
6502 as a programmer knows it: one step is one instruction, one interrupt or one reset,
with no cycles and no temporary address. `M6502` implements it under the mapping that
keeps the registers and memory of the last instruction boundary.

`DataConnectors` - the mailboxes between chips: a provider's value is taken once, a
subscriber accumulates bits until it looks. `ViaConnections` declares those of the system
VIA. `Via` - register accesses, interrupts, timers and CA1 and CA2. IFR and IER are sets
of sources, with bit 7 as the flag `"IRQ"` in both, as the code stores it. `Keyboard` -
the scan on the worker, and `press_key()` and `release_key()` on the UI thread. The two
stores of `release_key()` are separate steps and, being plain stores that race with
the worker's reads, may be seen in either order. `SystemVia` - the microsecond of the
worker (keyboard, timers, latch, register access), vertical syncs, the host's key and
mouse events. `ViaProofs` holds the theorems.

`Crtc` - register writes and `generate_next_address()`, one definition for each of its
sections in the order of the code, and the address it puts on the bus. `Video` - the
clock the video ULA gives it (twice a microsecond, once, or not at all when the CPU
addresses the ULA), CA1 of the VIA, the CRT's fields and the hand-over of a field from
the worker to the UI thread. `VideoProofs` holds the theorems.

`PROJECT.json` maps every definition to the lines it models.

## 3. Runs

The bounds are the constants of the .cfg files. Deadlock checking is on everywhere but
in `cpu`, whose programs end.

| run | what it shows | bounds and why they suffice |
|---|---|---|
| `run_control` | `PauseLatency`, `PauseHolds`: however clicks, BREAK and closing interleave with the worker, a pause is noticed after at most one more instruction and stays. `StopEndsLoop`, `BreakServed`, `ResumeStartsRun`: stop, BREAK and resume take effect | 5 operations: every ordered pair of operations can fall into one instruction, with a pause and a resume around them; fairness below |
| `execution_engine` | `RunPassesNoBreakpoint`, `NothingUnreported`, `WatchReportIsTrue`; `ImplementsRecent`, the refinement of the history | two addresses, two cells, two values: a stale shadow needs a change and a change back; a history of two records fills and wraps, and the theorem is for every capacity; symmetry in all three sets |
| `breakpoint_manager` | `EngineMirrorsManager`, `SaveThenLoadRestores` | two addresses, files of two lines over numbers in and out of range, malformed and repeated |
| `bus_timing` | `AccessServedOnce`: a CPU access to a device, or to memory, is served exactly once however the clock is stretched. `InterruptIsSeen` | none: the 16 phases of the clocks are all there |
| `acia` | `TdreIsSafe`, `FlagsFollowRdr`, `IrqBitMirrorsLine`, `GapsAreShown`, `LossesAreShown` | words of one and two bits, one divisor: the flags do not depend on the number of bits |
| `acia_formats` | `TdrDrains`, `CharacterEnds` with the control register and the SCR rewritten in the middle of characters, once the CPU leaves both alone | words of one and two bits, counters that wrap at 4, ints of 3 bits, divisors 1 and 2, a break |
| `acia_loopback` | `ReceivedIsSent`: what arrives is what was sent, with no framing or parity error | all eight formats, three divisors, three characters (one in the RDR, one on the line, one in the TDR) |
| `cassette` | `LockMeansCarrier`, `StoppedTapeLosesCarrier` in free use; `PlaysTheTape` in both; `LoadIsFaithful`: a load gets every byte of the tape | lock after 2 bits; a short tape in free use; recordings of two blocks of two bytes with leaders at and above the threshold, gaps and trailers, and all pairs of chunks, empty ones included; divisors 1 and 4; a receive clock every 2 ticks, so that a write to the SCR can fall before it |
| `cpu` | `ImplementsInstructionSet`, the refinement; `TakesItsCycles`; `InterruptIsTransparent`; `SyncComes` | every documented opcode with operands and registers at the edges of page, zero page, stack and address space; binary sums over digits at the edges and all sums and differences of decimal bytes; three-instruction programs with interrupts and resets between any two |
| `system_via` | `IrqIsConsistent`, `LatchFollowsWrites`, `AnswerIsTrue`, `TableIsSound`, `HeldKeyInterrupts` | a behaviour follows one menu of accesses and keys (typing, mouse leaving, reading keys, lights, timers, syncs); timers of two binary digits, so that they expire and wrap within a few ticks; four columns, one without a key; three host keys for two places |
| `video` | `FramesAreRegular`, `DisplayIsTheScreen`, `FieldHasItsLines`: a settled picture is the one the registers describe. `VsyncIsSeen`, `NoFrameIsForgotten`, `PictureComesBack`: whatever is written and when | frames of 3 to 5 characters and 2 to 20 scan lines, interlaced and not, both clocks, screens that run over the end of their memory; any one or two register writes at any moment, and a boot from power-on |
| `step_races_run` | must be violated, see below | as `run_control` |

Five abstractions are bounds of their own. `carrier_bit_count_` is held just above the
threshold; the code's 32-bit counter would wrap after 41 days of carrier. The receive
divider counts `RxPeriod` ticks, 13 * 64 in the code and 2 in the run; it is uninitialised,
and begins anywhere within its period, where the code may begin at any 32-bit number and
so keep the first clock waiting longer. The transmit divider and the baud rates are left out.
The number of user operations is bounded in the runs
of `RunControl` and unbounded in its theorems. The counters of the CRTC wrap at small
moduli (`CharModulus` and its kin), so that a counter that has run past its register
comes round again within a run. The decimal reference of `InstructionSet` is for valid
decimal digits; what the code makes of others is not compared with anything.

### Disagreements between the code and what is said of it

One is a run that TLC must find violated, with the statement it contradicts quoted in
`PROJECT.json`:

* `step_races_run`: Step ticks the board on the UI thread while `run()` still does.

The following were met while modelling. The modules do what the code does, and no run
is kept for them:

* `main()` returns, and destroys the worker, without waiting for its loop (main.cc:119).
* `step_out()` tests `state_` and stores later; a reset in between makes it override
  RUNNING (execution_engine.h:37 "No-op unless currently PAUSED"). It reads the stack at
  SP+1 and SP+2 without wrapping inside page one (execution_engine.cpp:96).
* `do_break()` sets the request and pauses second: a worker that serves it in between
  leaves the machine paused after its reset; and Run right after BREAK hides the pause
  from `run()`, so that the reset waits (beeb_worker.cc:71 "interrupt any in-progress
  run()").
* A watched change back to a stale shadow does not stop `run()` (execution_engine.h:54),
  `resume()` does not clear the last report (execution_engine.h:67), and the newest record
  of the history is the instruction about to be executed (README.md:38).
* The sequence of a status and a data read that clears DCD is armed by the loss of the
  carrier (`carrier_dropped()`, acia_6850.cpp:629), where the tests have it armed by the
  return (test_acia.cpp:243 "armed by clear_dcd() (carrier return), not raise_dcd()", and
  278). After a status read with the carrier still missing, a data read alone clears DCD
  once it is back; no test does the two reads on both sides of the return.
* A loss of carrier answered by both reads while it lasts leaves DCD set when the carrier
  returns, until a master reset or another loss; acia_6850.cpp:91-92 says that the bit
  "remains high and will follow the input". `LossesAreShown` claims neither this nor
  the arming by the return, only what the code keeps: DCD is cleared by a data read with
  the carrier back and a status read since the last loss.
* `check_leds()` turns a light on when its pin is low (keyboard.cpp:152, 157), as the
  lights of the machine are wired; TestKeyboardLEDs.cpp sends TRUE to the pin and expects
  the light on, and FALSE and expects it off (15-17, 28-30, 34-46, 60-67, 81-111).
  `LatchFollowsWrites` fixes neither polarity: it compares a light with what `On`, the one
  operator that translates `check_leds()`, makes of the last write.
* The ACIA's interrupt changes outside the 1 MHz section (beeb.cpp:305 "IRQ state can
  only change here").
* ACIA: writing the TDR drops the interrupt of a character that waits in the RDR
  (acia_6850.cpp:459; test_acia.cpp:704 "The 6850 IRQ pin is level-sensitive"); a master
  reset leaves TDRE clear when it empties the TDR (test_acia.cpp:127), sets DCD when
  there is a carrier and clears it when there is none (acia_6850.cpp:91); disabling transmit interrupts or losing CTS leaves
  the interrupt asserted (acia_6850.cpp:339); RDRF is clear when an overrun becomes visible
  (acia_6850.cpp:61).
* The carrier count continues over a motor stop in RS423 mode (2c198_sula.h:75).
* Keyboard: a key is not stored "until [it is] released" (keyboard.cpp:164) when the
  host's SHIFT changes in between, because the release is mapped with the modifiers of
  that moment, nor when the mouse has left the window (vdu_view.cc:107). A match with the
  second key is overwritten by "not pressed" (keyboard.cpp:122-126); a column above 9
  leaves the last answer on the port; a second read of the port finds PA7 clear; a third
  key is dropped. `TableIsSound` and `AnswerIsTrue` name these cases and except them.
* VIA: timer 2 fires again each time its 16 bits wrap; a flag that is raised and
  acknowledged in one microsecond is never seen by the CPU.
* Opcode table: the cycles of LDA zp and LDA # are exchanged, LDA zp,X has 3 bytes, and ADC,
  AND and CMP (zp),Y are not marked as affected by pages (opcodes.cpp). A
  read-modify-write of an absolute address indexed by X takes 6 cycles where the table
  says 7, unless the page is crossed. Flags are 0 at power-on, and a reset does not set I.
* CRTC: a vertical sync of width 0 lasts one character, not 16 lines (6845_crtc.cpp:183,
  6845_crtc.h:87), and a horizontal one of width 0 is never produced; a pulse that follows
  another at once is said to continue "uninterrupted" (6845_crtc.cpp:690), but CA1 has been
  told of its end and is not told of the next; a vertical sync of one character is lost
  to the VIA at 2 MHz; an odd R9 in sync-and-video mode, or R0 = 0, never ends a frame.
  When the CPU addresses the video ULA the CRTC misses a clock (5c094_vula.cpp:174-185).
  `Regular` excludes the settings that make no picture.

### Fairness

`RunControl!FairSpec`: weak fairness of the worker, of a slot that has begun and of
the delivery of queued signals. The operating system schedules both threads and the
Qt event loop delivers what is queued; nothing makes the user act. `main()` is not
made to return. `AciaClocks!ClocksSpec`: weak fairness of the two clocks the
serial ULA supplies, of a CPU that has stopped writing formats and the SCR (`quiet`): each
write to the SCR reloads both counters (2c198_sula.cc:117, 124), so a CPU that writes
it again in time holds the clocks back for ever. The receive clock is supplied only while the
cassette is selected (2c198_sula.cc:193): a receiver that RS423 catches in the middle of a
character stays there, and `CharacterEnds` says nothing of it until the cassette is selected
again. The rest of the CPU, the line and the carrier are unconstrained. `CassetteLoad!LoadSpec`:
weak fairness of the 16 MHz tick, which counts the divider or clocks the receiver, and of
the rest of a call that has begun, in free use; that the CPU stops writing the SCR is the
premise of `StoppedTapeLosesCarrier`. `M6502!Spec`: weak fairness of the CPU's
tick; interrupts and resets may never come. `SystemVia!SysSpec`: weak fairness of the worker's
microsecond and strong fairness of a call that the UI thread has begun (the model lets the UI
thread take its steps only where the worker looks at the keys, a point that comes round every
microsecond; the thread itself can always go on); the CPU, the CRTC and the user are free. `Video!Spec`: weak fairness of the worker and of the queued call of `consume_frame()`,
which the event loop delivers, and strong fairness of the CRTC's clock: the CPU may address the
video ULA time and again, but not on every edge, since each access takes several of them and
is followed by a fetch from memory.

## 4. Proofs

The theorems hold for every value of the constants; `tlapm` checks them.

* `RunControlProofs`. `PauseIsPrompt` needs that the one late instruction can only be
  begun by a worker that looked before the pause: with `late = 1` the worker is inside
  the instruction or at the check that follows it, and everywhere else before `run()`
  in a paused engine `late = 0`. `PauseIsKept` needs where a pause in progress is,
  that a second compare-exchange is only reached with the engine not running, and
  that no reset is under way while the intent is to halt; both invariants tie `upc`,
  `wpc`, `caller` and `state` together.
* `ExecutionEngineProofs`. The ring buffer: the inductive invariant is `HistoryTypeOK`
  with "not full means that the head is the count and every slot below it holds a
  record", and "full means that every slot does"; each step is then modular arithmetic.
  `EngineRecords` says that the engine takes no step on the buffer that is not one of the
  history's, so that the refinement holds for the engine too (`EngineShowsRecent`).
  `RunPassesNoBreakpoint` and `NothingUnreported` are inductive with the type
  invariant; `WatchReportIsTrue` needs that every shadow is among the values its
  cell held while watched.
* `BreakpointManagerProofs`. `EngineFollowsManager`: any file of any length may be
  loaded, so what `load_from_file()` does is shown by induction over its lines.
  `SavedIsRestored` is the other induction: the lines saved from a table, read back into
  the cleared tables, rebuild it entry by entry, in the order in which they were written
  and whatever that order is. Induction over the naturals is stated for a set
  (`SetInduction`) and proved from well-foundedness, since an operator parameter
  is beyond the provers; a recursive function is related to the run it computes.
* `BusTimingProofs`. The clocks are a function of the phase, and what is left of a stretch
  is one of seven kinds, by when the next rising edge of the CPU's clock comes
  (`Left`); with it the access that is being stretched is known to be served on the way
  and not again. `InterruptIsSeen` needs how often the CPU's clock can have risen since the
  cache was brought up to date (`RisesSince`), a number of the phase.
* `AciaProofs`. One inductive invariant, the conjunction of the type invariant, the
  four properties and a bound of the clock count, preserved by each of the chip's actions.
  The properties of `AciaHistory` rest on it: a character that is dropped leaves the overrun
  pending or visible until the CPU has been shown it, and a latch that has moved on to the
  data register has seen a status read since the last loss (`NoLossIsHidden`). `LoopIsAcia` and `LoopedIsReceived` are about the
  chip with its line looped back. The receiver has taken the cell that is on the line,
  or the one before it, and at which of its clocks it takes a cell depends on when it
  confirmed the start bit; so the receiver's place in a character is a function of the
  transmitter's (`LineInv`). The two parity bits are related bit by bit, with no sum over a
  word, and a delivered character is found by its rank among those that were not lost.
* `CassetteProofs`. The count reaches the threshold in the same step as the carrier is applied,
  and the five places that reset one reset the other, or neither. `TapeIsPlayed`: by
  induction over the chunks, the segments laid end to end sound like the tape, and the
  place in the current segment is the number of bits played less the lengths of the
  segments before it (`PlaceInv`). `LoadsAreFaithful`: a tape on which every block comes
  after a leader can be read (`Reads`): each of its bits is a cell of the frame of one byte,
  or a mark, and in every cell of a frame there has been a carrier for as long as the lock
  needs; this is shown by induction over the chunks (`TapeIsRead`). The inductive invariant
  (`LoadInv`) then has three parts on top of the place and the lock: the serial ULA has
  counted the carrier bits there were and the cell of the reading is on the line
  (`LineInv`); the receiver has taken the cell on the line or the one before it, which of
  the two is a matter of the clock divisor, and holds the bits of the byte so far (`RxInv`);
  and the bytes that were over are those that were received (`GotInv`). Without the
  first, a receiver that starts in the middle of a frame cannot be excluded; without the
  second, what it has at the stop bit is unknown. `MachineHasTheChip`: what the cassette system does to the ACIA
  are steps of `Acia`, so the theorems of `AciaProofs` hold in it.
* `ViaProofs`. `Consistent` is inductive once it is known what the registers hold and that
  the CPU's accesses come from the menu; one lemma each for `update_irq_cache()`, `raise_irq()`,
  `clear_irq()` and `write_irq_enable()`. Bit 7 of IER, which the code sets with the
  enables, is why the cache must leave it out. `LatchWritesArrive`: a mailbox is emptied
  before it is filled again, because both are done in every microsecond. `TableStaysSound`
  needs what is pending on the UI thread: which keys its queue still releases, and what
  the table is between the two stores of a release, whichever of them is seen first.
  `AnswersAreTrue` follows an answer from the scan through the mailbox to port A.
* `VideoProofs`. `FieldsAreShown`: a field that waits has a call of `consume_frame()` queued
  after it. `SyncsAreSeen`: while a pulse lasts, the VIA has seen its beginning,
  or it has not been ticked since, and then too few characters have gone by to count two
  scan lines (`SyncInv`). One lemma for each section of `generate_next_address()` says what
  it does to the pulse, for every setting of the registers, every write in the middle of
  a frame and all moduli of the counters.
  The other three follow a frame through all counters. First each section of
  `generate_next_address()` has a lemma with what it changes and what it leaves alone, and
  `Tick` composes them. `Position` then says, for line `s` and character `n` of a frame, what the
  row, the raster and every flag of the end of the rows, of the adjustment and of the frame
  holds; it has three cases, a line of a row, of the adjustment, and the line that
  interlace inserts. A new frame puts the CRTC on position 0 from any state whatever
  (`FrameBegins`), and a character moves the position on by one (`LineGoesOn`, `LineBegins`): so
  one frame after the last write the CRTC and the history agree (`FrameInv`), and the frame
  is over after the lines the registers say (`FramesHaveTheirLines`). It needs the parity
  `odd_count` as well, which decides which of two interlaced frames is the longer one.
  `ScreenIsShown` adds what display enable and the address are at a position (`DisplayInv`):
  the address of a line is the start plus the characters of the rows above, modulo its 14
  bits, and what `latch_address()` makes of it is the byte of the rotated screen
  (`ScreenAddress`, `TeletextAddress`). `FieldsHaveTheirRows` adds the pulses. After a write
  any pulse may be under way with any count, or begin as another ends and so run to the width
  of its counter; such a pulse fades before the row of the next one (`Fading`, `StaleH`), from
  then on the pulses are where the registers say (`HInv`, `VInv`), and the beam's row is
  twice the horizontal pulses since the last vertical one, and one more in an odd field
  (`PixelInv`).

The assumptions on the constants are named in the modules that declare them. They say what
the source's types and tables do: registers and counters have widths, a menu's writes name
registers that exist (`MenuAssumption`, `MenusAssumption`), the key map and the key matrix
have columns and rows (`KeymapAssumption`, `KeyboardAssumption`), a menu of `Video` holds
what fits into the registers (`MenusAssumption`; `Fits`, `Writable`) and lines are counted up to
some number (`ScreenAssumption`), the tables of the
manager have addresses of a width (`ManagerAssumption`), a tape is a sequence of the
parser's chunks (`CassetteAssumption`, `RecordingsAssumption`), and no break is sent over a looped
line (`LoopbackAssumption`, as in the tests).

The proofs changed the models. Two `CASE` expressions, in
`generate_next_address()` and in the PB7 output of timer 1, had overlapping guards, of
which TLA+ may choose any and TLC takes the first: they are ordered now, as the code is. And
`VsyncIsSeen` had excluded lines of fewer than three characters, which turned out not to
be necessary. A load chose any control word, though the recordings have eight bits and no parity
and only the configuration of the run said so: the step that writes it now does. Four
attempts on `Video` failed because the property was false for settings that no run had, and each
of them is a fact about the code:

* A frame with more lines than the history counts has no length: `Regular` bounds it by
  `ScrBuffHeight`, which is any number in the theorems. With the 626 rows that are drawn,
  a PAL frame of 312 lines just fits.
* A screen of more characters than its memory shows bytes outside of it, because
  `wrap_output_addr()` subtracts once (6845_crtc.cpp:391-413): `OnScreen` asks that what is
  shown fits.
* Rows of more than eight lines show the first eight again, since `latch_address()` takes three
  bits of the raster: `ScreenByte` is asked for the raster modulo 8.
* A vertical pulse that begins as another ends does not restart its count and may last for
  the 16 lines of the counter, whatever R3 says. If the frame is not longer than that and
  a row, it may merge with the next pulse, and the field does not get its rows. The adjustment of a frame of 128 rows also has the number of row 0. `PulsesApart`
  excludes both.

Model-checked only: all liveness properties (`StopEndsLoop` and its kin, `TdrDrains`,
`CharacterEnds`, `StoppedTapeLosesCarrier`, `HeldKeyInterrupts`, `PictureComesBack`,
`SyncComes`), which the prover cannot take; and the three safety properties of `M6502`
(`ImplementsInstructionSet`, `TakesItsCycles`, `InterruptIsTransparent`), which uses `Bitwise`, a
module the prover cannot read. Every other safety property of a run has a theorem.

## 5. Not modelled

The page table with its ROM banks and the loading of code (the CPU has a flat memory, the
board counts accesses), the palette, shift register and pixels of the video ULA and CRT, the
cursor (`handle_cursor()` is never called), `Crtc::reset()`, `set_cb1()` and
`unsubscribe_port_a()` (no caller), the sound chip (not clocked), the ADC, the
transmit divider and the baud rates, the UEF parser, the disassembler and the windows; the reasons are in
`PROJECT.json`. Undocumented opcodes have no handler, and `do_cycle()` throws; `raise_nmi()`
is empty. Data races on the standard containers of the engine (breakpoints edited while
`run()` searches them), and a tape port freed on the UI thread while the worker uses it,
are undefined beyond any outcome a model could list.

Three properties say less than their names may suggest. `LoadIsFaithful` counts the characters
the receiver completes: one that the CPU has not read when the carrier drops is discarded
with RDRF (acia_6850.cpp:618). `DisplayIsTheScreen` compares what is shown with the registers,
skew included, so that with a skew the characters shown are shifted by it. `NoFrameIsForgotten`
has the store of a frame and the queued call after the unlock (vdu_view.cc:30-36) in
one step: only the worker runs the two, and the call it queues finds the frame stored.

## 6. Plan

1. Proofs: the properties of the CPU, once its arithmetic is written without `Bitwise`.
2. `MemoryMap`: page table, ROM selection and loading. `UefChunks`: the sizes the UEF
   parser computes (the bits of an explicit block may underflow for a malformed file,
   `explicit_tape_data_block.cc:12`), as input to `UefTape`.
