# A TLA+ model of ostis

ostis is an Atari ST emulator: a C program that runs the guest's 68000 code one
instruction at a time and lets the machine's other chips have the cycles the
instruction took.  It is single threaded but for the SDL audio callback and a
SIGHUP handler.  What makes it hard to get right is not parallelism but order:
dozens of small state machines share interrupt lines, latches and counters, and
the guest may touch any of them between any two of their steps.

This directory models the parts where that order matters, checks them with TLC
and proves the main results with TLAPS.  Paths below are relative to the
repository.

## Inventory

| Component | State | Operations | Interacts through |
|---|---|---|---|
| Main loop, exceptions (`cpu.c`, `main.c`) | SR, `stopped`, prefetch word, `exception_pending[]`, `interrupt_autovector[]`, HBL and VBL latches, `reset_cpu` | `cpu_run`, `cpu_step_instr`, `cpu_do_exception`, `cpu_set_interrupt`, `cpu_do_reset` | polls the chips after every instruction; SIGHUP sets a flag |
| MFP interrupts (`mfp.c`) | GPIP, AER, IER, IPR, ISR, IMR, VR | register writes, input edges, `mfp_do_interrupts` | `cpu_set_interrupt`; GPIP 4 (ACIA), GPIP 5 (FDC, HDC); Timer B counts display-enable edges |
| MFP timers (`mfp.c`) | `precnt`, `timercnt`, control and data registers | control and data writes, `update_timer`, `mfp_do_timerb_event` | cycles of the pass; sets IPR |
| Keyboard ACIA (`acia.c`) | control, status, receive register | register accesses, `acia_rx_data` | GPIP 4; `ikbd_write_byte` |
| Keyboard processor (`ikbd.c`) | byte queue, command parser, mouse and joystick modes | host events, command bytes, `ikbd_do_interrupt` | `acia_rx_data`, polled every 10000 cycles |
| Host events (`event.c`) | none but saved states for the function keys | SDL events to key, mouse and joystick calls | `ikbd_queue_*`, `state_*` |
| Instruction set (`cpu/*.c`) | registers, condition codes | one function per instruction | bus, `cpu_set_exception`, `cpu_prefetch` |
| Clocked core (`cpuinstr/`, `cpu.c` from 961 on) | state, microcycles, operand and prefetch of one instruction | `cpu_step_cycle`, the handlers, `ea_begin_*`, `ea_done` | as above; a second core behind a switch, in which only some instructions are clocked |
| Bus (`mmu.c`, `ram.c`, `rom.c`, `cartridge.c`, `mmu_fallback.c`) | module table, screen address, LOAD | reads and writes of three sizes | bus and address errors |
| Clock queue (`clock.c`) | list of delayed callbacks | `clock_delay`, `clock_step` | MMU and shifter callbacks |
| GLUE (`glue.c`) | line and pixel counters, mode | `glue_clock`, `glue_set_sync`, resolution | HSYNC, VSYNC, DE, IPL latches |
| Shifter (`shifter.c`) | shift registers, palette, resolution | LOAD, `shifter_clock`, register writes | screen buffer |
| FDC (`fdc.c`) | command, track, sector, status, timer | register writes, `fdc_do_interrupts` | GPIP 5, DMA, floppies |
| DMA (`dma.c`) | address, sector count, mode | register accesses | FDC, HDC, RAM |
| HDC (`hdc.c`) | command bytes, status | command bytes | GPIP 5, DMA |
| Floppies (`floppy*.c`) | image, side, track | sector reads and writes | FDC, PSG port A |
| PSG (`psg.c`) | registers, envelopes, sample buffer | register writes, sample generation | SDL audio thread |
| Saved states (`state.c`) | sections of the other components | collect, restore, compress | every component |
| RTC, MIDI, screen, prefs, debugger | stubs, output and tools | | |

### What makes each component correct

- Exceptions: the highest interrupt wins, none is entered that the level masks,
  the vector used is the one of the request, STOP ends by an exception, an
  opcode is prefetched whenever one is fetched.
- MFP: nothing in service is interrupted from below, no request is lost or
  entered after it was withdrawn, a request that stays wanted is served.
- Timers: exact count, no drift.
- ACIA and keyboard: bytes in order, lost only when the queue is full, one
  interrupt for each byte, never a byte left behind.
- Clock queue, GLUE, shifter: every delayed call made once and in order, every
  line and frame ends, LOAD follows DE.
- FDC, DMA, HDC: a command that was accepted ends once, in its time, and its end lowers
  the shared line and requests the interrupt; the sectors asked for move, from and to where
  they were asked for, and nothing else does.
- Clocked core: an instruction leaves what it leaves in the other core, takes the cycles of
  its table, and hands a prefetched opcode to the next.
- Sound: the callback never reads samples that are being written.
- Saved states: restore after collect is the identity on what is collected.

## Modules

| Module | Models |
|---|---|
| `Mfp` | the MFP's interrupt registers; a register pair is the set of interrupt numbers whose bit is one |
| `Cpu` | pending exceptions, level, STOP, prefetch, latches and the entry of an exception |
| `Machine` | `cpu_step_instr` and `cpu_run` over `Mfp` and `Cpu` for any guest; safety and liveness properties |
| `MCMachine` | values of `Machine`'s constants for TLC |
| `MfpLoop` | the loop of `mfp_do_interrupts`, one source at a time |
| `MfpTimer` | one timer: prescaler, counter, writes |
| `Ikbd`, `Acia` | the keyboard processor and the ACIA |
| `Keyboard` | the two with the MFP source they interrupt through, for any guest and for an interrupt-driven guest |
| `LossyChannel` | what the keyboard path promises: an ordered channel that loses bytes only when full or reset |
| `Glue` | the GLUE's counters, modes and events |
| `Video` | the clock queue, the MMU's LOAD and the Shifter, cycle by cycle |
| `DelayedCalls` | what the clock queue promises: each call in its cycle, once, in order |
| `MCVideo` | the lines of the modes, for TLC |
| `Alu` | arithmetic and condition codes: what each instruction computes, once for all sizes |
| `Instr` | registers, memory, effective addresses, and an action for each instruction that moves or computes |
| `Guest` | branches, calls, frames, MOVEM and MOVEP; the guest program as a whole |
| `Programs` | guest programs whose result a reference decides |
| `Results` | what each of them must have done |
| `MCResults` | their operands, for TLC |
| `Floppy` | drives, heads, raw images and the transfers between image and memory |
| `Disk` | FDC, DMA and HDC over `Floppy` and the MFP's input 5 |
| `DiskGuest` | any guest on them: one access, then the polls; safety and liveness properties |
| `DiskDriver` | a driver that serves requests through them, with an interrupt handler that meddles |
| `BlockStore` | what the disk system promises a driver: requests that move runs of sectors |
| `MCDiskGuest`, `MCDisk` | their constants for TLC |
| `Clocked` | the clocked core over `Guest`'s programs, a call of a handler at a time |
| `Equivalence` | that the clocked core is the other one, spread over the clock |
| `MCClocked` | every clocked instruction with every operand, for TLC |
| `*Proofs` | theorems |

### The main loop

`Machine` has a control point `at`.  From `instr` one instruction runs:
`Ordinary`, `RaiseException` (TRAP, illegal, line A and F, division by zero),
`LoadSR` (MOVE to SR, RTE), `StopInstr`, an access to an MFP register or to a chip
behind a GPIP line, the NOP of a stopped CPU, or an unimplemented opcode.  Every
one may meet bus and address errors, which only mark an exception pending.
`DoCycles` gives the chips the instruction's cycles: the GLUE may latch HBL and VBL
and count a Timer B event.  `CheckPending` is `cpu_check_for_pending_interrupts`:
timers, the pass over the sixteen sources, falling GPIP inputs, the latches.  At
`scan` the pending exceptions are taken in the code's order (`Rank`), one per
action, because each changes the level that the next one is tested against; a
bus or address error is all that a step takes.  `NextRound` is the end of the
loop body, with `cpu_do_reset` when SIGHUP asked for it.

The guest is any program: any instruction may be next, with operands from the
constants.  RTE loads any status register of `SRValues`, because the stack is the
guest's.  Vectors, addresses and registers are left out; a source stands for its
vector.

`Mfp!Served` gives in one expression which sources a pass hands over.  `MfpLoop`
is the loop of the code, source by source, and starts from every content of the
registers; `MfpProofs` proves that the expression is what it computes.

`MfpTimer` counts in units of 1/313 MFP clock, as the code does.  `ideal` is a
prescaler that never loses a tick, `loaded` and `since` record what the counter was
loaded with and how often it has counted since.

### The keyboard

A byte is named by its packet and position, so that order and loss can be told
and codes cannot.  `Keyboard` runs rounds of guest access, MFP pass and keyboard
poll in the order of `mmu_do_interrupts`.  `Spec`'s guest accesses the ACIA and the
MFP in any order, writes of GPIP included (`DriveLine`): those store any byte over the inputs
(`mfp.c:187`), and the history `quiet` says that none has changed the level of input 4 yet; `DriverSpec`'s enables everything once and then reads in its
interrupt handler: read the byte, clear the in-service bit, return.  That driver is
guest code, modelled from how the emulated chips are meant to be used.

### Video

`glue.c` looks at every even count and does something at about ten of them, so a step of
`Glue` goes from one named count to the next (`Stops`).  The counts, lengths and line
numbers are the code's, not scaled down: whether they fit each other is what is checked.
`SetMode` may happen at any named count: between two of them the order of a change and of
the beam's movement makes no difference, because no mode acts there.  History variables record whether the frame has kept one mode
and what it has raised so far.

`Video` takes display enable as an input, held for the length a mode gives a line, and
runs the rest of `clock_step` in its order: callbacks that are due, GLUE, MMU, Shifter.
The queue holds relative delays as in the code.  `clock_step` reads `next` from the
element it has just freed; the field lies behind the bytes that the C library's allocator
reuses for its own lists and nothing is allocated in between, so the model reads it intact.
A word is its number modulo 8, which tells any two words that can be in the Shifter at
once; pixels are counted, not coloured.  The guest changes resolution between lines only.

### The instruction set

`Alu` has the flag functions of `cpu.h` under their own shape (`SetSub`, `SetAddx`, ...) and
an operator for each computation, which takes the number of values of its size; the code
repeats it for bytes, words and longs.  `Instr` and `Guest` have an action for each file of
`cpu/` that user programs execute: operand fetch, register updates of `(An)+` and `-(An)`,
result, flags, memory, next instruction.  Instructions are records, addresses in the program
are positions, timing is left out and nothing faults; DIVU and DIVS by zero end the program
in the handler.

A single instruction restated proves nothing, so `Results` judges programs: sums of two
digits, comparisons followed by Scc, DBcc and Bcc, copy loops, a recursive function with
frames and MOVEM, division undone by multiplication, shifts by a count against as many
shifts by one, rotations against their inverses, bits copied one at a time.  The reference is
arithmetic on whole numbers, and never uses the flags' definitions.

TLC's integers have 32 bits with a sign, so in the run a word has 15 bits (`WordBits`) and the
upper byte of a word in memory 7: bytes are real, words and longs are shorter by one bit and
two.  The arithmetic does not depend on it; `CoreProofs` proves it for every even number of values.

### The disks

A round of `DiskGuest` is one access of the guest and the polls after it, in the order of
`mmu_do_interrupts`: the MFP's pass, then the FDC (`Poll`).  The cycles of a round are
chosen from `Cycles`.  The guest may write GPIP with line 5 low or high, whatever the controllers
have made of it (`mfp.c:187`); the history `driver` says whether the FDC, the HDC or the guest gave
the line its level last.  Sectors move at once when a command is written, as in the code; what
takes time is the end of the command, at which GPIP 5 falls.  `mode` is what the bits of
`dma_mode` select, a command is named by what it does, and a block of memory is a sector: the
low byte of the DMA address is zero and the middle one even.

`DiskDriver` is guest code, modelled from how the chips are meant to be used: select the drive, seek,
check the track register, toggle the direction, set count, address and sector, write the
command, wait for the line, read the status.  While it waits an interrupt handler deselects
the drives, writes registers and commands to the busy controller and changes the mode.  That
this implements `BlockStore` says that the sectors asked for move and no others, wherever
a request crosses a side, a track or the end of the disk, and that success is told only of
floppy requests that moved as a whole; a hard disk tells it of requests that moved nothing, too.  Only one request at a time is made: with two units at once
the shared line tells neither, which a lock has to exclude.

### The clocked core

A step of `Clocked` is one call of a handler by `cpu_step_cycle`; the cycles between two calls
only pass and are added up in `cycles`.  `ucode`, `upc` and `ucycles` are the state of
`cpuinstr/ucode.c`, and `Microcode` has the tables of `cpuinstr/ea.c` entry by entry: how many
of a table's entries run is counted by whoever starts them (`ReadCycles`, `AddressCycles`), as in
the code.  `fetched` counts the words of the current instruction that were read, so that
`Here` is `cpu->pc`.  `cpu_prefetch` and `fetch_instr` assert that nothing, and that something,
was prefetched; a step whose assertion would fail is not enabled, and `ClockStops` finds the
program stuck there.  Instructions that are not clocked run as in `Guest`, in one step.

`shown` is the machine after the last whole instruction.  `Equivalent` (in `Equivalence`) says that it moves as
`Guest` does: a refinement whose abstract step is an instruction.  `Tabled` and `Bus` are the
tables above the handlers, cycles and order of accesses, written from the tables and not from
the handlers.  `Slips` and `ShortTaken` name the instructions whose handlers contradict them:
`AsTabled` is about the others; that the tables are not right about these is shown for MOVEM by
`MovemTimes`, which is violated, and listed for the rest under Findings.

## Runs

| Run | Shows | Bounds |
|---|---|---|
| `irq` | types; no vector overwritten, withdrawn or stale when entered; the scan complete and in order; prefetch; HBL wakes STOP | sources 6 and 13, all masks, both end-of-interrupt modes, HBL and VBL, SIGHUP, no access faults |
| `faults` | vector and request paired, service never interrupted from below, top source served and postponed request entered, when faults postpone entries | sources 8 and 13, bus and address errors everywhere, tracing, unimplemented opcodes |
| `timer` | exact time and exact count | dividers 4 and 10, event mode, counter of 5 values |
| `kbd_path` | the path implements `LossyChannel`; no byte on a low line, until the guest drives the line itself | queue of 2, keys, reports of six bytes, resets, any byte written to GPIP |
| `kbd_irq` | handler always finds a byte; no byte is left behind | queue of 2, keys, joystick, six commands |
| `glue` | the assertions of `glue_clock`; whole lines and frames; frames go on ending | all modes, changed anywhere; WS = 0 |
| `video` | every word loaded, copied and drawn once; calls in time | lines of PAL and NTSC (low, medium) and monochrome in any order; WS = 0, 2, 3 |
| `guest` | sums, orders, copies, calls, divisions, shifts and bits come out right; programs end | words of 15 bits; operands 0, 1, the middle and the end of each size, every condition, counts 0, 1, 3, 8, recursion to depth 3 |
| `disk` | the shared line, the time a command takes, its interrupt, and that a guest sees the line fall | any accesses; one block of memory and disk, times as in the code (512 cycles, rounds of 256 and 512); GPIP written with line 5 low or high |
| `disk_driver` | the driver implements `BlockStore`; requests are answered | two requests; 2 tracks, 2 sides, 2 sectors, 3 blocks of memory, 3 of hard disk, one of two drives inserted |
| `clocked` | as in the other core; as tabled where the handlers follow their tables; never stuck | every clocked instruction, operand and size, operands as in `guest`, every condition, lists with and without their base; five programs of `guest` |
| `movem_times` | violated: the cycles that its table and its test give MOVEM | as `clocked` |

Two sources are enough for the pass because what it does to a source depends on
the sources above it only through whether any is in service or open; the theorems hold
for any number.  The two lie in different register halves, since
a byte write changes one half.  A queue of two is already shorter than three of the
six packets, so that partial packets occur.  The timer's counter has five values in
place of 256; the wrap at zero and both reloads occur, and the theorem covers every
width.  In `disk` data are left to `disk_driver`, which in turn has no masks and edges; a
command there ends after two cycles, and rounds take one or two, so that both outcomes of
comparing before counting occur.  Requests of up to three sectors from every sector cross every
boundary of a disk of eight.  In `clocked` each task is one behaviour, so every operand is
tried alone, and the mixed programs try clocked instructions after whole ones and before.

The `guest`, `disk_driver` and `clocked` runs do not check deadlock: their programs and
requests come to an end.

### Findings

These were met in the code.  The models do what the code does, and the properties leave
these cases out where they say so.

- With automatic end of interrupt the pass hands every open source to
  `cpu_set_interrupt`, which has room for one vector (`cpu.c:402`): all but the last are cleared
  and never entered.  `NoRequestLost` is about software end of interrupt.
- At 60 Hz, the mode at power-up (`mmu.c:330`), the VBL is tested on line 263 of a frame whose
  lines are 0 to 262 (`glue.c:139`, `glue.c:145`): the guest gets no VBL.  `FrameIsComplete` asks
  for one at 50 and 71 Hz.
- With WS = 1 the last LOAD of a line schedules `set_counting` while DE is still on, and the
  call comes after the Shifter has stopped counting (`shifter.c:368`): the next line is out
  of step and words of it are thrown away.  Run `video` has the other three phases.
- `cpu_do_exception` clears `stopped` before it tests the level (`cpu.c:168`).  HBL and
  VBL in one step: VBL is entered, HBL stays pending, and when the VBL's handler stops
  the CPU with the level at 4 the pending HBL ends STOP with no exception taken, though
  `cpu.c:138` leaves it pending.
- After an unimplemented opcode `main` calls `cpu_run` again and `fetch_instr`'s assertion fails
  (`cpu.c:84`, `cpu.c:230`), so `PrefetchReady` is about guests without such opcodes.
- A write to the ACIA's control register stores it without looking at the interrupt line
  (`acia.c:108`), so the interrupt-driven guest enables the interrupt before anything arrives.

Of the disks:

- The timer of a command is tested before it is counted down (`fdc.c:251`), so its end comes a
  poll late; `EndsInWindow` allows two rounds.
- The last parameter byte of a read or write of the HDC lowers the line (`hdc.c:106`), also while a
  command of the FDC holds it up: that guest sees a command end which has not.  A guest's write of
  GPIP stores whatever it is (`mfp.c:187`): the line may read low during a command, or high
  without one until the next ends.  `LineFollowsCommand` says that the line is otherwise what the
  command makes it, and `EndRequests` is about commands that end with the level the FDC gave the
  line (`driver`).
- The hard disk's byte offset has 32 bits, so that the upper bit of a block number is lost
  (`hdc.c:37`), and a read of no sectors succeeds wherever it begins (`hdc.c:38`).
- Parameters after a command for another controller are counted but not stored, so the
  next command runs with blank ones and reports success (`hdc.c:96`).  `BlockStore` lets a hard
  disk's request move nothing; only a floppy's success means that all was moved.
- A seek to the track behind the last is accepted (`floppy.c:62`); the driver compares the track
  register.  The last sector of an image is never read or written (`floppy_st.c:28`), which is
  `Last` in `BlockStore`.

Of the clocked core:

- NOT sets the flags of its operand (`cpuinstr/not.c:64`), the other core those of its result;
  `Equivalent` leaves its steps out.
- MOVEM finds an indexed address with the size of the index the wrong way round
  (`cpuinstr/ea.h:80`), `cpuinstr/ea.c` the right way; the run has indices that are equal in both.
- ADD.L and SUB.L to a data register take 2 cycles less than their tables say from memory and 4
  less from a register or an immediate, which takes 8 (`cpuinstr/add.c:41`).
- NEG.L, NEGX.L, NOT.L and CLR.L of a data register take 8 cycles, their tables say 6 (`cpuinstr/neg.c:26`).
- MOVEM takes 4 cycles more than its table, 2 with an index: MOVEM.L D0-D3,(A0) 44 for the 40 of
  `cpuinstr/movem.c:184` and `tests/test_ccpu_movem.c:113`; run `movem_times`.
- The first of the two words after a taken branch is not read (`cpuinstr/bcc.c:123`), though the
  table has both (`cpuinstr/bcc.c:57`).  MOVEM with an
  empty list moves one word (`cpuinstr/movem.c:262`), through a pointer left from an earlier list;
  lists in the model are not empty.
- `cpu_fetch_instr` clears the cycles that an exception has asked for (`cpu.c:964`).

Of the instructions the models do what the code does and the properties leave these out:

- SLT never holds: it combines flag masks with `&` (`cpu/scc.c:117`).
- ABCD and SBCD between registers write the source register (`cpu/abcd.c`, `cpu/sbcd.c`), set Z
  where the result is not zero, and SBCD leaves a wrong digit when it borrows.
- V of ASL looks at bits that are right for bytes only; N of ROXL and ROXR is taken with
  decimal masks (80, 8000); Z and N of shifts in memory are taken before the result is complete.
- MOVEM from `(An)+` with An in its list keeps what it loaded.
- The smallest long divided by -1, and counts of 32 and more, are undefined in C.

## Fairness

`cpu_run` never waits, so `FairSpec` has weak fairness of `Step`, the process's own
next step; SIGHUP and the guest's choices get none.  Liveness properties about the
guest carry what they need of it as a premise: that it keeps returning below level 6,
that scans without a bus error keep coming.  In `DriverSpec` the process keeps running
(weak fairness of the guest's and the emulator's steps together) and a poll that can
deliver does so at some time: `ikbd_do_interrupt` polls whenever 10000 cycles have
passed, and a byte that finds the register empty at one poll does so at the next,
since only a poll fills it; at every poll point within a round the step may or may not
be late enough, which is why the fairness is strong.

`FramesRecur` assumes weak fairness of the GLUE's clock: `cpu_do_cycle` calls it for every cycle
of every instruction.  The guest may change the mode for ever.

`LineFalls` and `RequestsEnd` assume that the loop goes on (weak fairness of `Next`) and that polls
come; `RequestsEnd` also that the driver is not kept from its next access for ever by its interrupt
handler (weak fairness of its own steps).

`ClockStops` assumes weak fairness of `cpu_step_cycle`, which `cpu_run_clocked` calls in a loop.

`ProgramsStop` assumes weak fairness of the guest's next instruction, which `cpu_run` executes.

## Proofs

Constants are arbitrary but for the named assumptions in `Mfp`, `Cpu`, `Machine`,
`MfpTimer`, `Ikbd`, `Keyboard`, `Glue`, `Video`, `Alu`, `Floppy`, `Disk`, `DiskGuest`,
`DiskDriver`, `Clocked` and `Results`, which say what kind of values they are; that of `Clocked`
(`CodeAssumption`) says that a clocked instruction of a program has one of the operands its
`*_instr_init` function enters the handler for, and that of `Results` (`TaskAssumption`) that the
programs are those of `Programs`, with any registers and bytes.

- `MachineProofs`: `TypeCorrect`, by cases on the steps; for every guest, faults included, `AutovectorCorrect`,
  `RequestOutranks`, `DisabledCorrect`, `ScanCorrect`, `HighestFirstCorrect`.  They follow from
  `EntryInv`, which adds to the properties what holds between the pass and the
  entry: a request waiting at the CPU outranks everything in service, and what the
  scan has passed is masked.  The pass preserves it because `Served` never chooses a
  source below one in service.
- `PrefetchCorrect`, for guests without unimplemented opcodes: the word may be missing
  only while stopped or while the exception its instruction raised is pending, and
  the scan that follows takes one (`PrefetchInv`).
- `NoRequestLostCorrect`, `RequestStillWantedCorrect`, `ScanLeavesOnlyMaskedCorrect`, when
  accesses raise no faults: then the MFP's exception lives only inside one scan
  (`HandoverInv`), from the pass at a level below 6 to its entry.  With faults a handed-over
  source may be postponed, disabled meanwhile and entered all the same (`cpu.c:253`).
- `MfpProofs`, the pass: `LoopCorrect`.  The invariant says of the sources above `i` that they
  are treated as the closed form says, and of the others that they are untouched.
- `MfpProofs`, a timer: `InStepCorrect`, if no pass is longer than a period; `CountsDownCorrect`.
- `KeyboardProofs`: `LowLineCorrect`, for a guest that may write GPIP too, up to the first write that
  changes the line's level; `HandlerCorrect`, which needs that a pending
  request stands for the byte in the register and that the handler about to read has
  no second request (`DriverInv`).
  `ChannelCorrect`: the path implements `LossyChannel`, for every queue size and every guest.
  The channel is the byte in the receive register, if one waits, before the queue; `PathInv`
  says that the queue fits and that a register without a byte shows what was read last.

- `GlueProofs`: `TypeCorrect`, `RangeCorrect`, for any modes and any first count up to 54.
  `BeamInv`: until the first count 54 no end is set; from there on an end is a named count, not
  one at which any mode acts, so that the beam cannot pass it, and the end of a frame moves on
  its first line only.
  `FrameCorrect`: a frame that kept one mode has raised as many lines, rows and vertical blanks
  as the mode has (`FrameIsComplete`).  `FrameInv` says what a mode has set and counted up to
  where the beam is; a count that no mode acts on cannot lie between two steps.

- `VideoProofs`: `LoadsCorrect`, `GroupsCorrect`, `WordsCorrect`, `StartCorrect`, and
  `CallsCorrect`: the list of relative delays implements `DelayedCalls`.  They hold for every set
  of lines in which display is on for whole groups of sixteen cycles and off for a multiple
  of four cycles, 20 or more, if the first display enable is not a multiple of four cycles after
  power-up (`LinesFit`; TLC evaluates it on the lines of the modes).  The last condition is what
  WS = 1 breaks.  `VideoInv` counts cycles from the first LOAD of a line in groups of sixteen,
  and says for each cycle what the list holds, which word is loaded where, how many are counted
  and how many pixels are left; the cycles from DE to the first LOAD (four to six, by the phase of
  the MMU's clock) and those left of the line are its other parameters.  The list never
  has more than two calls, and its sums are those `DelayedCalls` keeps.

- `CoreProofs`, about operands of every even number of values: after a comparison the conditions
  tell both orders (`ComparisonDecides`); ADDX and SUBX with their X are exact, V and N included
  (`AddxExact`, `SubxExact`), and chain (`AddxChains`); NEGX is SUBX from zero
  (`NegxIsSubxFromZero`); ABCD of decimal bytes is exact (`AbcdExact`).  Each first writes the remainder
  as a case distinction on the operands, then the top bits as comparisons with half the size;
  what is left is linear arithmetic.

- `CoreProofs`, about the clocked core, for every word size (9 to 16 bits, `WordAssumption`), every
  program and memory: `TabledAlways`,
  what an instruction took and accessed when it ends is what the tables say, slips excepted
  (`AsTabled`); what it takes with its slip is `Timed`.
  That speaks of the end only and is not inductive.  `TimeInv` says of each state of each
  handler how much of the table lies behind it: while a table of `cpuinstr/ea.c` runs, that
  the entries before `upc` are in `cycles`, `accesses` and `fetched` and `ucycles` are left;
  in a branch or a MOVEM, which states are behind it, and of MOVEM that what is left in
  `transfers` and what was accessed make up its list (`TimeAlways`).  The entries that fetch,
  read and write are counted by a recursive function over the tables, evaluated on each of the
  eight, and the accesses of MOVEM by the length of its list, so that no induction is needed.
  A step then moves one entry, one state or one half from one side to the other, and the last
  leaves the whole table behind.

- `CoreProofs`, about what programs decide, for every word size and all operands: `OrderAlways`
  (`OrderDecided`).  `OrderInv` says at each instruction of the two programs what those before it
  have left; after the comparison, that the condition holds in `ccr` exactly if the relation does
  (`ConditionRelates`, from `ComparisonDecides`), which `Scc`, `DBcc` and `Bcc` do not change.
  The strings loop at most twice, so that their invariant names the pass they are in.

- `CoreProofs`, about what programs compute, for every word size and all operands:
  `ArithmeticAlways` (`ArithmeticExact`), from `SumsAlways` and `QuotientsAlways`.  Sums,
  differences and negations of two digits that pass X on are those of whole numbers with
  their condition codes, in registers and in memory, and those of decimal bytes are what decimal
  arithmetic gives.  `PairInv` says what the registers hold at each instruction, `ChainInv` which
  bytes in memory are done (the loop runs twice, so that it names the round), and `DigitsDone` and
  `DecimalsDone` put the digits together, from `AddxExact`, `SubxExact`, `NegxIsSubxFromZero`,
  `AbcdExact` and, where nothing is borrowed, `SbcdExact`.  A division puts out the quotient
  rounded to zero and the remainder with the dividend's sign, from which the program makes the
  dividend again, or V and its operand unchanged.  `DivInv` says what D2 and D3 hold at each
  instruction; that C's rounding division has a remainder below the divisor (`RoundedExact`)
  makes the product and the sum exact in their own size.  The smallest long divided by -1, which C
  leaves undefined, counts as an overflow, in the model and in the theorem.

- `DiskProofs`, for every geometry, time and access: `TypeCorrect`, which includes that no transfer
  leaves the image or memory; `LineCorrect`, with GPIP written by the guest as it likes; `WindowCorrect`, by an invariant that ties the
  timer to the cycles the command has run (the timer is what is left of the time, and one round
  may be on top of it); `EndsRequest`, from the order in which one poll clears `busy` and lowers
  the line.

- `DriverProofs`: `StoreCorrect`, the driver implements `BlockStore`, for every geometry, hard disk,
  set of requests and register contents an interrupt handler may write.  `DriverInv` says for
  each of the 21 accesses of a floppy request and the 12 of a hard disk request what the
  accesses before it have left in mode, count, address, registers and heads, and after the
  command that the sectors moved are the first ones the store would move, in its order.  The
  handler cannot disturb it, because what it reaches is ignored while the controller is
  busy or set again by the driver; the mode is, before the status is read.  That the
  sectors of a run are those of the store, across sides and tracks, is an induction over
  its length; it is made by looking at the first sector that differs, which exists because the
  numbers are well-founded (`WFMin`, whose parameter is a set).

Only model-checked:

- All liveness; TLAPS proves none under fairness.  `TopSourceServed` is about the highest source
  only: a lower one may be kept waiting by those above it.
- `LoopsAndCalls`, `ShiftsAgree` and `BitsAndBytes`: these programs loop or call themselves as often
  as an operand says, so that a theorem would have to bound the operands by memory and stack,
  and is an induction over the count; shifts, rotations and bits are recursive over the bits of a
  word besides.
- `Equivalent`, that clocked instructions leave what whole ones leave.  It does not hold for every
  task: a MOVEM with an index takes the other size of it (`ListAddress`), and an address beyond
  either end of the address space wraps in `Clocked` and not in `Instr`, whose tasks have none.
  A theorem would have to say which tasks avoid both.

The premise of `InStepCorrect` is a limit of the code: `update_timer` gives one tick per
pass.  A pass of more than 313 * d / 96 cycles for divider d, 13 for divider 4, makes the
timer late for good.

## Not modelled

- The bus's address decoding, instruction decoding and the timing of the first core; RESET, MOVEC,
  MOVE USP.  `Machine` has exceptions and interrupts without registers, `Guest` and `Clocked`
  registers without exceptions, so that nothing is said of the registers an access leaves behind
  when it faults (`cpu/ea.c:248`).
- Of the clocked core: exceptions between instructions, program-counter modes, and the cycles of
  the instructions it shares with the first core.
- Errors of the host's files; write track and force interrupt, on which the program stops; STX
  images with their own sectors; hard disk writes beyond the end of the file.
- The palette and the screen; mode changes within a displayed line, as far as the Shifter goes.
  `Machine` takes HBL, VBL and DE edges as inputs, and `Video` takes DE.
- The PSG's sound: its buffer is shared with SDL's thread without a lock, and what that thread sees
  is the compiler's and SDL's.  Saved states: a file of every component at once, which no model
  holds together.  RTC, MIDI, screen, debugger, preferences: no state that others depend on.

## Plan

All modules that the plan put first are there.  What would add most next:

1. DE of lines that change mode within the line into `Video`.
2. Faults of a single instruction with the registers they leave behind: `Machine` over `Instr`.
3. Exceptions between clocked instructions: `Clocked` under `Cpu`.
4. A buffer shared by the emulator and the audio thread, as atomic reads and writes.
5. Proofs: `Equivalent` for tasks that avoid what it names, and the copies of `Results` for counts
   that memory holds.
