# supafaust in TLA+

supafaust is the SNES emulator `snes_faust` of Mednafen as a libretro core. This directory
models it: TLA+ modules translated from `src/`, TLC configurations that check them on
small instances, and theorems that TLAPS checks for every value of the constants.
`PROJECT.json` maps each definition to the lines it translates.

## 1. The system

One thread emulates. `retro_run` calls `EmulateReal` (snes.cpp), which runs the CPU until the
PPU's handler ends the frame. A second thread renders the lines the first one describes to it,
and a third reads the audio files of the MSU1 cartridge ahead. Everything else is sequential,
but not simple: the CPU runs ahead of all other devices by up to an instruction, and each of
them is brought up to date when an event is due or a register of it is accessed.

| Component | State | Operations | Talks to |
|---|---|---|---|
| Event scheduler (snes.cpp, cpu_loop_body.inc, cpu_hlif.inc) | sorted doubly linked list of device times, cached `next_event_ts`, running mask | `SNES_SetEventNT`, `EventHandler`, `ForceEventUpdates`, `RebaseTS`, `CPU_Run` | calls all devices' handlers; called by register writes |
| Interrupt lines (cpu.h, cpu_hlif.inc, cpu_loop_body.inc, ppu_common.inc) | NMI edge latch, IRQ level per source, one-access sample delay, WAI/STP | `CPU_SetNMI`, `CPU_SetIRQ`, NMITIMEEN, RDNMI, TIMEUP, the H/V timer | CPU loop, PPU, cartridge |
| DMA and HDMA (dma.inc) | eight channels, enable masks, CPU halt | `Write_420B/C`, `RunDMA`, `DMA_InitHDMA`, `DMA_RunHDMA` | PPU's line handler, CPU loop |
| PPU control (ppu_common.inc) | scanline, phase, counters, latches, register file | `PPU_Update`, register handlers, `PPU_StartFrame` | event list, DMA, renderer |
| Render command ring (ppu_mtrender.h/.cpp) | ring of commands, two published cursors, two semaphores | `MTIF_*`, `RThreadEntry` | emulation thread to render thread |
| Renderer (ppu_render_common.inc, ppu_mtrender.cpp) | copy of VRAM, CGRAM, OAM and registers | `MTR_Write`, `FetchSpriteData`, `RenderLine` | consumes the ring |
| Stream reader (MTStreamReader.h/.cpp) | byte ring, one pending command, two semaphores | `set_active_stream`, `get_buffer`, `advance`, the thread | MSU1 |
| MSU1 (msu1.cpp) | status flags, two deadlines, play position | registers, `Update`, save states | event list, APU clock, stream reader |
| Sound: APU, SPC700, DSP (apu.cpp, spc700.inc, dsp.inc) | own clock, 64 KiB, ports, timers, voices | `APU_Update`, port reads and writes | CPU ports, MSU1, resampler |
| 65816 (Core65816.inc) | registers | instructions | bus |
| Bus and CPU registers (snes.cpp) | an index of a handler pair for each address, read patches, WRAM port, multiplier | `Set_A_Handlers`, `Set_B_Handlers`, `CPUBus_Read/Write`, cheats | CPU, DMA, all devices |
| Input ports (input.cpp) | strobe, shift registers, multitap selection, the pads' buttons | $4016, $4017, `INPUT_AutoRead`, `INPUT_Set` | PPU (start of VBlank), front end |
| Cartridge board (cart.cpp) | image, header found, ROM and RAM windows, bank registers | `CART_Init`, bank writes, state | bus, chips |
| SA-1 (cart/sa1.cpp) | second 65816, message and interrupt flags, DMA, BW-RAM windows, bit reader, multiplier | registers of both sides, `CPU_Run`, `Update` | CPU's IRQ and NMI lines, event list, bus |
| SuperFX (cart/superfx.cpp) | registers, pipeline byte, code cache, pixel caches, bus ownership | GO, STOP, `Update`, instructions | IRQ line, event list, bus |
| CX4 (cart/cx4.cpp) | two program cache pages, stack, data RAM, DMA, busy flag | registers, `Update`, instructions | event list, bus |
| DSP-1, DSP-2 (cart/dsp*chip.h) | a coroutine's place, its arguments and results | one data port, `Run` | event list, bus |
| S-DD1 (cart/sdd1.cpp) | bank registers, armed channels, decoder | registers, reads of DMA | bus, DMA registers |
| Settings (settings.cpp, string.cpp) | values sorted by the hash of their names | set, get, translate | front end, all at load |
| Save states (state.cpp) | the sections being written or read | `MDFNSS_SaveSM`, `MDFNSS_LoadSM`, `MDFNSS_StateAction` | every device's `StateAction` |
| Streams (FileStream, MemoryStream, ExtMemStream) | position, buffer, contents | read, write, seek, lines | states, game loading, MSU1 |
| Threads and semaphores (mthreading) | count, waiters, exit values | post, wait, timed wait, create, join | ring, stream reader |
| Deinterlacers (video/) | the field before, its width per line | `Process`, `ClearState` | `MDFNI_Emulate` |
| Front end (libretro.cpp, mednafen.cpp) | the game, options, ports, cheats, affinity | load, run, save, load state, unload | all of the above |
| Pure code (resampler, hashes, surfaces) | none | functions | front end |

### What is hard

* **Two threads, no lock.** The command ring's correctness rests on two atomics; its semaphores
  have a ceiling, are posted without checks and only waited on with time-outs.
* **A token of two semaphores.** The stream reader's ring, positions and files are shared without
  any other protection.
* **Handlers that move each other.** A handler may move or remove any other device's event while
  `EventHandler` walks the list; a register write may do so inside an instruction, and one register
  calls `EventHandler` from inside an instruction.
* **Clocks out of order.** A device is brought up to a register write's time, and afterwards, at the
  end of the same instruction, to its own earlier event's time.
* **DMA taken apart.** A DMA may be interrupted at any byte; HDMA may take its channels away, and
  whoever ends it must release the CPU.
* **States that outlive their context.** A save state is taken between frames, where deadlines,
  read-ahead and the render thread's copies are all in flight, and may be of another version.
* **Chips that are caught up.** Each cartridge processor runs only when the main CPU looks at it or an
  event asks; what it was told in between (a message, a reset, a rewritten cache) must not be lost.
* **Data converted while it is read.** SA-1 tiles, S-DD1 streams, DSP results and interlaced pictures are
  made piece by piece, on behalf of a reader that decides how much it takes.

The hazards, each at its line with the properties that cover it, are listed in `PROJECT.json`.

## 2. The modules

Every component is a module with its state as VARIABLES and one action per operation, handler or
step. `MC*` modules give values to constants that a configuration file cannot write down, `*Proofs`
modules hold the theorems. History variables, which the code does not have, are marked `history` at
their declaration; operators commented `Fault:` are wrong variants of the action after them, which
a run must refute (`mutants` in `PROJECT.json`) and which no specification uses.

| Module | Code | Grain of a step |
|---|---|---|
| `RenderChannel` | what `MTIF_*` promise | one command issued or executed |
| `RenderQueue` | `WWQ`, `Wakeup`, `MTIF_*`, `RThreadEntry` | one access to shared memory or to a semaphore |
| `PpuMirror` | register handlers of `ppu_common.inc` and of `ppu_mtrender.cpp` | one register access; one command |
| `PpuFrame` | `PPU_Update`, `EmulateReal`, `Emulate`, `DoCommand` | one line phase; one command |
| `EventList` | `events[]` and its users in `snes.cpp`, the CPU loops | one loop round, one handler call, one register write |
| `Dma` | `dma.inc` | one DMA byte, one line of HDMA, one register write |
| `Interrupts` | `CPU_SetNMI/IRQ`, `CPU_Run`, `PPU_UpdateLineIRQ`, `PPU_Update`, registers $4200, $4207-$4211 | one register access, one turn of the loop, one line phase |
| `StreamReader` | `MTStreamReader` | one semaphore operation; one piece of a read |
| `Msu1` | `msu1.cpp` | one register access, one `Update` |
| `Cartridge` | one board or chip of the following, its variables instantiated | as the part |
| `Board` | header search, mapping, mirrors and bank registers of `cart.cpp`, `sa1.cpp`, `sdd1.cpp`, `superfx.cpp` | loading a game, one bank write, one state load |
| `SuperFx` | pipeline, prefixes, cache, slices, interrupt of `superfx.cpp` | one instruction, one access of the main CPU, one event |
| `SuperFxPlot`, `SuperFxAlu` | `PLOT`, `RPIX`, `FlushPixelCache`; arithmetic instructions | one instruction |
| `Cx4`, `Cx4Alu` | cache pages, calls, DMA, busy flags of `cx4.cpp`; its arithmetic | one instruction, one access; one operation |
| `Sa1` | both CPUs' messages, interrupts, reset, DMA ends, `CPU_Run` of `sa1.cpp` | one access of either CPU, one turn of the loop |
| `Sa1Tiles`, `Sa1Bits` | character conversion; variable-length reads | one byte or pixel; one read |
| `Dsp` | the coroutines of `dsp1chip.h` and `dsp2chip.h`, their ports | one port access |
| `ChipMath`, `Words` | arithmetic of SA-1, DSP-1, DSP-2; `math_ops.h` | one computation |
| `Sdd1` | `sdd1.cpp` | one register write, one byte of a DMA |
| `Services` | one of the following, or `PpuMirror`, instantiated; `MCServices` gives its constants values | as the part |
| `Threads` | `MThreading_POSIX.cpp`, `MThreading_Win32.cpp` | one semaphore operation or critical section |
| `Streams` | `Stream.cpp`, `FileStream.cpp`, `MemoryStream.cpp`, `ExtMemStream.cpp` | one call |
| `StateFormat` | `state.cpp` | saving or loading one state |
| `Settings` | `settings.cpp`, numbers of `string.cpp` | one call |
| `Bus` | handler tables, cheats and internal registers of `snes.cpp` | one registration, one access |
| `InputPorts` | `input.cpp` | one access, one automatic read |
| `Deinterlacer` | the classes of `video/Deinterlacer*`, `MDFNI_Emulate` | one frame |
| `RunAhead` | `Emulate` of `snes.cpp` | one frame |
| `Frontend` | `libretro.cpp`, `mednafen.cpp`, `MDFNMP_*`, `DecodeGG` | one call of the front end |

**The render ring.** `RenderQueue` is the implementation: the ring `WQ` with its private cursors
(`WritePos`, `rReadPos`), the published copies (`TMP_WritePos`, `TMP_ReadPos`) and what each side
last loaded of the other's (`ReadPos`, `rWritePos`), and the two semaphores, whose posts are lost at
the ceiling `SemMax`. `WWQ` is three steps (the command byte, the argument with the test for a full
ring, the cursor), since entries are plain memory; `Wakeup` is one step for each of its accesses. A
timed wait may return without a unit. `RenderChannel` is what its callers rely on: a FIFO from which
commands are executed one by one, a call that returns when it is empty, and an end. `RenderQueue`
names it with an INSTANCE in which the channel's queue is the difference of two histories, and
checks and proves that it implements it.

**What goes through the ring.** `PpuMirror` (a part of `Services`, and a run of its own for the
palette) takes the channel as given and looks at the contents: a register write changes the emulation thread's registers and memories at once, and the renderer's
when the command is executed, by a second set of handlers. Both sets are translated, for a
representative of each kind of register. Values and memories are tiny, but keep the
low and high tables of OAM, the buffered half words, the moving and rotated VRAM address and the
palette's toggle. `PpuFrame` looks at the line machine: the four phases of a line as `PPU_Update`
runs through them, what it sends at each of them, the fields of an interlaced picture, the end of
the frame in line 0 or at the beginning of VBlank, frames run ahead and undone (`Ahead`, `Sync`),
and in the renderer the line target and the surface's rows.

**Time.** `EventList` holds the times and links of `events[]` as functions from nodes to numbers.
The CPU's outer and inner loops, `EventHandler`, `ForceEventUpdates` and `RebaseTS` are sequences of
steps through `pc`, since what they call may change the list under them: handlers may return any
time after now, the PPU's moves the line-IRQ entry and ends the frame, register writes move entries
from within instructions, and `Read_4210` calls `EventHandler` there.

**DMA.** `Dma` keeps, per channel, count, offset, table address and line counter, and the place of the
CPU (`loop`, `dma`, `events`). Addresses and data are left out but for HDMA tables, which are
sequences of entries and may be anything. `moved`, `programmed` and `lines` are histories that the
properties compare with what was asked.

**Interrupts.** `Interrupts` has the whole path from a register or a line's start to the CPU: the flags
and the timer in `ppu`, the levels, the latch and the sample in `cpu`. Times are counted from the
line's start, `LineStartTS`, so that the state space is finite; events of one time are handled in
any order (`EventList` has the order). An instruction is up to `MaxAccesses` register accesses, each
of which moves the CPU's time on, and may run past several events; one that calls `EventHandler`
waits in `op` until it returns. DMA's bytes and HDMA's transfers may be accesses to the same
registers. The module has the lines' consequences, not what a handler does with an interrupt.
`owed` and `timer` say, from the flags and the settings alone, what the latch and the timer must do.

**Sound.** `StreamReader` is the ring of bytes with both threads' variables; a byte is named by its
stream and offset, and silence by `Zero`. `Msu1` has the flags, deadlines and play position, the
stream reader as what it was last asked for, and the sound CPU as the time to which it has run.

**The cartridge.** A console has one cartridge, and a chip's processor shares nothing with what another
part of the same chip computes but values, so `Cartridge` chooses a part in its initial state, as
`CART_Init` chooses a board, and gives its variables to it. In `Board` the maps are functions from a
bank's half to what is shown there, for the CPU, the DMA and the chip, computed by the code's loops and
compared with what the header promises. `SuperFx`, `Cx4` and `Sa1` leave open what an instruction
computes, so that every program is a behaviour, and keep what it does to the flow of code and time:
a code byte is the place it was read from, and what is executed is compared with what should have been
there. Their arithmetic is in `SuperFxAlu`, `Cx4Alu` and `ChipMath`, each operation written as the code
computes it, with its wider words and partial results, and compared with whole numbers. `Dsp` has a
coroutine's place as its position in the list of a command's words; the bytes carry which command's
argument they are, so that a result computed from another one's shows. `Sdd1` and `Sa1Tiles` compute
real bits, since the properties are about them; `Sa1Bits` names a byte by its address.

**The services.** `Threads` has each system call as a step and each critical section as one; its waits
may time out, be tried again or be late. What this repository builds is the native kind (config.h:6 defines
`HAVE_SEM_TIMEDWAIT`); the kind of a mutex and a condition variable, and Win32's events, are code the files hold
for other configurations and other callers, modelled as such. `Streams`, `StateFormat` and `Settings` run beside a plain
record of what was put in; `StateFormat` writes tokens for names, sizes and bytes, reads them back by
the code's rules and then clamps as the devices' `StateAction` do. What no device clamps it leaves as loaded,
and nothing is claimed of it: src/README.md:28-29 says that states are not sanitized properly. In `InputPorts` a
state is loaded section by section, from `INPUT`, which has the strobe, to each pad, and may end anywhere. A pad that
then keeps another strobe than the port's misses falls of it, so ports and pads are `torn` and nothing is
promised of them until a strobe that reaches all. `Bus` keeps indices in place of
function pointers, as the code does. `Frontend` has the two cases of each call, accepted and refused,
and what is left of a refused one.

## 3. What the runs check

| Run | Shows |
|---|---|
| `RenderQueue` | The threads never touch one entry at a time (`NoRace`), a sync is a barrier (`SyncDrains`), an end drains (`ExitDrains`), the ring implements the channel; every call returns (`CallsReturn`) and every line is rendered though no post follows it (`LinesRendered`). |
| `PpuMirrorColors` | Violated: the palettes differ after such a read. |
| `PpuFrame` | Lines are drawn into their own frame's surface (`OwnFrame`), no shown row is left over from an earlier picture and rows are in order (`PictureWhole`), sprites are those fetched for the line, those of line 1 after a skipped frame an older frame's (`SpritesFetched`), and a frame ends (`FramesEnd`), with the screen mode changed at any time. |
| `EventList` | One sorted list (`ListSound`), earliest event first (`EarliestFirst`), nothing overdue after a dispatch or a frame (`NoneOverdue`), instructions only before events (`StartsBeforeEvents`). |
| `Dma` | The CPU is halted exactly while a DMA is under way (`HaltedExactlyForDma`) and released (`CpuReleased`), a finished channel has moved all its bytes (`TransfersWhole`), HDMA transfers in the lines its table names (`HdmaFollowsTable`). |
| `Interrupts` | Lines and registers agree (`LinesAgree`), no NMI edge is lost, served twice or kept waiting (`NmiServed`), the H/V timer asks once for a match and before the next instruction (`TimerOnTime`), WAI ends within a frame (`Awakes`). |
| `InterruptsAssert` | Violated: an assertion that a handler's next event is later than its last. |
| `StreamReader` | What `get_buffer` hands out is right while it is used (`WindowCorrect`), one command token (`OneToken`), file cursors follow (`FileFollows`), every call returns, the destructor too (`CallsReturn`). |
| `Msu1Apu` | Violated: an assertion that the sound CPU is never driven to an earlier time. |
| `Cartridge` | Whatever the cartridge holds, with every map and chip: every bank shows what the header says, to each reader (`BoardIsSound`); the SuperFX executes the code that was cached for its window, its prefixes reach one instruction, its interrupt has a cause (`GsuRuns`); the CX4 executes the page it is told to (`Cx4Runs`) and keeps a locked one (`Cx4Locks`); messages, interrupts and DMA ends of the SA-1 arrive once (`Sa1Answers`); plotted pixels, tiles, bit fields and S-DD1 streams are converted right, for the DMA that asked (`DataConverted`); a DSP's results are those of the command given (`DspAnswers`); MSU1's flags, deadlines and stream agree (`Msu1InStep`); each operation of the chips gives the number, and of the SuperFX and the CX4 the flags, that it is named for, and leaves the rest alone (`ChipsCompute`). |
| `Services` | Every post of a semaphore lets one wait through, whatever times out, and threads are joined once (`ThreadsAgree`); streams, states of this and other versions and settings give back what was put in, a load restores what the state holds and keeps what it lacks, refuses an own full state as a whole, and leaves the sanitized index in range (`DataReadBack`); an access reaches the handler set last, cheats included, and a pad is heard as it was strobed, across loads (`AccessesReach`); the renderer draws from what the game had written, both copies agree when nothing is under way, and an interlaced picture is of this field and the one before (`PictureAgrees`); run-ahead leaves no trace, and calls of the front end leave what they are for (`CallsKept`). |
| `StateLoadThrows` | Violated: a load that fails throws. |

### Bounds

* `RenderQueue`: a ring of 3 entries and 4 commands, so that it is full with two and every slot is
  used again; semaphores with a ceiling of 1, so that posts are lost. The theorems hold for every size.
* `PpuMirrorColors`, and the part `mirror` of `Services`: 3 register accesses and 2 commands under way.
  A store through a port takes an address and a data write, or two data writes; each handler pair depends
  on the copies alone, so longer sequences add nothing but contents. VRAM has 4 words, OAM 4 low bytes and
  a high table of 2.
* `PpuFrame`: 7 lines, VBlank from line 4, or 6 with overscan; the picture begins in row 2 of 6.
  This is the least with more than one line in each stretch that the code tells apart. One write of
  the screen mode, in a session that begins from reset or from a saved interlaced overscan picture.
* `EventList`: all five devices, of which two never ask to be called; times to 13, steps of up to 2.
  Ties, moves before, behind and past the entry under way all occur.
* `Dma`: 2 channels, counts modulo 3, line counters with a repeat bit at 4 (0x80), tables with a
  counted, a repeated and a full-count entry, 7 lines, 3 register writes.
* `Interrupts`: 2 lines of 10 cycles, HBlank from 5, a dot of 2, accesses of 1 or 3 cycles, HDMA of at most 6. That is the least in which an
  access may end before, in and after a dot, pass a whole one, or run over HBlank into the next line.
  Two register writes (by anyone; reads by instructions are free), two accesses an instruction: a
  setting and its change, or a setting and a reset. An interlaced frame, a DMA that lasts over
  several lines and `FrameBeginVBlank` are left to `PpuFrame` and `Dma`. The theorems hold for every
  length, setting and number.
* `StreamReader`: a ring of 8 with chunks of 2 and 2 mirrored bytes; streams shorter and longer than a
  chunk, with and without loops; positions beyond the end.
* `Msu1Apu`, and the part `msu1` of `Cartridge`: one track, lead-in and busy time of 2, positions to 5,
  3 and 2 register writes a history.
* `Cartridge` and `Services` explore parts that share no state one at a time, chosen in the initial
  state, so that the numbers of their states add up instead of multiplying (1,060,618 and 595,539). A part
  that shares state with another is composed with it in its own module. Their deadlock check is off
  because most parts stop: a computation is done, a bounded history used up.
    The sizes of the SuperFX, CX4, SA-1, DSPs and MSU1 are constants, given in `Cartridge.cfg`, as are those of
    threads, bus, input ports, run-ahead and front end in `Services.cfg`, and the theorems hold for all of
    them; those of the other parts are in the two modules' instances.
  - Board: images of 1, 40 and 160 pages of 32 KiB (half a bank, no power of two, more than 4 MiB),
    thirteen headers: each map (LoROM, HiROM, ExLoROM, ExHiROM, LoROMSpecial, LoROM with its save RAM mirrored,
    unnamed) and each chip, and what only looks like a header; any two of them at any two of the four places,
    with code or nothing at the others; one bank write or load after mapping.
  - SuperFX: banks of 4 addresses and one cache line of 2, so that a window begins, ends and wraps in every run; tiles of 2 pixels a row,
    screens of two depths and heights, drawn at 3 columns over two tiles.
  - CX4: pages of 2 words and the two halts behind them, one level of stack.
  - SA-1: costs and DMA lengths of 1 in slices of 2, so that a slice ends before, at and after an end;
    tiles of both depths and widths, with 40 reads, which pass both buffers; codes of 1 to 16 bits with
    starts before the end of ROM, over which they wrap.
  - DSPs: every command with its real counts, lengths 1 to 3 where they are arguments, any sequence
    of commands, the calls told apart by one bit, a data ROM of 2 words to dump. S-DD1: a pattern of 5 bytes under 4 headers (each depth), 17 bytes read,
    over every refill, a setting or a state load between.
  - Arithmetic: words of 8 bits (9 in the CX4, of three 3-bit bytes), all pairs of the operands at which carry,
    sign and overflow change, and every flag set and clear before.
  - Threads: two waiters, two posters and a ceiling of 2; the second has 10 parts, so that a time-out carries.
  - Streams: files of 3 and 5 bytes with a byte-order mark or a line end at the buffer's end, buffers of 0, 2
    and 4. States: two sections with variables of every size, loaded from five other layouts and cut at any
    length; own states of both forms. Settings: numbers of 5 bits, with the least and the greatest and one more of each.
  - Bus: three addresses, one of them of the B bus, two settings of handlers. Pads: 2 bits a pad, two pads of a
    multitap, loads of two states, strobed and not, that end before, between and after each of the ports' sections. Deinterlacer: fields of 1 and 3 rows, lines of 2 widths. Front end: 3 frames of run-ahead, two
    multitap options, two cheat slots.

Queue bounds are guards of the sending action, so that a full queue delays the emulation thread,
as the ring does.

### Fairness

Both threads are scheduled by the system, so their steps are weakly fair. Nobody promises that the
emulation thread makes another call, that the user runs another frame, or that a game writes a
register: these actions are not fair. In `Dma` the CPU loop is weakly fair; that `EventHandler`
comes to an end, and that a byte fits between two events, is strong fairness of those two steps,
justified by the times of the events: HDMA takes at most a quarter of a line. In `RenderQueue` timed
waits end, with or without a unit, because they are steps of a fair thread.

`Cartridge` and `Services` state no liveness and assume no fairness: their parts answer calls.

## 4. What is proved

| Theorem | Property | For every |
|---|---|---|
| `RenderQueueProofs!TypeCorrect`, `InOrder`, `RaceFree`, `SyncIsABarrier`, `KillIsClean` | `TypeOK`, `AppliedInOrder`, `NoRace`, `SyncDrains`, `ExitDrains` | ring size, ceiling, number of calls |
| `RenderQueueProofs!QueueImplementsChannel` | `ImplementsChannel` | the same |
| `EventListProofs!TypeCorrect`, `ListStaysSound`, `HandledInOrder`, `NothingOverdue`, `InstructionsBeforeEvents` | `TypeOK`, `ListSound`, `EarliestFirst`, `NoneOverdue`, `StartsBeforeEvents` | times and idle devices |
| `DmaProofs!TypeCorrect`, `HaltIsExact`, `DmaIsWhole`, `HdmaIsInStep` | `TypeOK`, `HaltedExactlyForDma`, `TransfersWhole`, `HdmaFollowsTable` | channels, tables, counts |
| `InterruptsProofs!TypeCorrect`, `LinesAlwaysAgree`, `NmiIsServed`, `WaiEnds`, `TimerIsOnTime` | `TypeOK`, `LinesAgree`, `NmiServed`, `Awakes`, `TimerOnTime` | line and frame lengths, settings, durations, numbers of accesses |
| `PpuFrameProofs!TypeCorrect`, `OwnSurface`, `SpritesAreFetched`, `PictureIsWhole` | `TypeOK`, `OwnFrame`, `SpritesFetched`, `PictureWhole` | numbers of lines, queue lengths, writes |
| `StreamReaderProofs!TypeCorrect`, `TokenIsUnique`, `FileIsInStep`, `WindowIsCorrect` | `TypeOK`, `OneToken`, `FileFollows`, `WindowCorrect` | streams, ring sizes, calls |
| `CartridgeProofs!GsuIsSound`, `Cx4RunsItsPages`, `Cx4KeepsLocked`, `MessagesReachTheOther` | `GsuRuns`, `Cx4Runs`, `Cx4Locks`, `Sa1Answers` | sizes of banks, cache lines, pages and stacks, costs of instructions and transfers, turns |
| `CartridgeProofs!DspIsServed`, `MsuStaysInStep` | `DspAnswers`, `Msu1InStep` | lengths of commands; tracks, lead-in, deadlines, frames and numbers of writes |
| `ServicesProofs!ThreadsStayAgreed` | `ThreadsAgree` | waiters, posters, ceilings, posts |
| `ServicesProofs!AccessesAlwaysReach` | `AccessesReach` | addresses, handlers, patched values, calls; pads, wirings, widths of a pad, reads |
| `ServicesProofs!PicturesStayAgreed` | `PictureAgrees` | written values, lengths of the queue, numbers of accesses; deinterlacers, heights and widths of fields |
| `ServicesProofs!CallsStayKept` | `CallsKept` | inputs and lengths of frames; multitap options, affinities, codes, cheat slots |

**The ring.** `AppliedInOrder` is not inductive: nothing in it says that the slots between the
cursors hold what was sent. `CursorInv` orders the six cursors around the ring by their distance
from the reader (`Dist`): what the render thread has loaded, what is published, what is written;
`ContentInv` says that the slot at each distance holds the command of that number among those not
yet executed; `ControlInv` relates places in the code to the mode of the call; `ExitInv` says that
nothing is sent after EXIT. `IInv` is their conjunction. Its proof has a lemma for each part, one
step per action, and rests on lemmas about distance modulo the ring's size. The drained ring of
`SyncDrains` and `ExitDrains`, and the refinement, follow from `IInv` alone.

**The list.** `ListSound` is proved from the structure of `SNES_SetEventNT`: an element is unlinked,
a place is sought towards the side its time has moved to, and it is linked in. `WalkBack` and
`WalkForward` show that the place found is between neighbours of the right times, `Spliced` that the
links are again those of one list, `StillReached` that no device is dropped from it. `IInv` adds that
the cached `next_event_ts` is the head's time (or 0 when the frame is over) wherever the CPU may
look at it, and which entry the loop of `EventHandler` may stand at. Assumed are `TimesAssumption`
(no clock reaches "never", and "never" is before the sentinel) and `IdleAssumption`.

**DMA.** `Owned` says who is responsible for a started DMA at each place (a pending event, or the
halted CPU), `Accounted` that bytes moved and bytes left add up to what was programmed.
`HdmaRegisters` shows that HDMA leaves a channel's count alone. Assumed: `TablesAssumption` and
`BoundsAssumption`.

`HdmaFollowsTable` needs to know how far a channel is through its table: `At` says that it is j lines into
the k-th entry, its counter, flag and address accordingly (`Gone`), and `Through` that it is past the
last one. `NextLine`, `NextEntry` and `FirstEntry` carry this over a call of `DMA_RunHDMA` and of
`DMA_InitHDMA`. Addresses and first lines of the entries are sums, defined by recursive functions. That
such a function is the sum (`Unrolled`) and grows (`Growing`) is proved by induction: `Induction` derives it
from the least element of a set of numbers (`WFMin`).

**Interrupts.** Each register operator is shown to leave `Good` records: levels that agree with the
flags, and a latch that has gained exactly the line's edge; `UpdateKeeps` shows it of the timer,
`FinishKeeps` of any access. That an NMI waits for two turns only is not inductive: `Waiting` adds
that one which has waited is in the sample, or else came in a turn without a sample, and then no
instruction, DMA or waiting access is under way; and that the reset pin is alone.

That WAI ends (`Awakes`) is a matter of time: an event handler may halt the CPU only by DMA's refresh and
HDMA, so `Lead` says how far the CPU's clock can be ahead of the PPU's at each place (`Furthest`),
`Asleep` that of the halts "WAI" belongs to an instruction that waits, and `Sleep` that while it does no
access is under way. Nothing holds the CPU asleep for a third turn.

The timer (`TimerOnTime`) is proved by `Punctual`: the match of a line is before its end (`Told`), and
whoever looks at the timer, event or register, finds each match that has come since the last look
(`LookTells`, `LineTells`, `AccessTells`) and none twice. The attempt corrected the model's own
property. In line 0 HDMA's accesses are done at the time of PPU_Update's event, which a write of $4200
may have overtaken; a match which that write has found, and an acknowledgement has cleared, is found
again. TLC shows it with a dot before HBlank's end; the property now leaves such a match out (`Kept`),
as it does one dropped by a write of the settings. Assumed are `TimesAssumption`,
`SettingsAssumption` and `LeadAssumption` (HDMA, a refresh and the slowest access fit between HBlank, the
line's end and the refresh: 8 channels of 7 bytes of 8 cycles from 1096, a line of 1364 cycles).

**The picture.** What the renderer does later follows from what is in the queue, so each invariant
speaks of the queue's entries in their order. `Course` says where in a frame the emulation thread is, `Owned` that
every entry that draws belongs to the frame whose surface is given, and that a reset of the line target
comes before the first of them. `Fetched` says that before each line's entry, in the queue or already
taken, there is the fetch of its sprites and none of another line after it. `Painted` numbers the rows: those drawn and
those still in the queue are the rows up to the line machine's, in order and each once (`Ordered`,
`RowsDrawn`, `Remaining`), so that at the frame's end nothing is left out (`Whole`). Each part is a
predicate of the queue, kept by appending a command and by taking the first. Assumed is `LinesAssumption` alone.

**Theorems without a run.** `TypeOK` of each module and `AppliedInOrder` are proved, and no run repeats
them; `ImplementsChannel` says of each
command what `AppliedInOrder` says of the sequence.

**The read-ahead.** `TokenInv` is `OneToken` with the semaphores' range; with it, a fact about the thread's
variables is not disturbed by the consumer (`Undisturbed`) and the other way round. `WindowCorrect` needs three more.
`AheadInv`: bytes written and bytes under way are a whole buffer past the chunk that is
being played, so that the window ends before what is being filled and begins after what that
overwrites (this is where a chunk is a quarter of the ring and the window at most a chunk).
`PosInv`: the stream's position is that of the byte written next, which comes down to `ReadsOn`, that
reading on by j is starting j further, through any number of loops. `LoopInv`: what is copied from
memory is the loop's body, and the copies do not reach it. `ContentInv` draws them together:
everything written and not about to be overwritten is `Expected`, in the ring (`Apart`,
`ZeroedCells`) and in the mirror behind its end. Assumed are `StreamsAssumption`, `BufferAssumption` (the
code's `Chunk_Size = Buffer_Size / 4`, and a window of at most a chunk) and `ArgsAssumption`.

**The chips.** Each theorem is about one kind of cartridge; `StepOfKind`, and the like for the DSPs and
MSU1, say that a cartridge keeps its kind. The invariants are predicates of the chip's record, with a
lemma for each operator that makes a record of another.

- SuperFX. `CodeFresh` is inductive only with the window's place: `Fresh` says it of every address of a valid
  line, `Aligned` and `OneLine` are the arithmetic of a window that is moved to a line's start.
- CX4. Which page it runs is known from the cache it is in (`InPage`); how far it may be past a page's
  last word from the word it has fetched (`InData`, `Past`): a page ends in two halts, so the first of
  them is met before the fetch can leave the data. This is why the chip stops, whatever its program does.
- SA-1. `MainLine`, `IrqLine` and `NmiLine` tie lines to pending bits; `Still` says that a held SA-1 has
  brought its time to the next event before it could execute, and `Reaches` that an NMI just sent has
  not been taken, because the SA-1 has not run since.
- DSPs. The chip lags behind the host until it is looked at, so `DspGood` is a predicate of the record that `Run`
  would leave (`Reached`): after b bytes of a call it waits for byte b % w of piece b \div w + 1
  (`Waits`), its arguments and parameters being those that so many pieces leave; after the last it waits for a
  command, except in the mode 7 lines, which begin again. `DspCalls` shows of each command that it does not
  use a parameter it sets.
- MSU1. `Timed` ties flags to deadlines, `Due` says that none has come, also of a saved chip; `Streams`
  is the stream's position, in the lead-in and after it.

Assumed are `GsuAssumption`, `CxAssumption`, `SaAssumption` and `DspAssumption`, which only say that
sizes are numbers, and `MsuAssumption`, that a deadline set in a frame is before "never" (the code's
`SNES_EVENT_MAXTS` is 0x20000000 cycles, a seek 400000, a frame about 360000).

**The services.** Seven parts of `Services` are proved about, each for every value of its constants;
`PartsInv` is the conjunction of their invariants, each of which holds while its part is the one chosen.

- Threads (`SyncGood`). What is promised of the counter is inductive only with what a waiter may be doing:
  that an event has a single waiter (`LoneWaits`), and that as many are on their way to a counter made of
  a condition variable as it would let through, or nobody sleeps (`NoneForgotten`). For the semaphores that are
  built, the counter alone carries it.
- Bus (`BusGood`). An address's index leads to its wanted pair in the table of handlers, or, where a cheat is
  installed, to the hook, whose patch holds that index (`Leads`, `Patched`); `Filled` says that the table
  grows by at most a pair with each setting, so that no index reaches the hook's, and that the DMA controller's
  table has the open bus wherever the CPU's has a pair of the B bus. `IndexIs` shows what the search of the
  table finds, `Extended` that no pair found before moves.
- Input ports (`PadsGood`). What a game has heard of a line is the beginning of what its pad latched, and what
  is left in the pad's shift register is the rest of it, ones after the end (`Rests`, `SlotGood`). A load that leaves
  ports and pads apart on the strobe (`torn`) has nothing heard until it is over. The
  automatic reading is `PadWidth` single ones of one port and then of the other, in which each pad that is
  reached is read so many times and no other is (`ReadUpTo`, `PortHeard`).
- Run-ahead (`AheadGood`). `Unseen` says where the sound that was expected, but not yet put out, ends with respect
  to the machine's position; `InTime` that it is never more than a frame too long, so that the next call
  can take it back. This is where `FrameAssumption` is needed.
- Front end (`CoreStays`). `PortsKept` and `AffinityKept` relate the core's ports and affinity to the front
  end's; `InForce` follows the cheats through `retro_run`, which stops at the first one that throws
  (`AddedUpTo`: after i cheats, the patches are those of the last code for each address among the first i).

- The two copies (`MirrorGood`). That they agree when nothing is under way is inductive only with what is under way
  (`LeadsOn`): executing the first command on the renderer's copy leads to the copy its history names, the next
  one from there to the next, and the last to the emulation thread's. A new command keeps this if its execution
  makes of any copy what the access made of this one, which is shown handler by handler (`PlainWritten` to
  `ColorRead`), although the two were written separately. Reading CGRAM is the exception: it moves a toggle
  that the renderer never hears of, so from then on only the rest is compared, and `SteadyAll` shows that no
  command carries a difference of the palette into the rest.
- The deinterlacer (`ScreenGood`). `FieldKept`: when the frame before was a field, the buffer holds exactly its
  rows, at their widths, if the type needs two fields, and nothing valid if it does not. So what is woven or
  blended (`WeaveSound`, `BlendedSound`, each row in its place by `RowIs`) is of this field and that one, except
  behind the end of a row that was narrower in the field before (`Ragged`), where the code mixes what is left;
  a progressive frame drops the field, and a new game brings a new deinterlacer.

`AddCheats`, `SetInputs` and `ReadAll` are loops, written as recursive functions of the number of rounds.
`StepsTaken` shows that such a function exists and makes each value from the one before, and `NatSet`,
from the well-founded order of finite sets, is the induction by which an invariant of a round holds after all
of them.

Assumed are that waiters are finitely many and sizes are numbers (`SemAssumption`, `PadAssumption`); that
handlers are set fewer than 254 times with a new pair, and that the two buses share no pair but the open
bus's (`BusAssumption`: the code asserts the first, snes.cpp:83, and its callers keep to the second, since
one table of indices serves both buses); that no frame makes more sound than two others together
(`FrameAssumption`: frames of one machine differ by a line, of 262 or more); that written values are numbers
(`RegAssumption`) and that a field has rows, its rows pixels, and both a greatest size (`ScreenAssumption`); that an option makes
at most the three modelled ports active, and that the caller's own affinity is not 0 (`CoreAssumption`: 0 asks for no change,
and no thread runs on no processor).

Every module with assumptions is extended by the module of a run, so TLC evaluates them there.

Only model-checked: everything under fairness (`CallsReturn`, `LinesRendered`, `CpuReleased`, ...),
since TLAPS has no rules for `ENABLED`; and what is a computation over data: the maps of `BoardIsSound`, the
conversions of `DataConverted`, the arithmetic of `ChipsCompute`, and the texts, layouts and streams of
`DataReadBack`. Their results are given by recursive
definitions over bits, words and sequences of the sizes of the code, and the arithmetic with `\div` and `%`
that would relate each round to the whole is what the provers do not find. TLC computes them for all the
inputs of the bounds above.

## 5. Disagreements between the code and what it says of itself

* **A read of the palette is not told to the renderer** (`PpuMirrorColors`). `Read_CGDATAREAD` moves
  the palette's address and toggle without `MTIF_Read`; later palette writes go elsewhere in the
  render thread's copy. README.md presents the choice of renderer as one of performance.
* **The sound CPU is asked for an earlier time** (`Msu1Apu`). `APU_Update` asserts that times do not
  decrease. The MSU1's event is handled with its own time after the instruction that passed it, and
  that instruction may have accessed a sound port later.
* **HDMA may call `EventHandler` from inside `PPU_Update`** (`InterruptsAssert`). Accesses to $4200 and
  $4210 call it unless `InDMABusAccess` is set; `DMA_RunHDMA` does not set it, and only in line 0 is
  it still set by `DMA_InitHDMA`. The inner `PPU_Update` begins a line and returns a time before its
  own, which `EventHandler` asserts no handler does.
* **A failed load may go unnoticed** (`StateLoadThrows`). state.h:57 says that loading "throws exceptions
  on errors"; in the fast form that `retro_unserialize` uses, `MDFNSS_LoadSM` (state.cpp:568-572) never
  calls `ThrowDeferred`, and the front end is told of success.

Met while modelling, and not subject of a run: a DMA that HDMA cancelled keeps its `Offset`
(dma.inc:22 has a FIXME about it; 153); a game that turns interlace off in the extra line of a field
misses line 0 and gets a frame of two fields (ppu_common.inc:903); the sprites of line 1 are fetched
before it is settled whether the frame is skipped (1038 before 1001), so they are stale after a
skipped frame (`SpritesFetched` states exactly this exception); a pending H/V timer match is dropped if HTIME, VTIME or NMITIMEEN is written by an
instruction that has passed it (840-848).

Likewise, of the cartridge's chips: a transparent `PLOT` over a pixel that waits in the cache overwrites
its colour; SuperFX's `STOP` leaves the IRQ line to whoever looks next (the call at superfx.cpp:588 is
commented out), and `DIV2` makes 0 of -1 and of -2; SA-1's soft `Reset` clears its pending interrupts without `CPU_SetNMI`
(sa1.cpp:1103), so that the next NMI may be lost, as is one written together with the release of the
reset; its DMA's interrupt may come late, and a remainder has the dividend's sign; a message that a
write to protected BW-RAM is blocked is printed and the write done (`//return;`); the DSP-1 shifts by -1
for the inverse of -32768 (undefined in C++), and its saturation is at +-32767; DSP-2's command 06
asserts that its length is not 0, and 02, 07, 08, 0B, 0C and 0E are commented out; a DMA of S-DD1 with a
count of 0 leaves its channel armed after 65536 bytes; an ExLoROM map leaves its first 2 MiB off the
bus; `IsPAL` stays set when a later header wins; the CX4 runs its loop at cx4.cpp:615 after a DMA though
it is not running (562).

Of the services: the Blend deinterlacer pairs the width of the current field with the line of the one
before, so that an even field may show pixels of an older field below a formerly narrower line; a state
saved with `MDFNSS_SaveSM`'s full form has a header of 24 bytes, `LoadSM` reads 32, so that own full states
are refused; `FileStream::close` tests `fd == -1` the wrong way round and never closes; the option that
chooses the renderer is overridden at libretro.cpp:680, whatever README.md:40 advises;
a timed wait made of a condition variable waits for the whole time again after each wake-up, and Win32's is
good for one waiter (neither is built or used here);
a state that ends after the section `INPUT` restores the strobe of the ports (input.cpp:514) and leaves that of the
pads (229-230), so that a fall of it may latch nothing until the game has strobed again; `retro_run` tries the first cheat format only, and a code that `DecodeGG` refuses
(a Pro Action Replay code, or the empty one of a disabled cheat) throws out of it with `CheatsChanged`
still set, in every frame; cheats of an earlier game come into force at the next change in a later one;
`ValidateSetting` lets unknown values of an enumeration pass (settings.cpp:614), which then count as 0;
a failed load leaves `MDFNGameInfo` set; `SetHandlers` shares pairs without comparing the A bus's; a loaded
`DMACH[n].Offset` is not brought into its range.

## 6. Plan, and what is not modelled

Order of the work, the most important behaviour first:

1. The threads: `RenderChannel`, `RenderQueue`, `StreamReader`, with proofs. Done.
2. The machine's time: `EventList`, with proofs; `Dma`, with proofs; `Msu1`. Done.
3. The picture: `PpuFrame`, with proofs; `PpuMirror`, `Deinterlacer`. Done.
4. `Interrupts`: the NMI latch, the IRQ line of several sources, their sampling, WAI and STP and the H/V
   timer, with proofs. Done.
5. The cartridge: boards, SA-1, SuperFX, CX4, DSP-1, DSP-2 and S-DD1, with their arithmetic. Done; with proofs
   of the SuperFX, the CX4, the SA-1's messages, the DSPs and MSU1.
6. What the emulation rests on: bus, input ports, threads, streams, save states, settings, the front
   end's calls. Done.
7. Proofs about threads, bus, input ports, the PPU's two copies, the deinterlacers, run-ahead and the front end's
   calls. Done.
8. Not begun: the sound CPU's timers and ports, BRR decoding and envelopes; BCD arithmetic of both CPUs.

Not modelled, and not planned: what the 65816's and the SPC700's instructions compute (a table of
opcodes without control of its own; their interrupts, waits and accesses are in `Interrupts`, `Dma` and
`Sa1`); pixel arithmetic, surfaces and their conversion, resampling and other filters (bit and
floating-point arithmetic); the hashes; file-system calls; the debugger and the disassembler (not part of
the core). `ppu_st.cpp` is the same control code with direct calls in place of the ring, and never
selected. `PpuMirror` leaves out the line that mosaic blocks start at (`MosaicYOffset`, ppu_common.inc:130-131), taken from
the line under way, and the renderer's own `Status[1]`; the DSP-1's raster takes its lines in order without their
numbers, and MSU1's loads have no position inside the lead-in. Of modelled components, `PROJECT.json` says what is left out.
