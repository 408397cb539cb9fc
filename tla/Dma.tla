-------------------------------- MODULE Dma --------------------------------
(***************************************************************************)
(* The DMA channels (dma.inc) between the CPU's loop, EventHandler and the *)
(* scanlines of PPU_Update.                                                *)
(*                                                                         *)
(* MDMAEN starts general DMA: an event halts the CPU, and RunDMA moves     *)
(* bytes until the next event is due or all channels are through.  At the  *)
(* start of the frame and in every visible line's HBlank the PPU's handler *)
(* runs HDMA, which takes channels away from DMA and may end it.           *)
(*                                                                         *)
(* HDMA is in its direct mode: a channel's table holds, for each entry, a  *)
(* byte of line count and repeat flag, and the bytes to transfer.          *)
(***************************************************************************)
EXTENDS Integers, Sequences

CONSTANTS
  LastChannel,  \* channels are 0 .. LastChannel (7)
  Entries,      \* [channels -> a sequence of entry bytes]: their HDMA tables
  Width,        \* the channels' bytes per HDMA transfer
  Top,          \* the repeat bit of an entry byte (0x80)
  CountMod,     \* the number of values of Count (65536)
  Visible,      \* visible lines, from 0
  MaxWrites     \* bound on register writes

Channels == 0 .. LastChannel

ASSUME TablesAssumption ==
  /\ LastChannel \in Nat /\ DOMAIN Entries = Channels
  /\ \A c \in Channels : Entries[c] \in Seq(1 .. 2 * Top - 1)
  /\ Width \in [Channels -> {1, 2, 4}]
ASSUME BoundsAssumption ==
  {Top, CountMod, Visible} \subseteq Nat \ {0, 1} /\ MaxWrites \in Nat

VARIABLES
  DMAEnable, HDMAEnable, HDMAEnableMask,   \* sets of channels
  DMACH,                       \* the channels' registers
  halted,                      \* HALTED_DMA
  kludge,                      \* CPU_TriggerIRQNMIDelayKludge's bit of PIN_Delay
  InDMABusAccess,
  pending,                     \* the DMA_DUMMY event is due
  scanline, hblank,            \* Visible stands for the lines of VBlank
  pc,                          \* in the CPU's loop, in RunDMA, in EventHandler
  programmed, moved,           \* history: bytes to move since DMA was started, bytes moved
  lines,                       \* history: the lines since InitHDMA in which a channel transferred,
  steady,                      \*   of the channels left alone since
  writes

registers == <<DMAEnable, HDMAEnable, HDMAEnableMask, DMACH>>
cpu       == <<halted, kludge, InDMABusAccess, pending, pc>>
ppu       == <<scanline, hblank>>
history   == <<programmed, moved, lines, steady>>
vars      == <<registers, cpu, ppu, history, writes>>

\* The lines an entry byte stands for, and in which of them it transfers.
Lines(b) == IF b % Top = 0 THEN Top ELSE b % Top
Repeats(b) == b > Top
Transfers(b) == IF Repeats(b) THEN Lines(b) ELSE 1

\* The table in memory: the byte TableAddr points at.  Data bytes, and all
\* after the last entry, read as 0.
AddrOf(c) ==
  LET at[k \in 1 .. Len(Entries[c])] ==
        IF k = 1 THEN 1 ELSE at[k - 1] + (1 + Width[c] * Transfers(Entries[c][k - 1]))
  IN at
ReadA(c, a) ==
  IF \E k \in 1 .. Len(Entries[c]) : AddrOf(c)[k] = a
  THEN Entries[c][CHOOSE k \in 1 .. Len(Entries[c]) : AddrOf(c)[k] = a]
  ELSE 0

\* DMA_Reset, powering up.
Init ==
  /\ DMAEnable = {} /\ HDMAEnable = {} /\ HDMAEnableMask = {}
  /\ DMACH = [c \in Channels |->
       [Count |-> CountMod - 1, TableAddr |-> 0, LineCounter |-> 2 * Top - 1,
        Offset |-> 0, DoTransfer |-> FALSE]]
  /\ halted = FALSE /\ kludge = FALSE /\ InDMABusAccess = FALSE /\ pending = FALSE
  /\ scanline = Visible /\ hblank = TRUE /\ pc = "loop"
  /\ programmed = [c \in Channels |-> 0] /\ moved = [c \in Channels |-> 0]
  /\ lines = [c \in Channels |-> <<>>] /\ steady = {}
  /\ writes = 0

----------------------------------------------------------------------------
(* The CPU.  An instruction samples the interrupts, which ends the delay   *)
(* after DMA; a halted CPU executes none.                                  *)

Instruction ==
  /\ pc = "loop" /\ ~halted
  /\ writes < MaxWrites /\ writes' = writes + 1
  /\ kludge' = FALSE
  /\ UNCHANGED <<halted, InDMABusAccess, ppu>>

\* Write_420B: DMA is to start at once.
Write_420B(V) ==
  /\ Instruction
  /\ DMAEnable' = V
  /\ pending' = (V # {})
  /\ pc' = IF V # {} THEN "events" ELSE "loop"
  /\ programmed' = [c \in Channels |->
       IF DMACH[c].Count = 0 THEN CountMod ELSE DMACH[c].Count]
  /\ moved' = [c \in Channels |-> 0]
  /\ UNCHANGED <<HDMAEnable, HDMAEnableMask, DMACH, lines, steady>>

Write_420C(V) ==
  /\ Instruction
  /\ HDMAEnable' = V
  /\ steady' = steady \cap V
  /\ UNCHANGED <<DMAEnable, HDMAEnableMask, DMACH, pending, pc, programmed, moved, lines>>

\* DMA_Write_43x5, Write_43x6; the halves of Count.
WriteCount(c, n) ==
  /\ Instruction
  /\ DMACH' = [DMACH EXCEPT ![c].Count = n]
  /\ UNCHANGED <<DMAEnable, HDMAEnable, HDMAEnableMask, pending, pc, history>>

\* Write_43xA.
WriteLineCounter(c, n) ==
  /\ Instruction
  /\ DMACH' = [DMACH EXCEPT ![c].LineCounter = n]
  /\ steady' = steady \ {c}
  /\ UNCHANGED <<DMAEnable, HDMAEnable, HDMAEnableMask, pending, pc, programmed, moved, lines>>

\* RunDMA, up to its loop.
RunDMA ==
  /\ pc = "loop" /\ halted
  /\ pc' = "dma" /\ InDMABusAccess' = TRUE
  /\ UNCHANGED <<registers, halted, kludge, pending, ppu, history, writes>>

\* Fault: the count is tested before it is decremented.
DmaByteLate(ch) ==
  LET n == DMACH[ch].Count
  IN /\ pc = "dma" /\ \A c \in DMAEnable : ch <= c
     /\ DMACH' = [DMACH EXCEPT
          ![ch].Count = (n - 1) % CountMod,
          ![ch].Offset = IF n = 0 THEN 0 ELSE (@ + 1) % Width[ch]]
     /\ DMAEnable' = IF n = 0 THEN {c \in DMAEnable : c > ch} ELSE DMAEnable
     /\ moved' = [moved EXCEPT ![ch] = @ + 1]
     /\ UNCHANGED <<HDMAEnable, HDMAEnableMask, cpu, ppu, programmed, lines, steady, writes>>

\* A byte of the lowest channel; the last one clears the channel's bit, and
\* all below it.
DmaByte(ch) ==
  LET n == (DMACH[ch].Count - 1) % CountMod
  IN /\ pc = "dma" /\ \A c \in DMAEnable : ch <= c
     /\ DMACH' = [DMACH EXCEPT
          ![ch].Count = n,
          ![ch].Offset = IF n = 0 THEN 0 ELSE (@ + 1) % Width[ch]]
     /\ DMAEnable' = IF n = 0 THEN {c \in DMAEnable : c > ch} ELSE DMAEnable
     /\ moved' = [moved EXCEPT ![ch] = @ + 1]
     /\ UNCHANGED <<HDMAEnable, HDMAEnableMask, cpu, ppu, programmed, lines, steady, writes>>
Moves == \E ch \in DMAEnable : DmaByte(ch)

\* An event is due first.
DmaYield ==
  /\ pc = "dma" /\ DMAEnable # {}
  /\ pc' = "events" /\ InDMABusAccess' = FALSE
  /\ UNCHANGED <<registers, halted, kludge, pending, ppu, history, writes>>

\* Fault: the CPU stays halted.
DmaDoneHalted ==
  /\ pc = "dma" /\ DMAEnable = {}
  /\ pc' = "loop" /\ InDMABusAccess' = FALSE
  /\ kludge' = TRUE
  /\ UNCHANGED <<registers, halted, pending, ppu, history, writes>>

\* DMA_UnhaltCPU.
DmaDone ==
  /\ pc = "dma" /\ DMAEnable = {}
  /\ pc' = "loop" /\ InDMABusAccess' = FALSE
  /\ halted' = FALSE /\ kludge' = TRUE
  /\ UNCHANGED <<registers, pending, ppu, history, writes>>

----------------------------------------------------------------------------
(* EventHandler.                                                           *)

CallEventHandler ==
  /\ pc = "loop" /\ ~halted
  /\ pc' = "events"
  /\ UNCHANGED <<registers, halted, kludge, InDMABusAccess, pending, ppu, history, writes>>
EventsDone ==
  /\ pc = "events" /\ ~pending
  /\ pc' = "loop"
  /\ UNCHANGED <<registers, halted, kludge, InDMABusAccess, pending, ppu, history, writes>>

DMA_Update ==
  /\ pc = "events" /\ pending
  /\ pending' = FALSE
  /\ halted' = (halted \/ DMAEnable # {})
  /\ UNCHANGED <<registers, kludge, InDMABusAccess, pc, ppu, history, writes>>

\* DMA_InitHDMA: the tables' first entries are read, of the enabled channels.
Started(c) ==
  [DMACH[c] EXCEPT !.TableAddr = 2, !.LineCounter = ReadA(c, 1),
                   !.DoTransfer = ReadA(c, 1) # 0]
\* Fault: the CPU is not released when HDMA takes the last channel.
InitHDMAHalted ==
  /\ InDMABusAccess' = TRUE
  /\ DMAEnable' = DMAEnable \ HDMAEnable
  /\ HDMAEnableMask' = {c \in Channels : c \in HDMAEnable => ReadA(c, 1) # 0}
  /\ DMACH' = [c \in Channels |->
       IF c \in HDMAEnable THEN Started(c) ELSE [DMACH[c] EXCEPT !.DoTransfer = FALSE]]
  /\ lines' = [c \in Channels |-> <<>>] /\ steady' = HDMAEnable
  /\ UNCHANGED <<HDMAEnable, halted, kludge>>

InitHDMA ==
  /\ InDMABusAccess' = TRUE
  /\ DMAEnable' = DMAEnable \ HDMAEnable
  /\ halted' = (halted /\ DMAEnable' # {})
  /\ kludge' = (kludge \/ (halted /\ DMAEnable' = {}))
  /\ HDMAEnableMask' = {c \in Channels : c \in HDMAEnable => ReadA(c, 1) # 0}
  /\ DMACH' = [c \in Channels |->
       IF c \in HDMAEnable THEN Started(c) ELSE [DMACH[c] EXCEPT !.DoTransfer = FALSE]]
  /\ lines' = [c \in Channels |-> <<>>] /\ steady' = HDMAEnable
  /\ UNCHANGED HDMAEnable

\* DMA_RunHDMA: the transfers of all channels, then their counters, with the
\* next entry where one has run out.
Transferred(r, c) ==
  IF r.DoTransfer THEN [r EXCEPT !.TableAddr = @ + Width[c], !.Offset = 0] ELSE r
\* Fault: the repeat bit is read the wrong way round.
CountedInverted(r, c) ==
  LET n == (r.LineCounter - 1) % (2 * Top)
  IN IF n % Top = 0
     THEN [r EXCEPT !.LineCounter = ReadA(c, r.TableAddr), !.TableAddr = @ + 1, !.DoTransfer = TRUE]
     ELSE [r EXCEPT !.LineCounter = n, !.DoTransfer = n < Top]

Counted(r, c) ==
  LET n == (r.LineCounter - 1) % (2 * Top)
  IN IF n % Top = 0
     THEN [r EXCEPT !.LineCounter = ReadA(c, r.TableAddr), !.TableAddr = @ + 1, !.DoTransfer = TRUE]
     ELSE [r EXCEPT !.LineCounter = n, !.DoTransfer = n >= Top]
RunHDMA ==
  LET on == HDMAEnable \cap HDMAEnableMask
      after == [c \in Channels |->
                 IF c \in on THEN Counted(Transferred(DMACH[c], c), c) ELSE DMACH[c]]
      ended == {c \in on : after[c].DoTransfer /\ after[c].LineCounter = 0}
  IN /\ DMACH' = after
     /\ DMAEnable' = DMAEnable \ on
     /\ HDMAEnableMask' = HDMAEnableMask \ ended
     /\ InDMABusAccess' = FALSE
     /\ halted' = (halted /\ DMAEnable' # {})
     /\ lines' = [c \in Channels |->
          IF c \in steady THEN Append(lines[c], c \in on /\ DMACH[c].DoTransfer) ELSE lines[c]]
     /\ UNCHANGED <<HDMAEnable, kludge, steady>>

\* PPU_Update, where a line starts.
LineStart ==
  /\ pc = "events" /\ hblank
  /\ hblank' = FALSE
  /\ scanline' = (scanline + 1) % (Visible + 1)
  /\ IF scanline' = 0 THEN InitHDMA
     ELSE UNCHANGED <<registers, halted, kludge, InDMABusAccess, lines, steady>>
  /\ UNCHANGED <<pending, pc, programmed, moved, writes>>

\* ... and where its HBlank does.
HBlank ==
  /\ pc = "events" /\ ~hblank
  /\ hblank' = TRUE
  /\ IF scanline < Visible THEN RunHDMA
     ELSE UNCHANGED <<registers, halted, kludge, InDMABusAccess, lines, steady>>
  /\ UNCHANGED <<scanline, pending, pc, programmed, moved, writes>>

----------------------------------------------------------------------------
CpuStep == RunDMA \/ Moves \/ DmaYield \/ DmaDone \/ EventsDone \/ DMA_Update
Write ==
  \/ \E V \in SUBSET Channels : Write_420B(V) \/ Write_420C(V)
  \/ \E c \in Channels :
       \/ \E n \in 0 .. CountMod - 1 : WriteCount(c, n)
       \/ \E n \in {0, Top} : WriteLineCounter(c, n)

Next == CpuStep \/ Write \/ CallEventHandler \/ LineStart \/ HBlank

Spec == Init /\ [][Next]_vars

\* The loop runs on, EventHandler comes to an end, and between two events there
\* is time for a byte: HDMA takes at most a quarter of a line.
FairSpec == Spec /\ WF_vars(CpuStep) /\ SF_vars(EventsDone) /\ SF_vars(Moves)

----------------------------------------------------------------------------
Register ==
  [Count : 0 .. CountMod - 1, TableAddr : Nat, LineCounter : 0 .. 2 * Top - 1,
   Offset : 0 .. 3, DoTransfer : BOOLEAN]

TypeOK ==
  /\ {DMAEnable, HDMAEnable, HDMAEnableMask, steady} \subseteq SUBSET Channels
  /\ DMACH \in [Channels -> Register]
  /\ {halted, kludge, InDMABusAccess, pending, hblank} \subseteq BOOLEAN
  /\ scanline \in 0 .. Visible /\ pc \in {"loop", "dma", "events"}
  /\ programmed \in [Channels -> 0 .. CountMod] /\ moved \in [Channels -> 0 .. CountMod]
  /\ lines \in [Channels -> Seq(BOOLEAN)] /\ writes \in 0 .. MaxWrites

\* A started DMA never lies there while the CPU executes instructions, and the
\* CPU is not left halted without one: whichever of EventHandler, RunDMA,
\* InitHDMA and RunHDMA ends which channels.
HaltedExactlyForDma ==
  pc = "loop" => (halted <=> DMAEnable # {})

\* RunDMA gives a channel up only when it has moved all its bytes (Count 0
\* meaning the most), however often events and HDMA came between them.
TransfersWhole ==
  [][pc = "dma" => \A c \in DMAEnable \ DMAEnable' : moved'[c] = programmed[c]]_vars

\* A channel that HDMA starts the frame with, and nobody writes to, transfers
\* in just the lines its table says, and stops after the table's last entry.
FirstOf(c) ==
  LET first[k \in 1 .. Len(Entries[c]) + 1] ==
        IF k = 1 THEN 0 ELSE first[k - 1] + Lines(Entries[c][k - 1])
  IN first
InTable(c, l) ==
  \E k \in 1 .. Len(Entries[c]) :
    /\ FirstOf(c)[k] <= l /\ l < FirstOf(c)[k + 1]
    /\ l = FirstOf(c)[k] \/ Repeats(Entries[c][k])
HdmaFollowsTable ==
  \A c \in steady : \A i \in 1 .. Len(lines[c]) : lines[c][i] = InTable(c, i - 1)

\* The CPU is released, whatever HDMA does meanwhile.
CpuReleased == halted ~> ~halted
============================================================================
