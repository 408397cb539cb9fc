----------------------------- MODULE Interrupts -----------------------------
(***************************************************************************)
(* The CPU's interrupts: the H/V timer and the VBlank NMI of the PPU       *)
(* (ppu_common.inc), the lines and the NMI latch (cpu.h), the sample that  *)
(* the CPU takes one instruction ahead, WAI and STP (cpu_hlif.inc) and the *)
(* CPU's loop (cpu_loop_body.inc).                                         *)
(*                                                                         *)
(* Time is counted from the start of the line, LineStartTS.  What a bus    *)
(* access, an instruction's fetch, or the sequence of an interrupt takes   *)
(* is one of Cycles.  Register accesses come from instructions, from DMA   *)
(* and from HDMA, which runs inside EventHandler.                          *)
(***************************************************************************)
EXTENDS Integers

CONSTANTS
  Dot,            \* 4
  Dots,           \* of a line: 341
  RefreshAt,      \* where LinePhase 2 begins, and the CPU stands still
  HBlankAt,       \* where LinePhase 3 begins
  Stall,          \* ... for so long (40)
  Lines,          \* of a frame; the last one is the VBlank's
  HTimes, VTimes, \* the settings tried
  Cycles, Slowest, \* what one access takes, and the longest of them (12)
  HdmaTime,       \* what HDMA takes in a line at most: 8 channels' table entries and bytes (8 * 7 * 8)
  MAXTS,          \* SNES_EVENT_MAXTS
  MaxAccesses,    \* bound on the accesses of an instruction
  MaxWrites       \* bound on register accesses, but for reads by instructions

LineLen == Dots * Dot

ASSUME TimesAssumption ==
  /\ {Dot, Dots, RefreshAt, HBlankAt, Stall, Lines} \subseteq Nat \ {0} /\ Dots > 1 /\ Lines > 1
  /\ RefreshAt < HBlankAt /\ HBlankAt < LineLen
  /\ Slowest \in Nat /\ Cycles \subseteq 1 .. Slowest /\ Cycles # {}
  /\ MAXTS \in Nat /\ MAXTS > LineLen
\* Of what may hold the CPU up, HDMA ends before the next line's refresh, and
\* an access with the refresh takes less than a line.
ASSUME LeadAssumption ==
  /\ HdmaTime \in Nat
  /\ HBlankAt + HdmaTime <= LineLen + RefreshAt /\ Stall + HdmaTime <= LineLen
  /\ RefreshAt + Slowest + Stall <= LineLen
ASSUME SettingsAssumption ==
  /\ HTimes \subseteq Nat /\ HTimes # {} /\ VTimes \subseteq Nat /\ VTimes # {}
  /\ {MaxAccesses, MaxWrites} \subseteq Nat

VARIABLES
  timestamp,      \* the CPU's
  pc,             \* "loop" CPU_Run's, "fetch" its inner one, "instr", "events" EventHandler, "stopped" between frames, "aborted"
  op,             \* the register access that waits for an EventHandler of its own
  accesses,       \* of the instruction, so far
  running,        \* running_mask
  InDMABusAccess,
  ppu,            \* NMITIMEEN, HTime, VTime, scanline, LinePhase, IRQThing, IRQFlag, NMIFlag, the timer's event,
                  \* and when the line's HDMA began
  cpu,            \* the lines (MultiIRQState, NMILineState, CombinedNIState), PIN_Delay, halted, the I flag
  timer,          \* history: of the line, its requests, and whether they can be foretold
  owed, since,    \* history: an NMI's edge not served yet, and the loop's turns since
  asleep,         \* history: lines begun in WAI, with NMI enabled
  writes

vars == <<timestamp, pc, op, accesses, running, InDMABusAccess, ppu, cpu, timer, owed, since, asleep, writes>>
control == <<pc, op, accesses, running, InDMABusAccess, writes>>

Enables == {"nmi", "h", "v"}
Sources == {"ppu", "cart"}
NoOp == [reg |-> "none"]

Init ==
  /\ timestamp = LineLen - 1 /\ pc = "stopped" /\ op = NoOp /\ accesses = 0 /\ running = FALSE
  /\ InDMABusAccess = FALSE /\ writes = 0
  /\ \E h \in HTimes, v \in VTimes :
       ppu = [NMITIMEEN |-> {}, HTime |-> h, VTime |-> v, scanline |-> Lines - 1, phase |-> "hblank",
              IRQThing |-> FALSE, IRQFlag |-> FALSE, NMIFlag |-> FALSE, event |-> MAXTS, began |-> 0]
  /\ cpu = [MultiIRQState |-> {}, irq |-> FALSE, NMILineState |-> FALSE, nmi |-> FALSE,
            PIN_Delay |-> {"reset"}, halted |-> {}, I |-> TRUE]
  /\ timer = [asked |-> 0, steady |-> FALSE, clear |-> TRUE]
  /\ owed = FALSE /\ since = 0 /\ asleep = 0

----------------------------------------------------------------------------
(* The lines.                                                              *)

SetIRQ(c, active, w) ==
  LET m == IF active THEN c.MultiIRQState \cup {w} ELSE c.MultiIRQState \ {w}
  IN [c EXCEPT !.MultiIRQState = m, !.irq = m # {}]

\* Fault: a level that goes on latches again.
SetNMILevel(c, active) == [c EXCEPT !.nmi = @ \/ active, !.NMILineState = active]

SetNMI(c, active) ==
  [c EXCEPT !.nmi = @ \/ (active /\ ~c.NMILineState), !.NMILineState = active]

\* SampleIRQ.
Sample(c) == (IF c.nmi THEN {"nmi"} ELSE {}) \cup (IF c.irq /\ ~c.I THEN {"irq"} ELSE {})
Pending(c) == c.nmi \/ c.irq

----------------------------------------------------------------------------
(* The H/V timer.                                                          *)

Later(a, b) == IF a > b THEN a ELSE b
Earlier(a, b) == IF a < b THEN a ELSE b

\* The timer's settings name the line, and the place in it.
InLine(p) == "v" \in p.NMITIMEEN => p.scanline = p.VTime
Armed(p) == p.NMITIMEEN \cap {"h", "v"} # {} /\ InLine(p) /\ ("h" \in p.NMITIMEEN => p.HTime < Dots - 1)
MatchTime(p) == IF "h" \in p.NMITIMEEN THEN Dot * p.HTime ELSE 0

\* What PPU_UpdateLineIRQ finds at t: whether the timer matches, and when to look again.
AtTime(p, t) ==
  LET td == t - MatchTime(p)
      byDot == Armed(p) /\ "h" \in p.NMITIMEEN
  IN [thing |-> Armed(p) /\ ("h" \in p.NMITIMEEN => 0 <= td /\ td < Dot),
      event |-> IF byDot /\ td < 0 THEN t - td ELSE IF byDot /\ td < Dot THEN t + Dot ELSE MAXTS]

\* Fault: a match that goes on asks again.
AsksAgain(p, t) == AtTime(p, t).thing /\ ~p.IRQFlag

\* A match that begins asks for an interrupt.
Asks(p, t) == AtTime(p, t).thing /\ ~p.IRQThing /\ ~p.IRQFlag

\* PPU_UpdateLineIRQ, and SNES_SetEventNT with what it returns.
UpdatedPpu(p, t) ==
  [p EXCEPT !.IRQThing = AtTime(p, t).thing, !.event = AtTime(p, t).event, !.IRQFlag = @ \/ Asks(p, t)]
UpdatedCpu(c, p, t) == IF Asks(p, t) THEN SetIRQ(c, TRUE, "ppu") ELSE c
Counted(r, p, t) == IF Asks(p, t) THEN [r EXCEPT !.asked = Earlier(@ + 1, 2)] ELSE r

\* NMI's edge, from the flag and the enable bit alone.
Line(p) == p.NMIFlag /\ "nmi" \in p.NMITIMEEN
Owe == owed' = (owed \/ (Line(ppu') /\ ~Line(ppu)))

----------------------------------------------------------------------------
(* The registers: Finish(o, t) is the access o at the time t.              *)

\* When PPU_Update is to be called next.
PpuEvent ==
  CASE ppu.phase = "line" -> RefreshAt [] ppu.phase \in {"refresh", "hdma"} -> HBlankAt
    [] ppu.phase = "hblank" -> LineLen

\* The settings of the line's match are as they were; overtaken, it is lost:
\* the access comes after its dot, and before the event.  One that overtakes
\* PPU_Update itself finds what HDMA, which accesses the registers at the time
\* of the event, may find once more.
Kept(p, t) ==
  /\ p.HTime = ppu.HTime /\ p.VTime = ppu.VTime
  /\ p.NMITIMEEN \cap {"h", "v"} = ppu.NMITIMEEN \cap {"h", "v"}
  /\ t < ppu.event + Dot /\ t <= PpuEvent
Set(p, c, t) ==
  /\ ppu' = UpdatedPpu(p, t)
  /\ cpu' = UpdatedCpu(c, p, t)
  /\ timer' = Counted([timer EXCEPT !.steady = @ /\ Kept(p, t)], p, t)

Write_NMITIMEEN(V, t) ==
  LET p == [ppu EXCEPT !.NMITIMEEN = V, !.IRQFlag = @ /\ V \cap {"h", "v"} # {}]
  IN IF ppu.NMITIMEEN = V THEN UNCHANGED <<ppu, cpu, timer>>
     ELSE Set(p, SetIRQ(SetNMI(cpu, Line(p)), p.IRQFlag, "ppu"), t)

Write_HTIME(V, t) ==
  IF ppu.HTime = V THEN UNCHANGED <<ppu, cpu, timer>> ELSE Set([ppu EXCEPT !.HTime = V], cpu, t)

Write_VTIME(V, t) ==
  IF ppu.VTime = V THEN UNCHANGED <<ppu, cpu, timer>> ELSE Set([ppu EXCEPT !.VTime = V], cpu, t)

Read_4210 ==
  /\ ppu' = [ppu EXCEPT !.NMIFlag = FALSE]
  /\ cpu' = SetNMI(cpu, FALSE)
  /\ UNCHANGED timer

\* Fault: the flag is acknowledged, the line is not.
Read_4211Flag == ppu' = [ppu EXCEPT !.IRQFlag = FALSE] /\ UNCHANGED <<cpu, timer>>

Read_4211 ==
  /\ ppu' = [ppu EXCEPT !.IRQFlag = FALSE]
  /\ cpu' = SetIRQ(cpu, FALSE, "ppu")
  /\ UNCHANGED timer

\* A coprocessor's register raises or drops its line.
CartLine(active) == cpu' = SetIRQ(cpu, active, "cart") /\ UNCHANGED <<ppu, timer>>

Ops ==
  [reg : {"NMITIMEEN"}, V : SUBSET Enables] \cup [reg : {"HTIME"}, V : HTimes]
  \cup [reg : {"VTIME"}, V : VTimes] \cup [reg : {"4210", "4211"}] \cup [reg : {"cart"}, V : BOOLEAN]
Finish(o, t) ==
  \/ o.reg = "NMITIMEEN" /\ Write_NMITIMEEN(o.V, t)
  \/ o.reg = "HTIME" /\ Write_HTIME(o.V, t)
  \/ o.reg = "VTIME" /\ Write_VTIME(o.V, t)
  \/ o.reg = "4210" /\ Read_4210
  \/ o.reg = "4211" /\ Read_4211
  \/ o.reg = "cart" /\ CartLine(o.V)

----------------------------------------------------------------------------
(* The CPU.                                                                *)

NextEvent == Earlier(PpuEvent, ppu.event)
Due == NextEvent <= timestamp

StartFrame ==
  /\ pc = "stopped"
  /\ pc' = "loop" /\ running' = TRUE
  /\ UNCHANGED <<timestamp, op, accesses, InDMABusAccess, ppu, cpu, timer, owed, since, asleep, writes>>

\* ForceEventUpdates, after CPU_Run.
FrameEnd ==
  /\ pc = "loop" /\ ~running
  /\ pc' = "stopped"
  /\ ppu' = UpdatedPpu(ppu, timestamp) /\ cpu' = UpdatedCpu(cpu, ppu, timestamp)
  /\ timer' = Counted(timer, ppu, timestamp)
  /\ UNCHANGED <<timestamp, op, accesses, running, InDMABusAccess, owed, since, asleep, writes>>

\* Reset, between frames: scanline and phase make the next event the first
\* line's start.
Reset ==
  /\ pc = "stopped" /\ writes < MaxWrites
  /\ timestamp' = LineLen - 1
  /\ ppu' = [ppu EXCEPT !.NMITIMEEN = {}, !.scanline = Lines - 1, !.phase = "hblank",
                        !.IRQThing = FALSE, !.IRQFlag = FALSE, !.NMIFlag = FALSE, !.event = MAXTS,
                        !.began = 0]
  /\ cpu' = [SetIRQ(SetIRQ(SetNMI(cpu, FALSE), FALSE, "ppu"), FALSE, "cart")
               EXCEPT !.nmi = FALSE, !.PIN_Delay = {"reset"}, !.halted = {}]
  /\ timer' = [timer EXCEPT !.steady = FALSE] /\ owed' = FALSE /\ since' = 0 /\ asleep' = 0
  /\ writes' = writes + 1
  /\ UNCHANGED <<pc, op, accesses, running, InDMABusAccess>>

Enter ==
  /\ pc = "loop" /\ running /\ cpu.halted = {}
  /\ pc' = "fetch"
  /\ UNCHANGED <<timestamp, op, accesses, running, InDMABusAccess, ppu, cpu, timer, owed, since, asleep, writes>>

\* RunDMA: a byte, which may go to or come from one of the registers, ...
DmaByte ==
  /\ pc = "loop" /\ running /\ "DMA" \in cpu.halted /\ writes < MaxWrites
  /\ ~Due
  /\ \E d \in Cycles, o \in Ops : timestamp' = timestamp + d /\ Finish(o, timestamp + d)
  /\ Owe /\ writes' = writes + 1
  /\ UNCHANGED <<pc, op, accesses, running, InDMABusAccess, since, asleep>>

\* ... an event that interrupts it, ...
DmaYield ==
  /\ pc = "loop" /\ running /\ "DMA" \in cpu.halted
  /\ timestamp' = Later(timestamp, NextEvent)
  /\ pc' = "events" /\ InDMABusAccess' = FALSE
  /\ UNCHANGED <<op, accesses, running, ppu, cpu, timer, owed, since, asleep, writes>>

\* ... its end, DMA_UnhaltCPU.
DmaEnd ==
  /\ pc = "loop" /\ running /\ "DMA" \in cpu.halted
  /\ cpu' = [cpu EXCEPT !.halted = @ \ {"DMA"}, !.PIN_Delay = @ \cup {"dma"}]
  /\ InDMABusAccess' = FALSE
  /\ UNCHANGED <<timestamp, pc, op, accesses, running, ppu, timer, owed, since, asleep, writes>>

\* WAI ends by any pending interrupt, masked or not.
Wake ==
  /\ pc = "loop" /\ running /\ cpu.halted = {"WAI"} /\ Pending(cpu)
  /\ \E d \in Cycles : timestamp' = timestamp + d
  /\ cpu' = [cpu EXCEPT !.PIN_Delay = Sample(cpu), !.halted = {}]
  /\ pc' = "fetch" /\ asleep' = 0
  /\ UNCHANGED <<op, accesses, running, InDMABusAccess, ppu, timer, owed, since, writes>>

StayHalted ==
  /\ pc = "loop" /\ running /\ cpu.halted # {} /\ "DMA" \notin cpu.halted
  /\ "WAI" \in cpu.halted => ~Pending(cpu)
  /\ timestamp' = Later(timestamp, NextEvent)
  /\ pc' = "events"
  /\ UNCHANGED <<op, accesses, running, InDMABusAccess, ppu, cpu, timer, owed, since, asleep, writes>>

\* A turn of the inner loop.
Turn ==
  /\ pc = "fetch" /\ running /\ ~Due /\ "DMA" \notin cpu.halted
  /\ \E d \in Cycles : timestamp' = timestamp + d
  /\ UNCHANGED <<op, running, InDMABusAccess, ppu, timer, asleep, writes>>
Waits == since' = IF cpu.nmi THEN Earlier(since + 1, 3) ELSE 0

TakeReset ==
  /\ Turn /\ "reset" \in cpu.PIN_Delay
  /\ cpu' = [cpu EXCEPT !.I = TRUE, !.PIN_Delay = {}]
  /\ Waits /\ UNCHANGED <<pc, accesses, owed>>

TakeNMI ==
  /\ Turn /\ "nmi" \in cpu.PIN_Delay /\ "reset" \notin cpu.PIN_Delay
  /\ cpu' = [cpu EXCEPT !.I = TRUE, !.PIN_Delay = {}, !.nmi = FALSE]
  /\ owed' = FALSE /\ since' = 0
  /\ UNCHANGED <<pc, accesses>>

TakeIRQ ==
  /\ Turn /\ cpu.PIN_Delay = {"irq"}
  /\ cpu' = [cpu EXCEPT !.I = TRUE, !.PIN_Delay = {}]
  /\ Waits /\ UNCHANGED <<pc, accesses, owed>>

\* An instruction: interrupts are sampled before it, and served after it.
Fetch ==
  /\ Turn /\ (cpu.PIN_Delay = {} \/ "dma" \in cpu.PIN_Delay)
  /\ cpu.PIN_Delay \cap {"nmi", "reset"} = {}
  /\ cpu' = [cpu EXCEPT !.PIN_Delay = Sample(cpu)]
  /\ pc' = "instr" /\ accesses' = 0
  /\ Waits /\ UNCHANGED owed

\* LDA or LDX of an 8-bit constant after a DMA: the sample is dropped.
FetchImmediate ==
  /\ Turn /\ "dma" \in cpu.PIN_Delay /\ cpu.PIN_Delay \cap {"nmi", "reset"} = {}
  /\ cpu' = [cpu EXCEPT !.PIN_Delay = {}]
  /\ Waits /\ UNCHANGED <<pc, accesses, owed>>

\* The inner loop ends.
Leave ==
  /\ pc = "fetch" /\ (~running \/ Due \/ "DMA" \in cpu.halted)
  /\ pc' = "events"
  /\ UNCHANGED <<timestamp, op, accesses, running, InDMABusAccess, ppu, cpu, timer, owed, since, asleep, writes>>

\* An access to a register, which may call EventHandler first ($4200, $4210).
Calls(o, t) ==
  /\ PpuEvent <= t /\ ~InDMABusAccess
  /\ o.reg = "4210" \/ (o.reg = "NMITIMEEN" /\ o.V # ppu.NMITIMEEN)
RegisterAccess(o) ==
  /\ pc = "instr" /\ accesses < MaxAccesses
  /\ IF o.reg \in {"4210", "4211"} THEN UNCHANGED writes ELSE writes < MaxWrites /\ writes' = writes + 1
  /\ accesses' = accesses + 1
  /\ \E d \in Cycles :
       /\ timestamp' = timestamp + d
       /\ IF Calls(o, timestamp + d)
          THEN pc' = "events" /\ op' = o /\ UNCHANGED <<ppu, cpu, timer, owed>>
          ELSE Finish(o, timestamp + d) /\ Owe /\ UNCHANGED <<pc, op>>
  /\ UNCHANGED <<running, InDMABusAccess, since, asleep>>

\* $420B: DMA begins with the next event.
Write_420B ==
  /\ pc = "instr" /\ accesses < MaxAccesses /\ writes < MaxWrites
  /\ accesses' = accesses + 1 /\ writes' = writes + 1
  /\ \E d \in Cycles : timestamp' = timestamp + d
  /\ cpu' = [cpu EXCEPT !.halted = @ \cup {"DMA"}]
  /\ UNCHANGED <<pc, op, running, InDMABusAccess, ppu, timer, owed, since, asleep>>

\* The instruction's end; CLI, SEI, PLP and RTI change I.
Retire ==
  /\ pc = "instr"
  /\ \E i \in BOOLEAN : cpu' = [cpu EXCEPT !.I = i]
  /\ pc' = "fetch"
  /\ UNCHANGED <<timestamp, op, accesses, running, InDMABusAccess, ppu, timer, owed, since, asleep, writes>>

WAI ==
  /\ pc = "instr" /\ accesses = 0
  /\ cpu' = [cpu EXCEPT !.PIN_Delay = Sample(cpu), !.halted = IF Pending(cpu) THEN @ ELSE @ \cup {"WAI"}]
  /\ timestamp' = IF Pending(cpu) THEN timestamp ELSE Later(timestamp, NextEvent)
  /\ pc' = "fetch"
  /\ UNCHANGED <<op, accesses, running, InDMABusAccess, ppu, timer, owed, since, asleep, writes>>

STP ==
  /\ pc = "instr" /\ accesses = 0
  /\ cpu' = [cpu EXCEPT !.halted = @ \cup {"STP"}]
  /\ timestamp' = Later(timestamp, NextEvent)
  /\ pc' = "fetch"
  /\ UNCHANGED <<op, accesses, running, InDMABusAccess, ppu, timer, owed, since, asleep, writes>>

----------------------------------------------------------------------------
(* EventHandler.  Events of one time come in any order.                    *)

LineIRQEvent ==
  /\ pc = "events" /\ ppu.phase # "hdma" /\ ppu.event <= timestamp /\ ppu.event <= PpuEvent
  /\ ppu' = UpdatedPpu(ppu, ppu.event) /\ cpu' = UpdatedCpu(cpu, ppu, ppu.event)
  /\ timer' = Counted(timer, ppu, ppu.event)
  /\ UNCHANGED <<timestamp, control, owed, since, asleep>>

PpuEventDue == pc = "events" /\ PpuEvent <= timestamp /\ PpuEvent <= ppu.event
VBlank == ppu.scanline = Lines - 1
Dozing == "WAI" \in cpu.halted /\ "nmi" \in ppu.NMITIMEEN

\* LinePhase 2.
Refresh ==
  /\ PpuEventDue /\ ppu.phase = "line"
  /\ timestamp' = timestamp + Stall
  /\ ppu' = [ppu EXCEPT !.phase = "refresh"]
  /\ UNCHANGED <<control, cpu, timer, owed, since, asleep>>

\* LinePhase 3; outside of VBlank HDMA runs, and may access a register.
\* DMA_RunHDMA does not set InDMABusAccess: where DMA_InitHDMA has not left it
\* set, in line 0, an access that calls EventHandler enters PPU_Update again,
\* which starts a line and returns a time before its own (512 - 562 cycles).
HBlank ==
  /\ PpuEventDue /\ ppu.phase = "refresh"
  /\ ppu' = IF VBlank THEN [ppu EXCEPT !.phase = "hblank"]
             ELSE [ppu EXCEPT !.phase = "hdma", !.began = timestamp]
  /\ UNCHANGED <<timestamp, control, cpu, timer, owed, since, asleep>>
HDMA ==
  /\ pc = "events" /\ ppu.phase = "hdma" /\ writes < MaxWrites
  /\ \E d \in Cycles, o \in Ops :
       /\ timestamp + d <= ppu.began + HdmaTime
       /\ timestamp' = timestamp + d
       /\ IF Calls(o, timestamp + d)
          THEN pc' = "aborted" /\ UNCHANGED <<ppu, cpu, timer, owed>>
          ELSE Finish(o, PpuEvent) /\ Owe /\ UNCHANGED pc
  /\ writes' = writes + 1
  /\ UNCHANGED <<op, accesses, running, InDMABusAccess, since, asleep>>
HDMADone ==
  /\ pc = "events" /\ ppu.phase = "hdma"
  /\ ppu' = [ppu EXCEPT !.phase = "hblank", !.began = 0]
  /\ InDMABusAccess' = FALSE
  /\ UNCHANGED <<timestamp, pc, op, accesses, running, cpu, timer, owed, since, asleep, writes>>

\* EventHandler's assertion has failed.
Aborted == pc = "aborted" /\ UNCHANGED vars

\* Fault: VBlank begins one line after the last.
LineStartLate ==
  LET p == [ppu EXCEPT !.scanline = (@ + 1) % Lines, !.phase = "line"]
      c == UpdatedCpu(cpu, p, 0)
      begins == p.scanline = Lines
      ends == p.scanline = 0
  IN /\ PpuEventDue /\ ppu.phase = "hblank"
     /\ timestamp' = timestamp - LineLen
     /\ ppu' = [UpdatedPpu(p, 0) EXCEPT !.NMIFlag = begins \/ (@ /\ ~ends)]
     /\ cpu' = IF begins \/ ends THEN SetNMI(c, begins /\ "nmi" \in p.NMITIMEEN) ELSE c
     /\ running' = (running /\ ~ends) /\ InDMABusAccess' = (InDMABusAccess \/ ends)
     /\ timer' = Counted([asked |-> 0, steady |-> TRUE, clear |-> ~ppu.IRQFlag], p, 0)
     /\ asleep' = IF Dozing THEN Earlier(asleep + 1, Lines + 1) ELSE 0
     /\ Owe /\ UNCHANGED <<pc, op, accesses, since, writes>>

\* LinePhase 0: the timer, then the beginning or the end of VBlank.
LineStart ==
  LET p == [ppu EXCEPT !.scanline = (@ + 1) % Lines, !.phase = "line"]
      c == UpdatedCpu(cpu, p, 0)
      begins == p.scanline = Lines - 1
      ends == p.scanline = 0
  IN /\ PpuEventDue /\ ppu.phase = "hblank"
     /\ timestamp' = timestamp - LineLen
     /\ ppu' = [UpdatedPpu(p, 0) EXCEPT !.NMIFlag = begins \/ (@ /\ ~ends)]
     /\ cpu' = IF begins \/ ends THEN SetNMI(c, begins /\ "nmi" \in p.NMITIMEEN) ELSE c
     /\ running' = (running /\ ~ends) /\ InDMABusAccess' = (InDMABusAccess \/ ends)
     /\ timer' = Counted([asked |-> 0, steady |-> TRUE, clear |-> ~ppu.IRQFlag], p, 0)
     /\ asleep' = IF Dozing THEN Earlier(asleep + 1, Lines + 1) ELSE 0
     /\ Owe /\ UNCHANGED <<pc, op, accesses, since, writes>>

EventsDone ==
  /\ pc = "events" /\ ~Due /\ op = NoOp
  /\ pc' = "loop"
  /\ UNCHANGED <<timestamp, op, accesses, running, InDMABusAccess, ppu, cpu, timer, owed, since, asleep, writes>>

\* The access that called it goes on.
OpDone ==
  /\ pc = "events" /\ ~Due /\ op # NoOp
  /\ Finish(op, timestamp) /\ Owe
  /\ pc' = "instr" /\ op' = NoOp
  /\ UNCHANGED <<timestamp, accesses, running, InDMABusAccess, since, asleep, writes>>
----------------------------------------------------------------------------
CpuStep ==
  \/ Enter \/ DmaByte \/ DmaYield \/ DmaEnd \/ Wake \/ StayHalted
  \/ TakeReset \/ TakeNMI \/ TakeIRQ \/ Fetch \/ FetchImmediate \/ Leave
  \/ Write_420B \/ Retire \/ WAI \/ STP
  \/ \E o \in Ops : RegisterAccess(o)
EventStep == LineIRQEvent \/ Refresh \/ HBlank \/ HDMA \/ HDMADone \/ LineStart \/ EventsDone \/ OpDone

Next == StartFrame \/ FrameEnd \/ Reset \/ CpuStep \/ EventStep \/ Aborted

Spec == Init /\ [][Next]_vars

----------------------------------------------------------------------------
Ppu ==
  [NMITIMEEN : SUBSET Enables, HTime : HTimes, VTime : VTimes, scanline : 0 .. Lines - 1,
   phase : {"line", "refresh", "hdma", "hblank"}, IRQThing : BOOLEAN, IRQFlag : BOOLEAN,
   NMIFlag : BOOLEAN, event : Nat, began : Nat]
Timer == [asked : 0 .. 2, steady : BOOLEAN, clear : BOOLEAN]
Cpu ==
  [MultiIRQState : SUBSET Sources, irq : BOOLEAN, NMILineState : BOOLEAN, nmi : BOOLEAN,
   PIN_Delay : SUBSET {"nmi", "irq", "reset", "dma"}, halted : SUBSET {"WAI", "STP", "DMA"}, I : BOOLEAN]

TypeOK ==
  /\ timestamp \in Nat /\ pc \in {"loop", "fetch", "instr", "events", "stopped", "aborted"}
  /\ op \in Ops \cup {NoOp} /\ accesses \in 0 .. MaxAccesses /\ writes \in 0 .. MaxWrites
  /\ ppu \in Ppu /\ cpu \in Cpu /\ {running, InDMABusAccess, owed} \subseteq BOOLEAN /\ since \in 0 .. 3
  /\ asleep \in 0 .. Lines + 1
  /\ timer \in Timer

\* What the CPU sees is what the registers say, whoever changed them last: an
\* instruction, DMA, HDMA, an event or a reset.
LinesAgree ==
  /\ cpu.irq <=> cpu.MultiIRQState # {}
  /\ "ppu" \in cpu.MultiIRQState <=> ppu.IRQFlag
  /\ cpu.NMILineState <=> Line(ppu)

\* No edge of NMI is lost or served twice, though it may rise within an
\* instruction, in WAI or while DMA holds the CPU, and it is served after two
\* of the loop's turns at most.
NmiServed == (cpu.nmi <=> owed) /\ since <= 2

\* In a line that begins with the flag clear and through which the timer's
\* settings stay, it asks exactly once if the line has its match, and not
\* before it; the CPU starts no instruction after the match and before it asks.
TimerOnTime ==
  timer.steady /\ timer.clear =>
    /\ timer.asked = 1 => Armed(ppu) /\ MatchTime(ppu) <= timestamp
    /\ timer.asked # 2
    /\ pc = "fetch" /\ ~Due /\ Armed(ppu) /\ MatchTime(ppu) <= timestamp => timer.asked = 1

\* With VBlank's NMI enabled WAI ends within a frame, whatever else is masked
\* and though the line may have been high when it began.
Awakes == asleep <= Lines

\* snes.cpp:844 asserts that a handler's next event comes later than its last.
HandlersAdvance == pc # "aborted"
============================================================================
