-------------------------- MODULE InterruptsProofs --------------------------
(***************************************************************************)
(* For lines of any length, any settings of the timer, any durations and   *)
(* any number of accesses: types, that the lines are what the registers    *)
(* say, that an NMI is neither lost nor kept waiting, that WAI ends, and   *)
(* that the H/V timer asks exactly once for each match.                    *)
(***************************************************************************)
EXTENDS Interrupts, TLAPS

\* LinesAgree and the latch, of any values.
Agreed(p, c) ==
  /\ c.irq <=> c.MultiIRQState # {}
  /\ "ppu" \in c.MultiIRQState <=> p.IRQFlag
  /\ c.NMILineState <=> Line(p)

\* An NMI that has waited is in the sample; or it came when the last turn did
\* not sample, and no instruction is under way and no DMA.
Waiting ==
  /\ since > 0 => cpu.nmi
  /\ since > 0 /\ "nmi" \notin cpu.PIN_Delay =>
       since = 1 /\ cpu.PIN_Delay = {} /\ pc # "instr" /\ op = NoOp /\ "DMA" \notin cpu.halted
  /\ "reset" \in cpu.PIN_Delay =>
       cpu.PIN_Delay = {"reset"} /\ cpu.halted = {} /\ pc # "instr" /\ op = NoOp
  /\ op # NoOp => pc \in {"events", "aborted"}

IInv == TypeOK /\ LinesAgree /\ (cpu.nmi <=> owed) /\ since <= 2 /\ Waiting

----------------------------------------------------------------------------
(* The lines' operators.                                                   *)

\* CPU_SetIRQ changes its source's bit, and makes the level follow.
LEMMA SetIRQKeeps ==
  ASSUME NEW c \in Cpu, NEW active \in BOOLEAN, NEW w \in Sources
  PROVE  LET d == SetIRQ(c, active, w)
         IN /\ d \in Cpu /\ (d.irq <=> d.MultiIRQState # {})
            /\ w \in d.MultiIRQState <=> active
            /\ \A v \in Sources : v # w => (v \in d.MultiIRQState <=> v \in c.MultiIRQState)
            /\ d.nmi = c.nmi /\ d.NMILineState = c.NMILineState
            /\ d.PIN_Delay = c.PIN_Delay /\ d.halted = c.halted
<1> DEFINE m == IF active THEN c.MultiIRQState \cup {w} ELSE c.MultiIRQState \ {w}
           d == [c EXCEPT !.MultiIRQState = m, !.irq = m # {}]
<1>1. c.MultiIRQState \in SUBSET Sources
  BY DEF Cpu
<1>2. m \in SUBSET Sources /\ (w \in m <=> active)
  BY <1>1
<1>3. \A v \in Sources : v # w => (v \in m <=> v \in c.MultiIRQState)
  BY <1>1
<1>4. (m # {}) \in BOOLEAN
  OBVIOUS
<1> HIDE DEF m
<1>5. d \in Cpu
  BY <1>2, <1>4 DEF Cpu
<1>6. d.MultiIRQState = m /\ (d.irq <=> m # {}) /\ d.nmi = c.nmi /\ d.NMILineState = c.NMILineState
      /\ d.PIN_Delay = c.PIN_Delay /\ d.halted = c.halted
  BY DEF Cpu
<1>7. SetIRQ(c, active, w) = d
  BY DEF SetIRQ, m
<1> HIDE DEF d
<1> QED
  BY <1>2, <1>3, <1>5, <1>6, <1>7

\* CPU_SetNMI latches an edge.
LEMMA SetNMIKeeps ==
  ASSUME NEW c \in Cpu, NEW active \in BOOLEAN
  PROVE  LET d == SetNMI(c, active)
         IN /\ d \in Cpu /\ d.NMILineState = active
            /\ d.nmi <=> c.nmi \/ (active /\ ~c.NMILineState)
            /\ d.irq = c.irq /\ d.MultiIRQState = c.MultiIRQState
            /\ d.PIN_Delay = c.PIN_Delay /\ d.halted = c.halted
  BY DEF SetNMI, Cpu

\* The times are numbers.
LEMMA TimesAreNat ==
  /\ Dot \in Nat /\ Dots \in Nat /\ LineLen \in Nat /\ MAXTS \in Nat
  /\ \A h \in HTimes : Dot * h \in Nat
  /\ \A d \in Cycles : d \in Nat
<1>1. Dot \in Nat /\ Dots \in Nat /\ MAXTS \in Nat /\ \A d \in Cycles : d \in Nat
  BY TimesAssumption
<1>2. \A x, y \in Nat : x * y \in Nat
  OBVIOUS
<1>3. \A h \in HTimes : h \in Nat
  BY SettingsAssumption
<1> QED
  BY <1>1, <1>2, <1>3 DEF LineLen

LEMMA AtTimeTyped ==
  ASSUME NEW p \in Ppu, NEW t \in Nat
  PROVE  AtTime(p, t).thing \in BOOLEAN /\ AtTime(p, t).event \in Nat
<1> DEFINE td == t - MatchTime(p)
           byDot == Armed(p) /\ "h" \in p.NMITIMEEN
<1>1. MatchTime(p) \in Nat
  BY TimesAreNat DEF MatchTime, Ppu
<1>2. AtTime(p, t).event = IF byDot /\ td < 0 THEN t - td ELSE IF byDot /\ td < Dot THEN t + Dot ELSE MAXTS
  BY DEF AtTime
<1>3. AtTime(p, t).thing = (Armed(p) /\ ("h" \in p.NMITIMEEN => 0 <= td /\ td < Dot))
  BY DEF AtTime
<1> HIDE DEF byDot
<1>4. AtTime(p, t).event \in Nat
  BY <1>1, <1>2, TimesAreNat
<1>5. AtTime(p, t).thing \in BOOLEAN
  BY <1>3
<1> QED
  BY <1>4, <1>5

\* PPU_UpdateLineIRQ sets its flag with the line, and leaves NMI alone.
LEMMA UpdateKeeps ==
  ASSUME NEW p \in Ppu, NEW c \in Cpu, NEW t \in Nat, Agreed(p, c)
  PROVE  LET q == UpdatedPpu(p, t)
             d == UpdatedCpu(c, p, t)
         IN /\ q \in Ppu /\ d \in Cpu /\ Agreed(q, d)
            /\ q.NMIFlag = p.NMIFlag /\ q.NMITIMEEN = p.NMITIMEEN /\ q.scanline = p.scanline
            /\ q.HTime = p.HTime /\ q.VTime = p.VTime /\ q.phase = p.phase /\ q.began = p.began
            /\ d.nmi = c.nmi /\ d.NMILineState = c.NMILineState
            /\ d.PIN_Delay = c.PIN_Delay /\ d.halted = c.halted
<1> DEFINE a == Asks(p, t)
           th == AtTime(p, t).thing
           ev == AtTime(p, t).event
           q == [p EXCEPT !.IRQThing = th, !.event = ev, !.IRQFlag = @ \/ a]
<1>1. th \in BOOLEAN /\ ev \in Nat /\ a \in BOOLEAN
  BY AtTimeTyped DEF Asks
<1>2. UpdatedPpu(p, t) = q
  BY DEF UpdatedPpu
<1>3. UpdatedCpu(c, p, t) = IF a THEN SetIRQ(c, TRUE, "ppu") ELSE c
  BY DEF UpdatedCpu
<1> HIDE DEF a, th, ev
<1>4. /\ q \in Ppu /\ q.NMIFlag = p.NMIFlag /\ q.NMITIMEEN = p.NMITIMEEN /\ q.scanline = p.scanline
      /\ q.HTime = p.HTime /\ q.VTime = p.VTime /\ q.phase = p.phase /\ q.began = p.began
      /\ q.IRQFlag <=> p.IRQFlag \/ a
  BY <1>1 DEF Ppu
<1> HIDE DEF q
<1>5. Line(q) <=> Line(p)
  BY <1>4 DEF Line
<1>6. CASE a
  <2> DEFINE d == SetIRQ(c, TRUE, "ppu")
  <2>1. /\ d \in Cpu /\ (d.irq <=> d.MultiIRQState # {}) /\ ("ppu" \in d.MultiIRQState <=> TRUE)
        /\ d.nmi = c.nmi /\ d.NMILineState = c.NMILineState
        /\ d.PIN_Delay = c.PIN_Delay /\ d.halted = c.halted
    BY SetIRQKeeps DEF Sources
  <2> HIDE DEF d
  <2>2. Agreed(q, d)
    BY <1>4, <1>5, <1>6, <2>1 DEF Agreed
  <2>3. UpdatedCpu(c, p, t) = d
    BY <1>3, <1>6 DEF d
  <2> QED
    BY <1>2, <1>4, <2>1, <2>2, <2>3
<1>7. CASE ~a
  <2>1. Agreed(q, c)
    BY <1>4, <1>5, <1>7 DEF Agreed
  <2> QED
    BY <1>2, <1>3, <1>4, <1>7, <2>1
<1> QED
  BY <1>6, <1>7

LEMMA CountedTyped ==
  ASSUME NEW r \in Timer, NEW p, NEW t
  PROVE  Counted(r, p, t) \in Timer
<1>1. Earlier(r.asked + 1, 2) \in 0 .. 2
  BY DEF Timer, Earlier
<1> HIDE DEF Earlier
<1>2. [r EXCEPT !.asked = Earlier(@ + 1, 2)] \in Timer
  BY <1>1 DEF Timer
<1> QED
  BY <1>2 DEF Counted

----------------------------------------------------------------------------
(* The registers.                                                          *)

\* What a register access leaves: the lines agree, an edge is owed.
Good(p, c) ==
  /\ p \in Ppu /\ c \in Cpu /\ Agreed(p, c)
  /\ c.nmi <=> owed \/ (Line(p) /\ ~Line(ppu))
  /\ c.PIN_Delay = cpu.PIN_Delay /\ c.halted = cpu.halted

LEMMA GoodNow ==
  ASSUME TypeOK, LinesAgree, cpu.nmi <=> owed
  PROVE  Good(ppu, cpu) /\ Agreed(ppu, cpu) /\ ppu \in Ppu /\ cpu \in Cpu /\ timer \in Timer
  BY DEF TypeOK, LinesAgree, Good, Agreed

LEMMA SetKeeps ==
  ASSUME NEW p, NEW c, NEW t \in Nat, timer \in Timer, Good(p, c), Set(p, c, t)
  PROVE  Good(ppu', cpu') /\ timer' \in Timer
<1> DEFINE q == UpdatedPpu(p, t)
           d == UpdatedCpu(c, p, t)
           r == [timer EXCEPT !.steady = @ /\ Kept(p, t)]
<1>1. p \in Ppu /\ c \in Cpu /\ Agreed(p, c)
  BY DEF Good
<1>2. /\ q \in Ppu /\ d \in Cpu /\ Agreed(q, d)
      /\ q.NMIFlag = p.NMIFlag /\ q.NMITIMEEN = p.NMITIMEEN
      /\ d.nmi = c.nmi /\ d.PIN_Delay = c.PIN_Delay /\ d.halted = c.halted
  BY <1>1, UpdateKeeps
<1>3. Kept(p, t) \in BOOLEAN
  BY DEF Kept
<1>4. r \in Timer
  <2> HIDE DEF Kept
  <2> QED
    BY <1>3 DEF Timer
<1>5. ppu' = q /\ cpu' = d /\ timer' = Counted(r, p, t)
  BY DEF Set
<1> HIDE DEF q, d, r
<1>6. Line(q) <=> Line(p)
  BY <1>2 DEF Line
<1>7. Good(q, d)
  BY <1>2, <1>6 DEF Good
<1> QED
  BY <1>4, <1>5, <1>7, CountedTyped

LEMMA WriteNMITIMEENKeeps ==
  ASSUME TypeOK, LinesAgree, cpu.nmi <=> owed,
         NEW V \in SUBSET Enables, NEW t \in Nat, Write_NMITIMEEN(V, t)
  PROVE  Good(ppu', cpu') /\ timer' \in Timer
<1> DEFINE p == [ppu EXCEPT !.NMITIMEEN = V, !.IRQFlag = @ /\ V \cap {"h", "v"} # {}]
           n == SetNMI(cpu, Line(p))
           c == SetIRQ(n, p.IRQFlag, "ppu")
<1>1. ppu \in Ppu /\ cpu \in Cpu /\ timer \in Timer /\ Agreed(ppu, cpu) /\ Good(ppu, cpu)
  BY GoodNow
<1>2. CASE ppu.NMITIMEEN = V
  BY <1>1, <1>2 DEF Write_NMITIMEEN
<1>3. CASE ppu.NMITIMEEN # V
  <2>1. p \in Ppu /\ p.IRQFlag \in BOOLEAN /\ Line(p) \in BOOLEAN
    BY <1>1 DEF Ppu, Line
  <2>2. /\ n \in Cpu /\ n.NMILineState = Line(p)
        /\ n.nmi <=> cpu.nmi \/ (Line(p) /\ ~cpu.NMILineState)
        /\ n.PIN_Delay = cpu.PIN_Delay /\ n.halted = cpu.halted
    BY <1>1, <2>1, SetNMIKeeps
  <2>3. Set(p, c, t)
    BY <1>3 DEF Write_NMITIMEEN
  <2> HIDE DEF p, n
  <2>4. /\ c \in Cpu /\ (c.irq <=> c.MultiIRQState # {})
        /\ "ppu" \in c.MultiIRQState <=> p.IRQFlag
        /\ c.nmi = n.nmi /\ c.NMILineState = n.NMILineState
        /\ c.PIN_Delay = n.PIN_Delay /\ c.halted = n.halted
    <3>1. \A f \in BOOLEAN :
            LET d == SetIRQ(n, f, "ppu")
            IN /\ d \in Cpu /\ (d.irq <=> d.MultiIRQState # {}) /\ ("ppu" \in d.MultiIRQState <=> f)
               /\ d.nmi = n.nmi /\ d.NMILineState = n.NMILineState
               /\ d.PIN_Delay = n.PIN_Delay /\ d.halted = n.halted
      BY <2>2, SetIRQKeeps DEF Sources
    <3> QED
      BY <2>1, <3>1
  <2> HIDE DEF c
  <2>5. Agreed(p, c)
    BY <2>2, <2>4 DEF Agreed
  <2>6. cpu.NMILineState <=> Line(ppu)
    BY <1>1 DEF Agreed
  <2>7. Good(p, c)
    BY <2>1, <2>2, <2>4, <2>5, <2>6 DEF Good
  <2> QED
    BY <1>1, <2>3, <2>7, SetKeeps
<1> QED
  BY <1>2, <1>3

LEMMA WriteTimesKeep ==
  ASSUME TypeOK, LinesAgree, cpu.nmi <=> owed, NEW t \in Nat,
         NEW h \in HTimes, NEW v \in VTimes, Write_HTIME(h, t) \/ Write_VTIME(v, t)
  PROVE  Good(ppu', cpu') /\ timer' \in Timer
<1>1. ppu \in Ppu /\ cpu \in Cpu /\ timer \in Timer /\ Agreed(ppu, cpu) /\ Good(ppu, cpu)
  BY GoodNow
<1> DEFINE ph == [ppu EXCEPT !.HTime = h]
           pv == [ppu EXCEPT !.VTime = v]
<1>2. /\ ph \in Ppu /\ ph.IRQFlag = ppu.IRQFlag /\ ph.NMIFlag = ppu.NMIFlag /\ ph.NMITIMEEN = ppu.NMITIMEEN
      /\ pv \in Ppu /\ pv.IRQFlag = ppu.IRQFlag /\ pv.NMIFlag = ppu.NMIFlag /\ pv.NMITIMEEN = ppu.NMITIMEEN
  BY <1>1 DEF Ppu
<1>3. UNCHANGED <<ppu, cpu, timer>> \/ Set(ph, cpu, t) \/ Set(pv, cpu, t)
  BY DEF Write_HTIME, Write_VTIME
<1> HIDE DEF ph, pv
<1>4. Good(ph, cpu) /\ Good(pv, cpu)
  BY <1>1, <1>2 DEF Good, Agreed, Line
<1>5. CASE UNCHANGED <<ppu, cpu, timer>>
  BY <1>1, <1>5
<1>6. CASE Set(ph, cpu, t) \/ Set(pv, cpu, t)
  BY <1>1, <1>4, <1>6, SetKeeps
<1> QED
  BY <1>3, <1>5, <1>6

LEMMA ReadsKeep ==
  ASSUME TypeOK, LinesAgree, cpu.nmi <=> owed, Read_4210 \/ Read_4211
  PROVE  Good(ppu', cpu') /\ timer' \in Timer
<1>1. ppu \in Ppu /\ cpu \in Cpu /\ timer \in Timer /\ Agreed(ppu, cpu) /\ Good(ppu, cpu)
  BY GoodNow
<1>2. CASE Read_4210
  <2> DEFINE p == [ppu EXCEPT !.NMIFlag = FALSE]
             d == SetNMI(cpu, FALSE)
  <2>1. p \in Ppu /\ p.IRQFlag = ppu.IRQFlag /\ p.NMIFlag = FALSE
    BY <1>1 DEF Ppu
  <2>2. /\ d \in Cpu /\ d.NMILineState = FALSE /\ (d.nmi <=> cpu.nmi)
        /\ d.irq = cpu.irq /\ d.MultiIRQState = cpu.MultiIRQState
        /\ d.PIN_Delay = cpu.PIN_Delay /\ d.halted = cpu.halted
    BY <1>1, SetNMIKeeps
  <2>3. ppu' = p /\ cpu' = d /\ timer' = timer
    BY <1>2 DEF Read_4210
  <2> HIDE DEF p, d
  <2>4. Good(p, d)
    BY <1>1, <2>1, <2>2 DEF Good, Agreed, Line
  <2> QED
    BY <1>1, <2>3, <2>4
<1>3. CASE Read_4211
  <2> DEFINE p == [ppu EXCEPT !.IRQFlag = FALSE]
             d == SetIRQ(cpu, FALSE, "ppu")
  <2>1. p \in Ppu /\ p.IRQFlag = FALSE /\ p.NMIFlag = ppu.NMIFlag /\ p.NMITIMEEN = ppu.NMITIMEEN
    BY <1>1 DEF Ppu
  <2>2. /\ d \in Cpu /\ (d.irq <=> d.MultiIRQState # {}) /\ ("ppu" \in d.MultiIRQState <=> FALSE)
        /\ d.nmi = cpu.nmi /\ d.NMILineState = cpu.NMILineState
        /\ d.PIN_Delay = cpu.PIN_Delay /\ d.halted = cpu.halted
    BY <1>1, SetIRQKeeps DEF Sources
  <2>3. ppu' = p /\ cpu' = d /\ timer' = timer
    BY <1>3 DEF Read_4211
  <2> HIDE DEF p, d
  <2>4. Good(p, d)
    BY <1>1, <2>1, <2>2 DEF Good, Agreed, Line
  <2> QED
    BY <1>1, <2>3, <2>4
<1> QED
  BY <1>2, <1>3

LEMMA CartLineKeeps ==
  ASSUME TypeOK, LinesAgree, cpu.nmi <=> owed, NEW b \in BOOLEAN, CartLine(b)
  PROVE  Good(ppu', cpu') /\ timer' \in Timer
<1>1. ppu \in Ppu /\ cpu \in Cpu /\ timer \in Timer /\ Agreed(ppu, cpu) /\ Good(ppu, cpu)
  BY GoodNow
<1> DEFINE d == SetIRQ(cpu, b, "cart")
<1>2. /\ d \in Cpu /\ (d.irq <=> d.MultiIRQState # {})
      /\ "ppu" \in d.MultiIRQState <=> "ppu" \in cpu.MultiIRQState
      /\ d.nmi = cpu.nmi /\ d.NMILineState = cpu.NMILineState
      /\ d.PIN_Delay = cpu.PIN_Delay /\ d.halted = cpu.halted
  BY <1>1, SetIRQKeeps DEF Sources
<1>3. cpu' = d /\ ppu' = ppu /\ timer' = timer
  BY DEF CartLine
<1> HIDE DEF d
<1>4. Good(ppu, d)
  BY <1>1, <1>2 DEF Good, Agreed
<1> QED
  BY <1>1, <1>3, <1>4

\* Whichever register is accessed.
LEMMA FinishKeeps ==
  ASSUME TypeOK, LinesAgree, cpu.nmi <=> owed, NEW o \in Ops, NEW t \in Nat, Finish(o, t)
  PROVE  Good(ppu', cpu') /\ timer' \in Timer
<1>1. CASE o.reg = "NMITIMEEN" /\ Write_NMITIMEEN(o.V, t)
  <2>1. o.V \in SUBSET Enables
    BY <1>1 DEF Ops
  <2> QED
    BY <1>1, <2>1, WriteNMITIMEENKeeps
<1>2. CASE o.reg = "HTIME" /\ Write_HTIME(o.V, t)
  <2>1. o.V \in HTimes
    BY <1>2 DEF Ops
  <2>2. PICK v \in VTimes : TRUE
    BY SettingsAssumption
  <2> QED
    BY <1>2, <2>1, <2>2, WriteTimesKeep
<1>3. CASE o.reg = "VTIME" /\ Write_VTIME(o.V, t)
  <2>1. o.V \in VTimes
    BY <1>3 DEF Ops
  <2>2. PICK h \in HTimes : TRUE
    BY SettingsAssumption
  <2> QED
    BY <1>3, <2>1, <2>2, WriteTimesKeep
<1>4. CASE o.reg = "4210" /\ Read_4210
  BY <1>4, ReadsKeep
<1>5. CASE o.reg = "4211" /\ Read_4211
  BY <1>5, ReadsKeep
<1>6. CASE o.reg = "cart" /\ CartLine(o.V)
  <2>1. o.V \in BOOLEAN
    BY <1>6 DEF Ops
  <2> QED
    BY <1>6, <2>1, CartLineKeeps
<1> QED
  BY <1>1, <1>2, <1>3, <1>4, <1>5, <1>6 DEF Finish

----------------------------------------------------------------------------
(* The steps.                                                              *)

\* TypeOK, but for the records.
Control ==
  /\ timestamp \in Nat /\ pc \in {"loop", "fetch", "instr", "events", "stopped", "aborted"}
  /\ op \in Ops \cup {NoOp} /\ accesses \in 0 .. MaxAccesses /\ writes \in 0 .. MaxWrites
  /\ running \in BOOLEAN /\ InDMABusAccess \in BOOLEAN /\ owed \in BOOLEAN
  /\ asleep \in 0 .. Lines + 1

LEMMA Unfolded ==
  ASSUME IInv
  PROVE  /\ Control /\ TypeOK /\ LinesAgree /\ (cpu.nmi <=> owed) /\ Waiting /\ since \in 0 .. 2
         /\ Agreed(ppu, cpu) /\ Good(ppu, cpu) /\ ppu \in Ppu /\ cpu \in Cpu /\ timer \in Timer
<1>1. TypeOK /\ LinesAgree /\ (cpu.nmi <=> owed) /\ since <= 2 /\ Waiting
  BY DEF IInv
<1>2. Control /\ since \in 0 .. 2
  BY <1>1 DEF TypeOK, Control
<1> QED
  BY <1>1, <1>2, GoodNow

\* IInv, by its parts.
Parts ==
  /\ Control /\ ppu \in Ppu /\ cpu \in Cpu /\ timer \in Timer /\ since \in 0 .. 2
  /\ Agreed(ppu, cpu) /\ (cpu.nmi <=> owed) /\ Waiting

LEMMA Folded == Parts => IInv
<1> SUFFICES ASSUME Parts PROVE IInv
  OBVIOUS
<1>1. TypeOK /\ since <= 2
  BY DEF TypeOK, Parts, Control
<1>2. LinesAgree
  BY DEF LinesAgree, Agreed, Parts
<1> QED
  BY <1>1, <1>2 DEF IInv, Parts

\* A step that changes the lines as an access or an event does.
LEMMA LinesStep ==
  ASSUME IInv, Control', Good(ppu', cpu'), timer' \in Timer, Owe, since' = since,
         pc' # "instr" \/ pc = "instr" \/ op # NoOp,
         op' = NoOp \/ op # NoOp \/ pc = "instr",
         op' # NoOp => pc' \in {"events", "aborted"}
  PROVE  IInv'
<1>1. /\ ppu' \in Ppu /\ cpu' \in Cpu /\ Agreed(ppu', cpu')
      /\ cpu'.nmi <=> owed \/ (Line(ppu') /\ ~Line(ppu))
      /\ cpu'.PIN_Delay = cpu.PIN_Delay /\ cpu'.halted = cpu.halted
  BY DEF Good
<1>2. cpu'.nmi <=> owed'
  BY <1>1 DEF Owe
<1>3. Waiting /\ since \in 0 .. 2 /\ (cpu.nmi <=> owed)
  BY Unfolded
<1>4. since > 0 => cpu'.nmi
  BY <1>1, <1>3 DEF Waiting
<1>5. Waiting'
  BY <1>1, <1>3, <1>4 DEF Waiting
<1>6. Agreed(ppu, cpu)'
  BY <1>1 DEF Agreed, Line
<1>7. Parts'
  BY <1>1, <1>2, <1>3, <1>5, <1>6 DEF Parts
<1> QED
  BY <1>7, Folded, PTL

\* A step of the CPU's loop.
LEMMA CpuKeeps ==
  ASSUME IInv, Control', ppu' = ppu, timer' = timer, cpu' \in Cpu,
         cpu'.irq = cpu.irq, cpu'.MultiIRQState = cpu.MultiIRQState, cpu'.NMILineState = cpu.NMILineState,
         cpu'.nmi <=> owed', since' \in 0 .. 2, Waiting'
  PROVE  IInv'
<1>1. Agreed(ppu, cpu) /\ ppu \in Ppu /\ timer \in Timer
  BY Unfolded
<1>2. Agreed(ppu, cpu)'
  BY <1>1 DEF Agreed, Line
<1>3. Parts'
  BY <1>1, <1>2 DEF Parts
<1> QED
  BY <1>3, Folded, PTL

LEMMA NextEventTyped ==
  ASSUME TypeOK
  PROVE  PpuEvent \in Nat /\ NextEvent \in Nat /\ Later(timestamp, NextEvent) \in Nat
<1>1. LineLen \in Nat /\ RefreshAt \in Nat /\ HBlankAt \in Nat
  BY TimesAreNat, TimesAssumption
<1>2. ppu.phase \in {"line", "refresh", "hdma", "hblank"} /\ ppu.event \in Nat /\ timestamp \in Nat
  BY DEF TypeOK, Ppu
<1>3. PpuEvent \in Nat
  BY <1>1, <1>2 DEF PpuEvent
<1>4. NextEvent \in Nat
  BY <1>2, <1>3 DEF NextEvent, Earlier
<1> QED
  BY <1>2, <1>3, <1>4 DEF Later

\* FrameEnd, Reset and StartFrame: outside of CPU_Run.
LEMMA FrameSteps ==
  ASSUME IInv, StartFrame \/ FrameEnd \/ Reset
  PROVE  IInv'
<1>1. /\ Control /\ TypeOK /\ LinesAgree /\ (cpu.nmi <=> owed) /\ Waiting /\ since \in 0 .. 2
      /\ Agreed(ppu, cpu) /\ Good(ppu, cpu) /\ ppu \in Ppu /\ cpu \in Cpu /\ timer \in Timer
  BY Unfolded
<1>2. CASE StartFrame
  <2>1. Control' /\ Good(ppu', cpu') /\ timer' \in Timer /\ since' = since
    BY <1>1, <1>2 DEF StartFrame, Control, Good
  <2>2. Owe
    BY <1>1, <1>2 DEF StartFrame, Owe, Control
  <2>3. op' = NoOp /\ pc' = "loop"
    BY <1>1, <1>2 DEF StartFrame, Waiting
  <2> QED
    BY <2>1, <2>2, <2>3, LinesStep
<1>3. CASE FrameEnd
  <2> DEFINE q == UpdatedPpu(ppu, timestamp)
             d == UpdatedCpu(cpu, ppu, timestamp)
  <2>1. timestamp \in Nat
    BY <1>1 DEF Control
  <2>2. /\ q \in Ppu /\ d \in Cpu /\ Agreed(q, d)
        /\ q.NMIFlag = ppu.NMIFlag /\ q.NMITIMEEN = ppu.NMITIMEEN
        /\ d.nmi = cpu.nmi /\ d.PIN_Delay = cpu.PIN_Delay /\ d.halted = cpu.halted
    BY <1>1, <2>1, UpdateKeeps
  <2>3. ppu' = q /\ cpu' = d /\ timer' = Counted(timer, ppu, timestamp)
    BY <1>3 DEF FrameEnd
  <2> HIDE DEF q, d
  <2>4. Line(q) <=> Line(ppu)
    BY <2>2 DEF Line
  <2>5. Good(q, d)
    BY <1>1, <2>2, <2>4 DEF Good
  <2>6. Owe
    BY <1>1, <1>3, <2>3, <2>4 DEF FrameEnd, Owe, Control
  <2>7. Control' /\ since' = since /\ op' = NoOp /\ pc' = "stopped"
    BY <1>1, <1>3 DEF FrameEnd, Control, Waiting
  <2> QED
    BY <1>1, <2>3, <2>5, <2>6, <2>7, CountedTyped, LinesStep
<1>4. CASE Reset
  <2> DEFINE n == SetNMI(cpu, FALSE)
             i == SetIRQ(n, FALSE, "ppu")
             j == SetIRQ(i, FALSE, "cart")
  <2>1. n \in Cpu /\ n.NMILineState = FALSE
    BY <1>1, SetNMIKeeps
  <2>2. cpu' = [j EXCEPT !.nmi = FALSE, !.PIN_Delay = {"reset"}, !.halted = {}]
    BY <1>4 DEF Reset
  <2> HIDE DEF n
  <2>3. i \in Cpu /\ i.NMILineState = FALSE /\ ("ppu" \in i.MultiIRQState <=> FALSE)
    BY <2>1, SetIRQKeeps DEF Sources
  <2> HIDE DEF i
  <2>4. /\ j \in Cpu /\ j.NMILineState = FALSE /\ ("ppu" \in j.MultiIRQState <=> FALSE)
        /\ j.irq <=> j.MultiIRQState # {}
    BY <2>3, SetIRQKeeps DEF Sources
  <2> HIDE DEF j
  <2>5. /\ cpu' \in Cpu /\ cpu'.NMILineState = FALSE /\ cpu'.MultiIRQState = j.MultiIRQState
        /\ cpu'.irq = j.irq /\ cpu'.nmi = FALSE /\ cpu'.PIN_Delay = {"reset"} /\ cpu'.halted = {}
    BY <2>2, <2>4 DEF Cpu
  <2>6. Lines - 1 \in 0 .. Lines - 1 /\ LineLen - 1 \in Nat /\ MAXTS \in Nat
    BY TimesAssumption, TimesAreNat
  <2>7. ppu' = [ppu EXCEPT !.NMITIMEEN = {}, !.scanline = Lines - 1, !.phase = "hblank",
                           !.IRQThing = FALSE, !.IRQFlag = FALSE, !.NMIFlag = FALSE, !.event = MAXTS,
                           !.began = 0]
    BY <1>4 DEF Reset
  <2>8. ppu' \in Ppu /\ ppu'.IRQFlag = FALSE /\ ppu'.NMIFlag = FALSE
    BY <1>1, <2>6, <2>7 DEF Ppu
  <2>9. Agreed(ppu, cpu)'
    BY <2>4, <2>5, <2>8 DEF Agreed, Line
  <2>10. timer' \in Timer /\ since' = 0 /\ owed' = FALSE /\ op' = op /\ pc' = pc /\ pc = "stopped"
    BY <1>1, <1>4 DEF Reset, Timer
  <2>11. Control'
    <3>1. writes' \in 0 .. MaxWrites /\ asleep' \in 0 .. Lines + 1
      BY <1>1, <1>4, TimesAssumption, SettingsAssumption DEF Reset, Control
    <3>2. timestamp' \in Nat /\ UNCHANGED <<accesses, running, InDMABusAccess>>
      BY <1>4, <2>6 DEF Reset
    <3> QED
      BY <1>1, <2>10, <3>1, <3>2 DEF Control
  <2>12. Waiting'
    BY <1>1, <2>5, <2>10 DEF Waiting
  <2>13. Parts'
    BY <2>5, <2>8, <2>9, <2>10, <2>11, <2>12 DEF Parts
  <2> QED
    BY <2>13, Folded, PTL
<1> QED
  BY <1>2, <1>3, <1>4

\* The accesses of instructions, DMA and HDMA.
LEMMA AccessSteps ==
  ASSUME IInv, DmaByte \/ HDMA \/ OpDone \/ (\E o \in Ops : RegisterAccess(o))
  PROVE  IInv'
<1>1. /\ Control /\ TypeOK /\ LinesAgree /\ (cpu.nmi <=> owed) /\ Waiting
      /\ Good(ppu, cpu) /\ timer \in Timer
  BY Unfolded
<1>2. \A d \in Cycles : timestamp + d \in Nat
  BY <1>1, TimesAreNat DEF Control
<1>3. PpuEvent \in Nat
  BY <1>1, NextEventTyped
<1>4. Owe => owed' \in BOOLEAN
  BY <1>1 DEF Owe, Control, Line
<1>5. UNCHANGED <<ppu, cpu, timer, owed>> => Good(ppu', cpu') /\ timer' \in Timer /\ Owe
  BY <1>1 DEF Owe, Good, Control
<1>6. writes < MaxWrites /\ writes' = writes + 1 => writes' \in 0 .. MaxWrites
  BY <1>1, SettingsAssumption DEF Control
<1>7. CASE DmaByte
  <2>1. PICK d \in Cycles, o \in Ops : timestamp' = timestamp + d /\ Finish(o, timestamp + d)
    BY <1>7 DEF DmaByte
  <2>2. Good(ppu', cpu') /\ timer' \in Timer
    BY <1>1, <1>2, <2>1, FinishKeeps
  <2>3. Owe /\ since' = since /\ pc' = "loop" /\ op' = NoOp
    BY <1>1, <1>7 DEF DmaByte, Waiting
  <2>4. Control'
    BY <1>1, <1>2, <1>4, <1>6, <1>7, <2>1, <2>3 DEF DmaByte, Control
  <2> QED
    BY <2>2, <2>3, <2>4, LinesStep
<1>8. CASE HDMA
  <2>1. PICK d \in Cycles, o \in Ops :
          /\ timestamp' = timestamp + d
          /\ IF Calls(o, timestamp + d)
             THEN pc' = "aborted" /\ UNCHANGED <<ppu, cpu, timer, owed>>
             ELSE Finish(o, PpuEvent) /\ Owe /\ UNCHANGED pc
    BY <1>8 DEF HDMA
  <2>2. Good(ppu', cpu') /\ timer' \in Timer /\ Owe
    BY <1>1, <1>3, <1>5, <2>1, FinishKeeps
  <2>3. pc' \in {"events", "aborted"} /\ op' = op /\ since' = since /\ pc = "events"
    BY <1>8, <2>1 DEF HDMA
  <2>4. Control'
    BY <1>1, <1>2, <1>4, <1>6, <1>8, <2>1, <2>2, <2>3 DEF HDMA, Control
  <2> QED
    BY <2>2, <2>3, <2>4, LinesStep
<1>9. CASE OpDone
  <2>1. op \in Ops /\ timestamp \in Nat
    BY <1>1, <1>9 DEF OpDone, Control
  <2>2. Good(ppu', cpu') /\ timer' \in Timer
    BY <1>1, <1>9, <2>1, FinishKeeps DEF OpDone
  <2>3. Owe /\ since' = since /\ op' = NoOp /\ op # NoOp /\ pc' = "instr"
    BY <1>9 DEF OpDone
  <2>4. Control'
    BY <1>1, <1>4, <1>9, <2>3 DEF OpDone, Control
  <2> QED
    BY <2>2, <2>3, <2>4, LinesStep
<1>10. ASSUME NEW o \in Ops, RegisterAccess(o)
       PROVE  IInv'
  <2>1. PICK d \in Cycles :
          /\ timestamp' = timestamp + d
          /\ IF Calls(o, timestamp + d)
             THEN pc' = "events" /\ op' = o /\ UNCHANGED <<ppu, cpu, timer, owed>>
             ELSE Finish(o, timestamp + d) /\ Owe /\ UNCHANGED <<pc, op>>
    BY <1>10 DEF RegisterAccess
  <2>2. Good(ppu', cpu') /\ timer' \in Timer /\ Owe
    BY <1>1, <1>2, <1>5, <2>1, FinishKeeps
  <2>3. pc = "instr" /\ op = NoOp /\ since' = since
    BY <1>1, <1>10 DEF RegisterAccess, Waiting
  <2>4. (pc' = "events" /\ op' \in Ops) \/ (pc' = "instr" /\ op' = NoOp)
    BY <2>1, <2>3
  <2>5. accesses' \in 0 .. MaxAccesses /\ writes' \in 0 .. MaxWrites
    BY <1>1, <1>6, <1>10, SettingsAssumption DEF RegisterAccess, Control
  <2>6. Control'
    BY <1>1, <1>2, <1>4, <1>10, <2>1, <2>2, <2>5, <2>4 DEF RegisterAccess, Control
  <2> QED
    BY <2>2, <2>3, <2>6, <2>4, LinesStep
<1> QED
  BY <1>7, <1>8, <1>9, <1>10

\* EventHandler's events, but for HDMA's accesses.
LEMMA EventSteps ==
  ASSUME IInv, LineIRQEvent \/ Refresh \/ HBlank \/ HDMADone \/ LineStart \/ EventsDone
  PROVE  IInv'
<1>1. /\ Control /\ TypeOK /\ LinesAgree /\ (cpu.nmi <=> owed) /\ Waiting
      /\ Agreed(ppu, cpu) /\ Good(ppu, cpu) /\ ppu \in Ppu /\ cpu \in Cpu /\ timer \in Timer
  BY Unfolded
<1>2. CASE LineIRQEvent
  <2> DEFINE q == UpdatedPpu(ppu, ppu.event)
             d == UpdatedCpu(cpu, ppu, ppu.event)
  <2>1. ppu.event \in Nat
    BY <1>1 DEF Ppu
  <2>2. /\ q \in Ppu /\ d \in Cpu /\ Agreed(q, d)
        /\ q.NMIFlag = ppu.NMIFlag /\ q.NMITIMEEN = ppu.NMITIMEEN
        /\ d.nmi = cpu.nmi /\ d.PIN_Delay = cpu.PIN_Delay /\ d.halted = cpu.halted
    BY <1>1, <2>1, UpdateKeeps
  <2>3. ppu' = q /\ cpu' = d /\ timer' = Counted(timer, ppu, ppu.event)
    BY <1>2 DEF LineIRQEvent
  <2> HIDE DEF q, d
  <2>4. Line(q) <=> Line(ppu)
    BY <2>2 DEF Line
  <2>5. Good(q, d)
    BY <1>1, <2>2, <2>4 DEF Good
  <2>6. Owe
    BY <1>1, <1>2, <2>3, <2>4 DEF LineIRQEvent, Owe, Control
  <2>7. Control' /\ since' = since /\ op' = op /\ pc' = pc /\ pc = "events"
    BY <1>1, <1>2 DEF LineIRQEvent, Control, control
  <2> QED
    BY <1>1, <2>3, <2>5, <2>6, <2>7, CountedTyped, LinesStep
<1>3. CASE Refresh \/ HBlank \/ HDMADone
  <2>1. PICK f \in {"refresh", "hdma", "hblank"}, b \in Nat :
          ppu' = [ppu EXCEPT !.phase = f, !.began = b]
    <3>1. ppu.began \in Nat /\ timestamp \in Nat /\ ppu = [ppu EXCEPT !.began = ppu.began]
      BY <1>1 DEF Ppu, Control
    <3>2. \A f : [ppu EXCEPT !.phase = f] = [ppu EXCEPT !.phase = f, !.began = ppu.began]
      BY <1>1 DEF Ppu
    <3> QED
      BY <1>3, <3>1, <3>2 DEF Refresh, HBlank, HDMADone
  <2>2. /\ ppu' \in Ppu /\ ppu'.NMIFlag = ppu.NMIFlag /\ ppu'.NMITIMEEN = ppu.NMITIMEEN
        /\ ppu'.IRQFlag = ppu.IRQFlag
    BY <1>1, <2>1 DEF Ppu
  <2>3. UNCHANGED <<cpu, timer, owed, since, pc, op>> /\ pc = "events"
    BY <1>3 DEF Refresh, HBlank, HDMADone, control, PpuEventDue
  <2>4. Good(ppu', cpu') /\ Owe
    BY <1>1, <2>2, <2>3 DEF Good, Agreed, Line, Owe, Control
  <2>5. Stall \in Nat
    BY TimesAssumption
  <2>6. Control'
    <3>1. timestamp' \in Nat
      BY <1>1, <1>3, <2>5 DEF Refresh, HBlank, HDMADone, Control
    <3>2. UNCHANGED <<accesses, running, writes, asleep>> /\ (InDMABusAccess' = InDMABusAccess \/ InDMABusAccess' = FALSE)
      BY <1>3 DEF Refresh, HBlank, HDMADone, control
    <3> QED
      BY <1>1, <2>3, <3>1, <3>2 DEF Control
  <2> QED
    BY <1>1, <2>3, <2>4, <2>6, LinesStep
<1>4. CASE LineStart
  <2> DEFINE p == [ppu EXCEPT !.scanline = (@ + 1) % Lines, !.phase = "line"]
             c == UpdatedCpu(cpu, p, 0)
             q == UpdatedPpu(p, 0)
             begins == p.scanline = Lines - 1
             ends == p.scanline = 0
             fl == begins \/ (q.NMIFlag /\ ~ends)
             n == SetNMI(c, begins /\ "nmi" \in p.NMITIMEEN)
             r == [asked |-> 0, steady |-> TRUE, clear |-> ~ppu.IRQFlag]
  <2>1. /\ ppu' = [q EXCEPT !.NMIFlag = fl]
        /\ cpu' = IF begins \/ ends THEN n ELSE c
        /\ timer' = Counted(r, p, 0) /\ Owe /\ since' = since /\ pc' = pc /\ op' = op /\ pc = "events"
    BY <1>4 DEF LineStart, PpuEventDue
  <2>2. (ppu.scanline + 1) % Lines \in 0 .. Lines - 1
    BY <1>1, TimesAssumption DEF Ppu
  <2>3. /\ p \in Ppu /\ p.NMIFlag = ppu.NMIFlag /\ p.NMITIMEEN = ppu.NMITIMEEN /\ p.IRQFlag = ppu.IRQFlag
    BY <1>1, <2>2 DEF Ppu
  <2>4. r \in Timer
    BY DEF Timer
  <2> HIDE DEF p, r
  <2>5. Agreed(p, cpu)
    BY <1>1, <2>3 DEF Agreed, Line
  <2>6. /\ q \in Ppu /\ c \in Cpu /\ Agreed(q, c)
        /\ q.NMIFlag = p.NMIFlag /\ q.NMITIMEEN = p.NMITIMEEN
        /\ c.nmi = cpu.nmi /\ c.NMILineState = cpu.NMILineState
        /\ c.PIN_Delay = cpu.PIN_Delay /\ c.halted = cpu.halted
    BY <1>1, <2>5, <2>3, UpdateKeeps
  <2> HIDE DEF q, c
  <2>7. /\ n \in Cpu /\ (n.NMILineState <=> begins /\ "nmi" \in p.NMITIMEEN)
        /\ n.nmi <=> c.nmi \/ (begins /\ "nmi" \in p.NMITIMEEN /\ ~c.NMILineState)
        /\ n.irq = c.irq /\ n.MultiIRQState = c.MultiIRQState
        /\ n.PIN_Delay = c.PIN_Delay /\ n.halted = c.halted
    BY <2>6, SetNMIKeeps
  <2> HIDE DEF n
  <2>8. /\ ppu' \in Ppu /\ (ppu'.NMIFlag <=> begins \/ (ppu.NMIFlag /\ ~ends))
        /\ ppu'.NMITIMEEN = ppu.NMITIMEEN /\ ppu'.IRQFlag = q.IRQFlag
    BY <2>1, <2>3, <2>6 DEF Ppu
  <2> HIDE DEF begins, ends
  <2>9. cpu.NMILineState <=> Line(ppu)
    BY <1>1 DEF Agreed
  <2>10. Line(ppu') <=> (begins \/ (ppu.NMIFlag /\ ~ends)) /\ "nmi" \in ppu.NMITIMEEN
    BY <2>8 DEF Line
  <2>11. Good(ppu', cpu')
    <3>1. CASE begins \/ ends
      <4>1. cpu' = n
        BY <2>1, <3>1
      <4>2. Line(ppu') <=> begins /\ "nmi" \in ppu.NMITIMEEN
        BY <2>10, <3>1
      <4>3. Agreed(ppu', n)
        BY <2>3, <2>6, <2>7, <2>8, <4>2 DEF Agreed
      <4>4. n.nmi <=> owed \/ (Line(ppu') /\ ~Line(ppu))
        BY <1>1, <2>3, <2>6, <2>7, <2>9, <4>2
      <4> QED
        BY <2>6, <2>7, <2>8, <4>1, <4>3, <4>4 DEF Good
    <3>2. CASE ~(begins \/ ends)
      <4>1. cpu' = c
        BY <2>1, <3>2
      <4>2. Line(ppu') <=> Line(ppu)
        BY <2>10, <3>2 DEF Line
      <4>3. Agreed(ppu', c)
        BY <2>6, <2>8, <2>9, <4>2 DEF Agreed
      <4> QED
        BY <1>1, <2>6, <2>8, <4>1, <4>2, <4>3 DEF Good
    <3> QED
      BY <3>1, <3>2
  <2>12. timer' \in Timer
    BY <2>1, <2>4, CountedTyped
  <2>13. Control'
    <3>1. timestamp' \in Nat
      BY <1>1, <1>4, TimesAreNat DEF LineStart, PpuEventDue, PpuEvent, Control
    <3>2. running' \in BOOLEAN /\ InDMABusAccess' \in BOOLEAN /\ UNCHANGED <<accesses, writes>>
      BY <1>1, <1>4 DEF LineStart, Control
    <3>3. asleep' = IF Dozing THEN Earlier(asleep + 1, Lines + 1) ELSE 0
      BY <1>4 DEF LineStart
    <3>4. asleep' \in 0 .. Lines + 1
      BY <1>1, <3>3, TimesAssumption DEF Control, Earlier
    <3>5. owed' \in BOOLEAN
      BY <1>1, <2>1 DEF Owe, Control, Line
    <3> QED
      BY <1>1, <2>1, <3>1, <3>2, <3>4, <3>5 DEF Control
  <2> QED
    BY <2>1, <2>11, <2>12, <2>13, LinesStep
<1>5. CASE EventsDone
  <2>1. UNCHANGED <<ppu, cpu, timer, owed, since, op>> /\ pc' = "loop" /\ op = NoOp
    BY <1>5 DEF EventsDone
  <2>2. Control'
    BY <1>1, <1>5 DEF EventsDone, Control
  <2>3. Good(ppu', cpu') /\ Owe
    BY <1>1, <2>1 DEF Good, Owe, Control
  <2> QED
    BY <1>1, <2>1, <2>2, <2>3, LinesStep
<1> QED
  BY <1>2, <1>3, <1>4, <1>5

\* SampleIRQ sees the latch.
LEMMA SampleTyped ==
  ASSUME NEW c \in Cpu
  PROVE  /\ Sample(c) \in SUBSET {"nmi", "irq", "reset", "dma"} /\ "reset" \notin Sample(c)
         /\ "nmi" \in Sample(c) <=> c.nmi
  BY DEF Sample

\* The steps that leave the lines alone.
LEMMA PcSteps ==
  ASSUME IInv, Enter \/ Leave \/ DmaYield \/ StayHalted
  PROVE  IInv'
<1>1. Control /\ TypeOK /\ (cpu.nmi <=> owed) /\ Waiting /\ Good(ppu, cpu) /\ timer \in Timer
  BY Unfolded
<1>2. Later(timestamp, NextEvent) \in Nat
  BY <1>1, NextEventTyped
<1>3. UNCHANGED <<ppu, cpu, timer, owed, since, op, accesses, running, writes, asleep>>
  BY DEF Enter, Leave, DmaYield, StayHalted
<1>4. pc' \in {"fetch", "events"} /\ pc # "events" /\ pc # "aborted" /\ InDMABusAccess' \in BOOLEAN
  BY <1>1 DEF Enter, Leave, DmaYield, StayHalted, Control
<1>5. timestamp' \in Nat
  BY <1>1, <1>2 DEF Enter, Leave, DmaYield, StayHalted, Control
<1>6. Control'
  BY <1>1, <1>3, <1>4, <1>5 DEF Control
<1>7. op = NoOp
  BY <1>1, <1>4 DEF Waiting
<1>8. Good(ppu', cpu') /\ Owe
  BY <1>1, <1>3 DEF Good, Agreed, Line, Owe, Control
<1> QED
  BY <1>1, <1>3, <1>4, <1>6, <1>7, <1>8, LinesStep

\* A turn of the inner loop, which takes an interrupt or fetches.
LEMMA TurnSteps ==
  ASSUME IInv, TakeReset \/ TakeNMI \/ TakeIRQ \/ Fetch \/ FetchImmediate
  PROVE  IInv'
<1>1. Control /\ (cpu.nmi <=> owed) /\ Waiting /\ since \in 0 .. 2 /\ cpu \in Cpu
  BY Unfolded
<1>2. Turn
  BY DEF TakeReset, TakeNMI, TakeIRQ, Fetch, FetchImmediate
<1>3. PICK d \in Cycles : timestamp' = timestamp + d
  BY <1>2 DEF Turn
<1>4. /\ pc = "fetch" /\ "DMA" \notin cpu.halted /\ op = NoOp /\ op' = NoOp
      /\ ppu' = ppu /\ timer' = timer
      /\ UNCHANGED <<running, InDMABusAccess, asleep, writes>>
  BY <1>1, <1>2 DEF Turn, Waiting
<1>5. timestamp' \in Nat
  BY <1>1, <1>3, TimesAreNat DEF Control
<1>6. accesses' \in 0 .. MaxAccesses /\ pc' \in {"fetch", "instr"} /\ owed' \in BOOLEAN
  <2>1. accesses' \in {0, accesses} /\ owed' \in {FALSE, owed} /\ pc' \in {pc, "instr"}
    BY DEF TakeReset, TakeNMI, TakeIRQ, Fetch, FetchImmediate
  <2>2. 0 \in 0 .. MaxAccesses
    BY SettingsAssumption
  <2> QED
    BY <1>1, <1>4, <2>1, <2>2 DEF Control
<1>7. Control'
  BY <1>1, <1>4, <1>5, <1>6 DEF Control
<1>8. \A S \in SUBSET {"nmi", "irq", "reset", "dma"}, i \in BOOLEAN, b \in BOOLEAN :
        LET c == [cpu EXCEPT !.I = i, !.PIN_Delay = S, !.nmi = b]
        IN /\ c \in Cpu /\ c.irq = cpu.irq /\ c.MultiIRQState = cpu.MultiIRQState
           /\ c.NMILineState = cpu.NMILineState /\ c.nmi = b /\ c.PIN_Delay = S /\ c.halted = cpu.halted
  BY <1>1 DEF Cpu
<1>9. CASE TakeNMI
  <2>1. cpu' = [cpu EXCEPT !.I = TRUE, !.PIN_Delay = {}, !.nmi = FALSE] /\ owed' = FALSE /\ since' = 0
    BY <1>9 DEF TakeNMI
  <2>2. /\ cpu' \in Cpu /\ cpu'.irq = cpu.irq /\ cpu'.MultiIRQState = cpu.MultiIRQState
        /\ cpu'.NMILineState = cpu.NMILineState /\ cpu'.nmi = FALSE /\ cpu'.PIN_Delay = {}
    BY <1>8, <2>1
  <2>3. Waiting'
    BY <1>4, <2>1, <2>2 DEF Waiting
  <2> QED
    BY <1>4, <1>7, <2>1, <2>2, <2>3, CpuKeeps
<1>10. CASE TakeReset \/ TakeIRQ \/ FetchImmediate
  <2>1. PICK i \in BOOLEAN : cpu' = [cpu EXCEPT !.I = i, !.PIN_Delay = {}]
    <3>1. cpu.I \in BOOLEAN /\ cpu = [cpu EXCEPT !.I = cpu.I]
      BY <1>1 DEF Cpu
    <3> QED
      BY <1>1, <1>10, <3>1 DEF TakeReset, TakeIRQ, FetchImmediate, Cpu
  <2>2. /\ cpu' \in Cpu /\ cpu'.irq = cpu.irq /\ cpu'.MultiIRQState = cpu.MultiIRQState
        /\ cpu'.NMILineState = cpu.NMILineState /\ cpu'.nmi = cpu.nmi /\ cpu'.PIN_Delay = {}
        /\ cpu'.halted = cpu.halted
    BY <1>1, <2>1 DEF Cpu
  <2>3. cpu.PIN_Delay # {} /\ "nmi" \notin cpu.PIN_Delay
    BY <1>1, <1>10 DEF TakeReset, TakeIRQ, FetchImmediate, Waiting
  <2>4. since = 0
    BY <1>1, <2>3 DEF Waiting
  <2>5. Waits /\ owed' = owed /\ pc' = "fetch"
    BY <1>4, <1>10 DEF TakeReset, TakeIRQ, FetchImmediate
  <2>6. since' = IF cpu.nmi THEN 1 ELSE 0
    BY <2>4, <2>5 DEF Waits, Earlier
  <2>7. Waiting'
    BY <1>4, <2>2, <2>5, <2>6 DEF Waiting
  <2> QED
    BY <1>1, <1>4, <1>7, <2>2, <2>5, <2>6, <2>7, CpuKeeps
<1>11. CASE Fetch
  <2>1. cpu' = [cpu EXCEPT !.PIN_Delay = Sample(cpu)] /\ Waits /\ owed' = owed /\ pc' = "instr"
    BY <1>11 DEF Fetch
  <2>2. /\ Sample(cpu) \in SUBSET {"nmi", "irq", "reset", "dma"} /\ "reset" \notin Sample(cpu)
        /\ "nmi" \in Sample(cpu) <=> cpu.nmi
    BY <1>1, SampleTyped
  <2>3. /\ cpu' \in Cpu /\ cpu'.irq = cpu.irq /\ cpu'.MultiIRQState = cpu.MultiIRQState
        /\ cpu'.NMILineState = cpu.NMILineState /\ cpu'.nmi = cpu.nmi /\ cpu'.PIN_Delay = Sample(cpu)
    BY <1>1, <2>1, <2>2 DEF Cpu
  <2>4. since <= 1
    BY <1>1, <1>11 DEF Fetch, Waiting
  <2>5. since' \in 0 .. 2 /\ (since' > 0 => cpu.nmi)
    BY <1>1, <2>1, <2>4 DEF Waits, Earlier
  <2>6. Waiting'
    BY <1>4, <2>1, <2>2, <2>3, <2>5 DEF Waiting
  <2> QED
    BY <1>1, <1>4, <1>7, <2>1, <2>3, <2>5, <2>6, CpuKeeps
<1> QED
  BY <1>9, <1>10, <1>11

\* What ends a halt, and the steps of an instruction, but for its accesses.
LEMMA HaltSteps ==
  ASSUME IInv, DmaEnd \/ Wake \/ Write_420B \/ Retire \/ WAI \/ STP
  PROVE  IInv'
<1>1. Control /\ TypeOK /\ (cpu.nmi <=> owed) /\ Waiting /\ since \in 0 .. 2 /\ cpu \in Cpu
  BY Unfolded
<1>2. UNCHANGED <<ppu, timer, owed, since, op>> /\ pc \in {"loop", "instr"} /\ op = NoOp
  BY <1>1 DEF DmaEnd, Wake, Write_420B, Retire, WAI, STP, Waiting
<1>3. /\ cpu' \in Cpu /\ cpu'.irq = cpu.irq /\ cpu'.MultiIRQState = cpu.MultiIRQState
      /\ cpu'.NMILineState = cpu.NMILineState /\ cpu'.nmi = cpu.nmi
  <2>1. Sample(cpu) \in SUBSET {"nmi", "irq", "reset", "dma"}
    BY <1>1, SampleTyped
  <2>2. CASE DmaEnd
    BY <1>1, <2>2 DEF DmaEnd, Cpu
  <2>3. CASE Wake
    BY <1>1, <2>1, <2>3 DEF Wake, Cpu
  <2>4. CASE Write_420B \/ STP
    <3>1. PICK d \in {"DMA", "STP"} : cpu' = [cpu EXCEPT !.halted = @ \cup {d}]
      BY <2>4 DEF Write_420B, STP
    <3> QED
      BY <1>1, <3>1 DEF Cpu
  <2>5. CASE Retire
    <3>1. PICK i \in BOOLEAN : cpu' = [cpu EXCEPT !.I = i]
      BY <2>5 DEF Retire
    <3> QED
      BY <1>1, <3>1 DEF Cpu
  <2>6. CASE WAI
    <3>1. PICK T \in {cpu.halted, cpu.halted \cup {"WAI"}} :
            cpu' = [cpu EXCEPT !.PIN_Delay = Sample(cpu), !.halted = T]
      BY <2>6 DEF WAI
    <3>2. T \in SUBSET {"WAI", "STP", "DMA"}
      BY <1>1 DEF Cpu
    <3> QED
      BY <1>1, <2>1, <3>1, <3>2 DEF Cpu
  <2> QED
    BY <2>2, <2>3, <2>4, <2>5, <2>6
<1>4. Waiting'
  <2>1. CASE DmaEnd
    <3>1. cpu' = [cpu EXCEPT !.halted = @ \ {"DMA"}, !.PIN_Delay = @ \cup {"dma"}] /\ "DMA" \in cpu.halted
      BY <2>1 DEF DmaEnd
    <3>2. cpu'.PIN_Delay = cpu.PIN_Delay \cup {"dma"}
      BY <1>1, <3>1 DEF Cpu
    <3> QED
      BY <1>1, <1>2, <1>3, <3>1, <3>2 DEF Waiting
  <2>2. CASE Write_420B \/ Retire \/ STP
    <3>1. cpu'.PIN_Delay = cpu.PIN_Delay /\ pc = "instr"
      BY <1>1, <2>2 DEF Write_420B, Retire, STP, Cpu
    <3> QED
      BY <1>1, <1>2, <1>3, <3>1 DEF Waiting
  <2>3. CASE Wake \/ WAI
    <3>1. cpu'.PIN_Delay = Sample(cpu)
      BY <1>1, <2>3 DEF Wake, WAI, Cpu
    <3>2. "reset" \notin Sample(cpu) /\ ("nmi" \in Sample(cpu) <=> cpu.nmi)
      BY <1>1, SampleTyped
    <3> QED
      BY <1>1, <1>2, <1>3, <3>1, <3>2 DEF Waiting
  <2> QED
    BY <2>1, <2>2, <2>3
<1>5. Control'
  <2>1. timestamp' \in Nat
    BY <1>1, NextEventTyped, TimesAreNat DEF DmaEnd, Wake, Write_420B, Retire, WAI, STP, Control
  <2>2. accesses' \in 0 .. MaxAccesses /\ writes' \in 0 .. MaxWrites
    BY <1>1, SettingsAssumption DEF DmaEnd, Wake, Write_420B, Retire, WAI, STP, Control
  <2>3. /\ asleep' \in {0, asleep} /\ InDMABusAccess' \in {FALSE, InDMABusAccess} /\ running' = running
        /\ pc' \in {pc, "fetch"}
    BY DEF DmaEnd, Wake, Write_420B, Retire, WAI, STP
  <2>4. 0 \in 0 .. Lines + 1
    BY TimesAssumption
  <2> QED
    BY <1>1, <1>2, <2>1, <2>2, <2>3, <2>4 DEF Control
<1> QED
  BY <1>1, <1>2, <1>3, <1>4, <1>5, CpuKeeps

----------------------------------------------------------------------------
(* IInv holds.                                                             *)

LEMMA Initially == Init => IInv
<1> SUFFICES ASSUME Init PROVE IInv
  OBVIOUS
<1>1. PICK h \in HTimes, v \in VTimes :
        ppu = [NMITIMEEN |-> {}, HTime |-> h, VTime |-> v, scanline |-> Lines - 1, phase |-> "hblank",
               IRQThing |-> FALSE, IRQFlag |-> FALSE, NMIFlag |-> FALSE, event |-> MAXTS, began |-> 0]
  BY DEF Init
<1>2. Lines - 1 \in 0 .. Lines - 1 /\ LineLen - 1 \in Nat /\ MAXTS \in Nat /\ 0 \in 0 .. Lines + 1
  BY TimesAssumption, TimesAreNat
<1>3. ppu \in Ppu
  BY <1>1, <1>2 DEF Ppu, Enables
<1>4. cpu \in Cpu /\ Agreed(ppu, cpu)
  BY <1>1 DEF Init, Cpu, Agreed, Line
<1>5. timer \in Timer
  BY DEF Init, Timer
<1>6. 0 \in 0 .. MaxAccesses /\ 0 \in 0 .. MaxWrites
  BY SettingsAssumption
<1>7. Control
  BY <1>2, <1>6 DEF Init, Control
<1>8. Waiting /\ since \in 0 .. 2 /\ (cpu.nmi <=> owed)
  BY DEF Init, Waiting
<1>9. Parts
  BY <1>3, <1>4, <1>5, <1>7, <1>8 DEF Parts
<1> QED
  BY <1>9, Folded

LEMMA Inductive == IInv /\ [Next]_vars => IInv'
<1> SUFFICES ASSUME IInv, [Next]_vars PROVE IInv'
  OBVIOUS
<1>1. CASE UNCHANGED vars
  <2>1. Parts
    BY Unfolded DEF Parts
  <2>2. Parts'
    BY <1>1, <2>1 DEF vars, Parts, Control, Agreed, Line, Waiting
  <2> QED
    BY <2>2, Folded, PTL
<1>2. CASE StartFrame \/ FrameEnd \/ Reset
  BY <1>2, FrameSteps
<1>3. CASE CpuStep
  BY <1>3, AccessSteps, PcSteps, TurnSteps, HaltSteps DEF CpuStep
<1>4. CASE EventStep
  BY <1>4, AccessSteps, EventSteps DEF EventStep
<1>5. CASE Aborted
  BY <1>1, <1>5 DEF Aborted
<1> QED
  BY <1>1, <1>2, <1>3, <1>4, <1>5 DEF Next

LEMMA Invariant == Spec => []IInv
BY Initially, Inductive, PTL DEF Spec

----------------------------------------------------------------------------
(* WAI.                                                                    *)

\* The CPU halts for one reason at a time, after an instruction's accesses:
\* only $420B halts it within one.  What has halted it for an event is over
\* when the inner loop looks.
Halts ==
  /\ "WAI" \in cpu.halted => cpu.halted = {"WAI"}
  /\ pc = "instr" \/ op # NoOp => cpu.halted \subseteq {"DMA"}
  /\ pc = "instr" /\ accesses = 0 => cpu.halted = {}
  /\ op # NoOp => accesses > 0
  /\ pc = "fetch" => cpu.halted \subseteq {"DMA"} \/ Due
  /\ asleep > 0 => cpu.halted = {"WAI"}

\* How far the CPU may have run ahead when it has made no access but a fetch,
\* by the phase of the line.
RefreshLead == Later(HBlankAt, RefreshAt + Stall) + Slowest
Furthest ==
  CASE ppu.phase = "line" -> RefreshAt + Slowest
    [] ppu.phase = "refresh" -> RefreshLead
    [] ppu.phase \in {"hdma", "hblank"} -> LineLen + RefreshAt + Slowest
Lead ==
  /\ ppu.phase = "hdma" =>
       pc \in {"events", "aborted"} /\ HBlankAt <= timestamp /\ ppu.scanline # Lines - 1
  /\ "WAI" \in cpu.halted \/ (pc = "instr" /\ accesses = 0) =>
       /\ timestamp < Furthest
       /\ ppu.phase = "hdma" => ppu.began < RefreshLead /\ timestamp <= ppu.began + HdmaTime

\* It sleeps no longer than to VBlank, whose NMI is an edge; and the events of
\* VBlank's line do not reach the next line before the loop looks.
Asleep ==
  /\ ppu.NMIFlag => ppu.scanline = Lines - 1
  /\ asleep <= ppu.scanline + 1
  /\ asleep > 0 /\ ppu.scanline = Lines - 1 =>
       cpu.nmi /\ (pc \in {"loop", "stopped"} \/ (pc = "events" /\ timestamp < LineLen))

Sleep == Halts /\ Lead /\ Asleep

\* The numbers that the leads are compared with.
LEMMA LeadsAreInt ==
  ASSUME TypeOK
  PROVE  /\ timestamp \in Nat /\ ppu.began \in Nat /\ ppu.event \in Nat /\ asleep \in Nat /\ accesses \in Nat
         /\ ppu.scanline \in Int /\ Lines \in Nat /\ Lines > 1 /\ ppu.scanline <= Lines - 1 /\ 0 <= ppu.scanline
         /\ ppu.phase \in {"line", "refresh", "hdma", "hblank"}
         /\ {RefreshAt, HBlankAt, LineLen, Stall, Slowest, HdmaTime, MAXTS} \subseteq Nat
         /\ RefreshAt < HBlankAt /\ HBlankAt < LineLen /\ LineLen < MAXTS /\ 0 < RefreshAt
         /\ HBlankAt + HdmaTime <= LineLen + RefreshAt /\ Stall + HdmaTime <= LineLen
         /\ RefreshAt + Slowest + Stall <= LineLen
         /\ \A d \in Cycles : d \in Nat /\ d <= Slowest
  BY TimesAreNat, TimesAssumption, LeadAssumption, SettingsAssumption DEF TypeOK, Ppu

\* An access leaves the line and its phase, and sets no flag of NMI.
Still(p) ==
  /\ p.phase = ppu.phase /\ p.scanline = ppu.scanline /\ p.began = ppu.began
  /\ p.NMIFlag => ppu.NMIFlag

LEMMA SetStill ==
  ASSUME NEW p \in Ppu, NEW c, NEW t, Still(p), Set(p, c, t)
  PROVE  Still(ppu')
<1>1. ppu' = [p EXCEPT !.IRQThing = AtTime(p, t).thing, !.event = AtTime(p, t).event,
                       !.IRQFlag = @ \/ Asks(p, t)]
  BY DEF Set, UpdatedPpu
<1> QED
  BY <1>1 DEF Still, Ppu

LEMMA FinishStill ==
  ASSUME ppu \in Ppu, NEW o \in Ops, NEW t, Finish(o, t)
  PROVE  Still(ppu')
<1>1. UNCHANGED ppu => Still(ppu')
  BY DEF Still
<1>2. CASE o.reg = "NMITIMEEN" /\ Write_NMITIMEEN(o.V, t)
  <2> DEFINE p == [ppu EXCEPT !.NMITIMEEN = o.V, !.IRQFlag = @ /\ o.V \cap {"h", "v"} # {}]
  <2>1. p \in Ppu /\ Still(p)
    BY <1>2 DEF Ops, Ppu, Still
  <2>2. UNCHANGED ppu \/ \E c : Set(p, c, t)
    BY <1>2 DEF Write_NMITIMEEN
  <2> HIDE DEF p
  <2> QED
    BY <1>1, <2>1, <2>2, SetStill
<1>3. CASE o.reg = "HTIME" /\ Write_HTIME(o.V, t)
  <2> DEFINE p == [ppu EXCEPT !.HTime = o.V]
  <2>1. p \in Ppu /\ Still(p)
    BY <1>3 DEF Ops, Ppu, Still
  <2>2. UNCHANGED ppu \/ Set(p, cpu, t)
    BY <1>3 DEF Write_HTIME
  <2> HIDE DEF p
  <2> QED
    BY <1>1, <2>1, <2>2, SetStill
<1>4. CASE o.reg = "VTIME" /\ Write_VTIME(o.V, t)
  <2> DEFINE p == [ppu EXCEPT !.VTime = o.V]
  <2>1. p \in Ppu /\ Still(p)
    BY <1>4 DEF Ops, Ppu, Still
  <2>2. UNCHANGED ppu \/ Set(p, cpu, t)
    BY <1>4 DEF Write_VTIME
  <2> HIDE DEF p
  <2> QED
    BY <1>1, <2>1, <2>2, SetStill
<1>5. CASE Read_4210 \/ Read_4211
  BY <1>5 DEF Read_4210, Read_4211, Still, Ppu
<1>6. CASE o.reg = "cart" /\ CartLine(o.V)
  BY <1>1, <1>6 DEF CartLine
<1> QED
  BY <1>2, <1>3, <1>4, <1>5, <1>6 DEF Finish

\* Of the access's step, what Sleep needs.
LEMMA AccessRests ==
  ASSUME IInv, NEW o \in Ops, NEW t \in Nat, Finish(o, t) \/ UNCHANGED <<ppu, cpu, timer>>
  PROVE  Still(ppu') /\ cpu'.halted = cpu.halted /\ (cpu.nmi => cpu'.nmi)
<1>1. /\ TypeOK /\ LinesAgree /\ (cpu.nmi <=> owed) /\ ppu \in Ppu
  BY Unfolded
<1>2. CASE UNCHANGED <<ppu, cpu, timer>>
  BY <1>2 DEF Still
<1>3. CASE Finish(o, t)
  <2>1. Good(ppu', cpu')
    BY <1>1, <1>3, FinishKeeps
  <2>2. cpu'.halted = cpu.halted /\ (cpu'.nmi <=> owed \/ (Line(ppu') /\ ~Line(ppu)))
    BY <2>1 DEF Good
  <2> QED
    BY <1>1, <1>3, <2>2, FinishStill
<1> QED
  BY <1>2, <1>3

\* The accesses of instructions, DMA and HDMA, in WAI and out of it.
LEMMA SleepAccesses ==
  ASSUME IInv, Sleep, DmaByte \/ HDMA \/ OpDone \/ (\E o \in Ops : RegisterAccess(o))
  PROVE  Sleep'
<1>1. TypeOK /\ cpu \in Cpu /\ Halts /\ Lead /\ Asleep /\ Control
  BY Unfolded DEF Sleep
<1>2. \A d \in Cycles : timestamp + d \in Nat /\ timestamp < timestamp + d
  BY <1>1, TimesAssumption DEF Control
<1>3. PpuEvent \in Nat /\ Later(timestamp, NextEvent) \in Nat
  BY <1>1, NextEventTyped
<1>4. CASE DmaByte
  <2>1. PICK d \in Cycles, o \in Ops : timestamp' = timestamp + d /\ Finish(o, timestamp + d)
    BY <1>4 DEF DmaByte
  <2>2. Still(ppu') /\ cpu'.halted = cpu.halted /\ (cpu.nmi => cpu'.nmi)
    BY <1>2, <2>1, AccessRests
  <2>3. pc = "loop" /\ "DMA" \in cpu.halted /\ UNCHANGED <<pc, op, accesses, asleep>>
    BY <1>4 DEF DmaByte
  <2>4. Halts'
    BY <1>1, <2>2, <2>3 DEF Halts
  <2>5. Lead'
    BY <1>1, <2>2, <2>3 DEF Halts, Lead, Still
  <2>6. Asleep'
    BY <1>1, <2>2, <2>3 DEF Asleep, Halts, Still
  <2> QED
    BY <2>4, <2>5, <2>6 DEF Sleep
<1>5. CASE HDMA
  <2>1. PICK d \in Cycles, o \in Ops :
          /\ timestamp' = timestamp + d /\ timestamp + d <= ppu.began + HdmaTime
          /\ IF Calls(o, timestamp + d)
             THEN pc' = "aborted" /\ UNCHANGED <<ppu, cpu, timer, owed>>
             ELSE Finish(o, PpuEvent) /\ Owe /\ UNCHANGED pc
    BY <1>5 DEF HDMA
  <2>2. Still(ppu') /\ cpu'.halted = cpu.halted /\ (cpu.nmi => cpu'.nmi)
    BY <1>3, <2>1, AccessRests
  <2>3. pc = "events" /\ pc' \in {"events", "aborted"} /\ ppu.phase = "hdma" /\ UNCHANGED <<op, accesses, asleep>>
    BY <1>5, <2>1 DEF HDMA
  <2>4. Halts'
    BY <1>1, <2>2, <2>3 DEF Halts
  <2>5. timestamp < timestamp' /\ timestamp' <= ppu.began + HdmaTime
    BY <1>2, <2>1
  <2>6. Lead'
    <3>1. ppu'.phase = "hdma" /\ ppu'.scanline # Lines - 1 /\ HBlankAt <= timestamp'
      BY <1>1, <1>2, <2>1, <2>2, <2>3, <2>5, LeadsAreInt DEF Lead, Still
    <3>2. ASSUME "WAI" \in cpu'.halted
          PROVE  timestamp' < Furthest' /\ ppu'.began < RefreshLead /\ timestamp' <= ppu'.began + HdmaTime
      <4>1. ppu.began < RefreshLead /\ ppu'.began = ppu.began
        BY <1>1, <2>2, <2>3, <3>2 DEF Lead, Still
      <4>2. Furthest' = LineLen + RefreshAt + Slowest
        BY <3>1 DEF Furthest
      <4>3. ppu.began + HdmaTime < LineLen + RefreshAt + Slowest
        BY <1>1, <4>1, LeadsAreInt DEF RefreshLead, Later
      <4>4. timestamp' \in Nat
        BY <1>2, <2>1
      <4> QED
        BY <1>1, <2>5, <4>1, <4>2, <4>3, <4>4, LeadsAreInt
    <3> QED
      BY <2>3, <3>1, <3>2 DEF Lead, RefreshLead
  <2>7. Asleep'
    BY <1>1, <2>2, <2>3 DEF Asleep, Lead, Still
  <2> QED
    BY <2>4, <2>6, <2>7 DEF Sleep
<1>6. CASE OpDone
  <2>1. op \in Ops /\ timestamp \in Nat /\ Finish(op, timestamp)
    BY <1>1, <1>6 DEF OpDone, Control
  <2>2. Still(ppu') /\ cpu'.halted = cpu.halted /\ (cpu.nmi => cpu'.nmi)
    BY <2>1, AccessRests
  <2>3. pc' = "instr" /\ op' = NoOp /\ op # NoOp /\ ~Due /\ UNCHANGED <<timestamp, accesses, asleep>>
    BY <1>6 DEF OpDone
  <2>4. cpu.halted \subseteq {"DMA"} /\ accesses > 0
    BY <1>1, <2>3 DEF Halts
  <2>5. Halts'
    BY <1>1, <2>2, <2>3, <2>4, LeadsAreInt DEF Halts
  <2>6. ppu.phase # "hdma"
    <3>1. ASSUME ppu.phase = "hdma" PROVE FALSE
      <4>1. PpuEvent = HBlankAt /\ HBlankAt <= timestamp
        BY <1>1, <3>1 DEF PpuEvent, Lead
      <4>2. NextEvent <= HBlankAt
        BY <1>1, <4>1, LeadsAreInt DEF NextEvent, Earlier
      <4> QED
        BY <1>1, <2>3, <4>1, <4>2, LeadsAreInt DEF Due, NextEvent, Earlier
    <3> QED
      BY <3>1
  <2>7. Lead'
    BY <1>1, <2>2, <2>3, <2>4, <2>6, LeadsAreInt DEF Lead, Still
  <2>8. Asleep'
    BY <1>1, <2>2, <2>3, <2>4, LeadsAreInt DEF Asleep, Still, Halts
  <2> QED
    BY <2>5, <2>7, <2>8 DEF Sleep
<1>7. ASSUME NEW o \in Ops, RegisterAccess(o)
      PROVE  Sleep'
  <2>1. PICK d \in Cycles :
          /\ timestamp' = timestamp + d
          /\ IF Calls(o, timestamp + d)
             THEN pc' = "events" /\ op' = o /\ UNCHANGED <<ppu, cpu, timer, owed>>
             ELSE Finish(o, timestamp + d) /\ Owe /\ UNCHANGED <<pc, op>>
    BY <1>7 DEF RegisterAccess
  <2>2. Still(ppu') /\ cpu'.halted = cpu.halted /\ (cpu.nmi => cpu'.nmi)
    BY <1>2, <2>1, AccessRests
  <2>3. pc = "instr" /\ pc' \in {"events", "instr"} /\ accesses' = accesses + 1 /\ asleep' = asleep
    BY <1>7, <2>1 DEF RegisterAccess
  <2>4. cpu.halted \subseteq {"DMA"} /\ accesses' > 0
    BY <1>1, <2>3, LeadsAreInt DEF Halts
  <2>5. Halts'
    BY <1>1, <2>2, <2>3, <2>4, LeadsAreInt DEF Halts
  <2>6. Lead'
    BY <1>1, <2>2, <2>3, <2>4, LeadsAreInt DEF Lead, Still
  <2>7. Asleep'
    BY <1>1, <2>2, <2>3, <2>4, LeadsAreInt DEF Asleep, Still, Halts
  <2> QED
    BY <2>5, <2>6, <2>7 DEF Sleep
<1> QED
  BY <1>4, <1>5, <1>6, <1>7

\* The frames, and what goes from the loop to the events or to the inner loop.
LEMMA SleepFrames ==
  ASSUME IInv, Sleep, StartFrame \/ FrameEnd \/ Reset
  PROVE  Sleep'
<1>1. /\ TypeOK /\ Agreed(ppu, cpu) /\ ppu \in Ppu /\ cpu \in Cpu /\ Halts /\ Lead /\ Asleep /\ Control /\ Waiting
      /\ TypeOK' /\ cpu' \in Cpu /\ ppu' \in Ppu
  <2>1. TypeOK'
    BY FrameSteps DEF IInv
  <2> QED
    BY <2>1, Unfolded DEF Sleep, TypeOK
<1>2. op = NoOp
  BY <1>1 DEF StartFrame, FrameEnd, Reset, Waiting
<1>3. CASE StartFrame
  <2>1. pc = "stopped" /\ pc' = "loop" /\ UNCHANGED <<timestamp, op, accesses, ppu, cpu, asleep>>
    BY <1>3 DEF StartFrame
  <2>2. Halts' /\ Lead' /\ Asleep'
    BY <1>1, <2>1 DEF Halts, Lead, Asleep, Furthest
  <2> QED
    BY <2>2 DEF Sleep
<1>4. CASE FrameEnd
  <2>1. pc = "loop" /\ pc' = "stopped" /\ UNCHANGED <<timestamp, op, accesses, asleep>>
    BY <1>4 DEF FrameEnd
  <2>2. /\ ppu'.phase = ppu.phase /\ ppu'.scanline = ppu.scanline /\ ppu'.began = ppu.began
        /\ ppu'.NMIFlag = ppu.NMIFlag /\ cpu'.halted = cpu.halted /\ cpu'.nmi = cpu.nmi
    <3>1. ppu' = UpdatedPpu(ppu, timestamp) /\ cpu' = UpdatedCpu(cpu, ppu, timestamp) /\ timestamp \in Nat
      BY <1>1, <1>4 DEF FrameEnd, Control
    <3> QED
      BY <1>1, <3>1, UpdateKeeps
  <2>3. Halts' /\ Lead' /\ Asleep'
    BY <1>1, <1>2, <2>1, <2>2 DEF Halts, Lead, Asleep, Furthest
  <2> QED
    BY <2>3 DEF Sleep
<1>5. CASE Reset
  <2>1. pc = "stopped" /\ asleep' = 0 /\ UNCHANGED <<pc, op, accesses>>
    BY <1>5 DEF Reset
  <2>2. ppu'.phase = "hblank" /\ ppu'.NMIFlag = FALSE
    BY <1>1, <1>5 DEF Reset, Ppu
  <2>3. cpu'.halted = {}
    <3> DEFINE j == SetIRQ(SetIRQ(SetNMI(cpu, FALSE), FALSE, "ppu"), FALSE, "cart")
    <3>1. cpu' = [j EXCEPT !.nmi = FALSE, !.PIN_Delay = {"reset"}, !.halted = {}]
      BY <1>5 DEF Reset
    <3>2. SetNMI(cpu, FALSE) \in Cpu
      BY <1>1, SetNMIKeeps
    <3>3. SetIRQ(SetNMI(cpu, FALSE), FALSE, "ppu") \in Cpu
      BY <3>2, SetIRQKeeps DEF Sources
    <3>4. j \in Cpu
      BY <3>3, SetIRQKeeps DEF Sources
    <3> HIDE DEF j
    <3> QED
      BY <3>1, <3>4 DEF Cpu
  <2>4. Halts' /\ Lead'
    BY <1>2, <2>1, <2>2, <2>3 DEF Halts, Lead
  <2>5. Asleep'
    BY <1>1, <2>1, <2>2 DEF Asleep, TypeOK, Ppu
  <2> QED
    BY <2>4, <2>5 DEF Sleep
<1> QED
  BY <1>3, <1>4, <1>5

LEMMA SleepLoop ==
  ASSUME IInv, Sleep, Enter \/ Leave \/ DmaYield \/ StayHalted \/ DmaEnd \/ Wake
  PROVE  Sleep'
<1>1. TypeOK /\ cpu \in Cpu /\ Halts /\ Lead /\ Asleep /\ Waiting
  BY Unfolded DEF Sleep
<1>2. ppu' = ppu /\ op' = op /\ accesses' = accesses /\ pc \in {"loop", "fetch"} /\ op = NoOp
  BY <1>1 DEF Enter, Leave, DmaYield, StayHalted, DmaEnd, Wake, Waiting
<1>3. ppu.phase # "hdma"
  BY <1>1, <1>2 DEF Lead
<1>4. CASE Enter
  <2>1. pc' = "fetch" /\ cpu.halted = {} /\ UNCHANGED <<timestamp, cpu, asleep>>
    BY <1>4 DEF Enter
  <2> QED
    BY <1>1, <1>2, <1>3, <2>1 DEF Halts, Lead, Asleep, Furthest, Sleep
<1>5. CASE Leave
  <2>1. pc = "fetch" /\ pc' = "events" /\ UNCHANGED <<timestamp, cpu, asleep>>
    BY <1>5 DEF Leave
  <2>2. ~(asleep > 0 /\ ppu.scanline = Lines - 1)
    BY <1>1, <2>1 DEF Asleep
  <2> QED
    BY <1>1, <1>2, <1>3, <2>1, <2>2 DEF Halts, Lead, Asleep, Furthest, Sleep
<1>6. CASE DmaYield
  <2>1. "DMA" \in cpu.halted /\ pc' = "events" /\ UNCHANGED <<cpu, asleep>>
    BY <1>6 DEF DmaYield
  <2> QED
    BY <1>1, <1>2, <1>3, <2>1 DEF Halts, Lead, Asleep, Sleep
<1>7. CASE StayHalted
  <2>1. /\ pc' = "events" /\ timestamp' = Later(timestamp, NextEvent) /\ UNCHANGED <<cpu, asleep>>
        /\ "WAI" \in cpu.halted => ~cpu.nmi
    BY <1>7 DEF StayHalted, Pending
  <2>2. Halts'
    BY <1>1, <1>2, <2>1 DEF Halts
  <2>3. Lead'
    <3>1. ASSUME "WAI" \in cpu.halted PROVE timestamp' < Furthest
      <4>1. timestamp < Furthest /\ PpuEvent < Furthest /\ PpuEvent \in Nat /\ Furthest \in Nat
        BY <1>1, <3>1, LeadsAreInt, TimesAssumption DEF Lead, PpuEvent, Furthest, RefreshLead, Later
      <4> QED
        BY <1>1, <2>1, <4>1, LeadsAreInt DEF Later, NextEvent, Earlier
    <3> QED
      BY <1>2, <1>3, <2>1, <3>1 DEF Lead, Furthest
  <2>4. Asleep'
    BY <1>1, <1>2, <2>1 DEF Asleep, Halts
  <2> QED
    BY <2>2, <2>3, <2>4 DEF Sleep
<1>8. CASE DmaEnd
  <2>1. "DMA" \in cpu.halted /\ pc' = "loop" /\ cpu'.halted = cpu.halted \ {"DMA"} /\ UNCHANGED <<timestamp, asleep>>
    BY <1>1, <1>8 DEF DmaEnd, Cpu
  <2>2. "WAI" \notin cpu.halted /\ ~(asleep > 0)
    BY <1>1, <2>1 DEF Halts
  <2> QED
    BY <1>1, <1>2, <1>3, <2>1, <2>2 DEF Halts, Lead, Asleep, Sleep
<1>9. CASE Wake
  <2>1. pc' = "fetch" /\ cpu'.halted = {} /\ asleep' = 0
    BY <1>1, <1>9 DEF Wake, Cpu
  <2> QED
    BY <1>1, <1>2, <1>3, <2>1, LeadsAreInt DEF Halts, Lead, Asleep, Sleep
<1> QED
  BY <1>4, <1>5, <1>6, <1>7, <1>8, <1>9

\* A turn is made only when nothing halts the CPU.
LEMMA SleepTurns ==
  ASSUME IInv, Sleep, TakeReset \/ TakeNMI \/ TakeIRQ \/ Fetch \/ FetchImmediate
  PROVE  Sleep'
<1>1. TypeOK /\ cpu \in Cpu /\ Halts /\ Lead /\ Asleep /\ Waiting
  BY Unfolded DEF Sleep
<1>2. Turn
  BY DEF TakeReset, TakeNMI, TakeIRQ, Fetch, FetchImmediate
<1>3. PICK d \in Cycles : timestamp' = timestamp + d
  BY <1>2 DEF Turn
<1>4. pc = "fetch" /\ ~Due /\ "DMA" \notin cpu.halted /\ UNCHANGED <<op, ppu, asleep>>
  BY <1>2 DEF Turn
<1>5. cpu.halted = {} /\ op = NoOp /\ asleep = 0 /\ ppu.phase # "hdma"
  BY <1>1, <1>4, LeadsAreInt DEF Halts, Waiting, Lead
<1>6. cpu'.halted = {}
  BY <1>1, <1>5 DEF TakeReset, TakeNMI, TakeIRQ, Fetch, FetchImmediate, Cpu
<1>7. pc' \in {"fetch", "instr"}
  BY <1>4 DEF TakeReset, TakeNMI, TakeIRQ, Fetch, FetchImmediate
<1>8. timestamp' < Furthest
  <2>1. timestamp < PpuEvent /\ PpuEvent \in Nat
    BY <1>1, <1>4, NextEventTyped, LeadsAreInt DEF Due, NextEvent, Earlier
  <2>2. PpuEvent + Slowest <= Furthest /\ Furthest \in Nat
    BY <1>1, LeadsAreInt DEF PpuEvent, Furthest, RefreshLead, Later
  <2> QED
    BY <1>1, <1>3, <2>1, <2>2, LeadsAreInt
<1>9. Halts' /\ Lead' /\ Asleep'
  BY <1>1, <1>4, <1>5, <1>6, <1>7, <1>8 DEF Halts, Lead, Asleep, Furthest
<1> QED
  BY <1>9 DEF Sleep

\* WAI and STP halt the CPU at the next event.
LEMMA SleepInstructions ==
  ASSUME IInv, Sleep, Write_420B \/ Retire \/ WAI \/ STP
  PROVE  Sleep'
<1>1. TypeOK /\ cpu \in Cpu /\ Halts /\ Lead /\ Asleep /\ Waiting
  BY Unfolded DEF Sleep
<1>2. pc = "instr" /\ op = NoOp /\ UNCHANGED <<op, ppu, asleep>>
  BY <1>1 DEF Write_420B, Retire, WAI, STP, Waiting
<1>3. cpu.halted \subseteq {"DMA"} /\ asleep = 0 /\ ppu.phase # "hdma"
  BY <1>1, <1>2, LeadsAreInt DEF Halts, Lead
<1>4. CASE Write_420B
  <2>1. pc' = pc /\ accesses' = accesses + 1 /\ cpu'.halted = cpu.halted \cup {"DMA"}
    BY <1>1, <1>4 DEF Write_420B, Cpu
  <2> QED
    BY <1>1, <1>2, <1>3, <2>1, LeadsAreInt DEF Halts, Lead, Asleep, Sleep
<1>5. CASE Retire
  <2>1. pc' = "fetch" /\ cpu'.halted = cpu.halted
    BY <1>1, <1>5 DEF Retire, Cpu
  <2> QED
    BY <1>1, <1>2, <1>3, <2>1 DEF Halts, Lead, Asleep, Sleep
<1>6. CASE WAI \/ STP
  <2>1. /\ pc' = "fetch" /\ accesses = 0
        /\ \/ cpu'.halted = {}
           \/ cpu'.halted \in {{"WAI"}, {"STP"}} /\ timestamp' = Later(timestamp, NextEvent)
    BY <1>1, <1>2, <1>6 DEF WAI, STP, Halts, Cpu
  <2>2. timestamp' = Later(timestamp, NextEvent) => Due'
    BY <1>1, <1>2, NextEventTyped, LeadsAreInt DEF Later, Due, NextEvent, PpuEvent
  <2>3. Halts'
    BY <1>2, <1>3, <2>1, <2>2 DEF Halts
  <2>4. Lead'
    <3>1. timestamp < Furthest /\ PpuEvent < Furthest /\ PpuEvent \in Nat /\ Furthest \in Nat
      BY <1>1, <1>2, <2>1, LeadsAreInt, TimesAssumption DEF Lead, PpuEvent, Furthest, RefreshLead, Later
    <3>2. Later(timestamp, NextEvent) < Furthest
      BY <1>1, <3>1, LeadsAreInt DEF Later, NextEvent, Earlier
    <3> QED
      BY <1>2, <1>3, <2>1, <3>2 DEF Lead, Furthest
  <2>5. Asleep'
    BY <1>1, <1>2, <1>3 DEF Asleep
  <2> QED
    BY <2>3, <2>4, <2>5 DEF Sleep
<1> QED
  BY <1>4, <1>5, <1>6

\* EventHandler's events, but for the line's start.
LEMMA SleepEvents ==
  ASSUME IInv, Sleep, LineIRQEvent \/ Refresh \/ HBlank \/ HDMADone \/ EventsDone
  PROVE  Sleep'
<1>1. TypeOK /\ Agreed(ppu, cpu) /\ ppu \in Ppu /\ cpu \in Cpu /\ Halts /\ Lead /\ Asleep
  BY Unfolded DEF Sleep
<1>2. /\ UNCHANGED <<op, accesses, asleep>> /\ pc = "events" /\ pc' \in {"events", "loop"}
      /\ pc' = "loop" => op = NoOp
  BY DEF LineIRQEvent, Refresh, HBlank, HDMADone, EventsDone, PpuEventDue, control
<1>3. CASE LineIRQEvent
  <2>1. pc' = "events" /\ ppu.phase # "hdma" /\ timestamp' = timestamp
    BY <1>2, <1>3 DEF LineIRQEvent, control
  <2>2. /\ ppu'.phase = ppu.phase /\ ppu'.scanline = ppu.scanline /\ ppu'.began = ppu.began
        /\ ppu'.NMIFlag = ppu.NMIFlag /\ cpu'.halted = cpu.halted /\ cpu'.nmi = cpu.nmi
    <3>1. ppu' = UpdatedPpu(ppu, ppu.event) /\ cpu' = UpdatedCpu(cpu, ppu, ppu.event) /\ ppu.event \in Nat
      BY <1>1, <1>3 DEF LineIRQEvent, Ppu
    <3> QED
      BY <1>1, <3>1, UpdateKeeps
  <2>3. Halts' /\ Lead' /\ Asleep'
    BY <1>1, <1>2, <2>1, <2>2 DEF Halts, Lead, Asleep, Furthest
  <2> QED
    BY <2>3 DEF Sleep
<1>4. CASE EventsDone
  <2>1. pc' = "loop" /\ ~Due /\ UNCHANGED <<timestamp, ppu, cpu>>
    BY <1>4 DEF EventsDone
  <2>2. ppu.phase # "hdma"
    <3>1. ASSUME ppu.phase = "hdma" PROVE FALSE
      <4>1. PpuEvent = HBlankAt /\ HBlankAt <= timestamp
        BY <1>1, <3>1 DEF PpuEvent, Lead
      <4> QED
        BY <1>1, <2>1, <4>1, LeadsAreInt DEF Due, NextEvent, Earlier
    <3> QED
      BY <3>1
  <2>3. Halts' /\ Lead' /\ Asleep'
    BY <1>1, <1>2, <2>1, <2>2 DEF Halts, Lead, Asleep, Furthest
  <2> QED
    BY <2>3 DEF Sleep
<1>5. CASE Refresh
  <2>1. ppu.phase = "line" /\ timestamp' = timestamp + Stall /\ pc' = "events" /\ cpu' = cpu
    BY <1>2, <1>5 DEF Refresh, control
  <2>2. ppu'.phase = "refresh" /\ ppu'.scanline = ppu.scanline /\ ppu'.NMIFlag = ppu.NMIFlag
    BY <1>1, <1>5 DEF Refresh, Ppu
  <2>3. "WAI" \in cpu.halted => timestamp < RefreshAt + Slowest
    BY <1>1, <2>1 DEF Lead, Furthest
  <2>4. Halts'
    BY <1>1, <1>2, <2>1 DEF Halts
  <2>5. Lead'
    <3>1. Furthest' = RefreshLead
      BY <2>2 DEF Furthest
    <3>2. "WAI" \in cpu.halted => timestamp' < RefreshLead
      BY <1>1, <2>1, <2>3, LeadsAreInt DEF RefreshLead, Later
    <3> QED
      BY <1>2, <2>1, <2>2, <3>1, <3>2 DEF Lead
  <2>6. Asleep'
    <3>1. asleep > 0 => timestamp' < LineLen
      BY <1>1, <2>1, <2>3, LeadsAreInt DEF Halts
    <3> QED
      BY <1>1, <1>2, <2>1, <2>2, <3>1 DEF Asleep
  <2> QED
    BY <2>4, <2>5, <2>6 DEF Sleep
<1>6. CASE HBlank
  <2>1. /\ ppu.phase = "refresh" /\ UNCHANGED <<timestamp, cpu>> /\ pc' = "events"
        /\ HBlankAt <= timestamp
    BY <1>2, <1>6 DEF HBlank, control, PpuEventDue, PpuEvent
  <2>2. /\ ppu'.scanline = ppu.scanline /\ ppu'.NMIFlag = ppu.NMIFlag
        /\ \/ ppu'.phase = "hblank"
           \/ ppu'.phase = "hdma" /\ ppu'.began = timestamp /\ ppu.scanline # Lines - 1
    BY <1>1, <1>6 DEF HBlank, Ppu, VBlank
  <2>3. "WAI" \in cpu.halted => timestamp < RefreshLead
    BY <1>1, <2>1 DEF Lead, Furthest
  <2>4. Halts'
    BY <1>1, <1>2, <2>1 DEF Halts
  <2>5. Lead'
    <3>1. Furthest' = LineLen + RefreshAt + Slowest
      BY <2>2 DEF Furthest
    <3>2. RefreshLead <= LineLen + RefreshAt + Slowest /\ RefreshLead \in Nat
      BY <1>1, LeadsAreInt DEF RefreshLead, Later
    <3>3. timestamp <= timestamp + HdmaTime
      BY <1>1, LeadsAreInt
    <3>4. "WAI" \in cpu.halted => timestamp' < Furthest'
      BY <1>1, <2>1, <2>3, <3>1, <3>2, LeadsAreInt
    <3> QED
      BY <1>2, <2>1, <2>2, <2>3, <3>3, <3>4 DEF Lead, RefreshLead
  <2>6. Asleep'
    BY <1>1, <1>2, <2>1, <2>2 DEF Asleep
  <2> QED
    BY <2>4, <2>5, <2>6 DEF Sleep
<1>7. CASE HDMADone
  <2>1. ppu.phase = "hdma" /\ UNCHANGED <<timestamp, cpu, pc>>
    BY <1>7 DEF HDMADone
  <2>2. ppu'.phase = "hblank" /\ ppu'.scanline = ppu.scanline /\ ppu'.NMIFlag = ppu.NMIFlag
    BY <1>1, <1>7 DEF HDMADone, Ppu
  <2>3. Halts'
    BY <1>1, <1>2, <2>1 DEF Halts
  <2>4. Lead'
    BY <1>1, <1>2, <2>1, <2>2 DEF Lead, Furthest
  <2>5. Asleep'
    BY <1>1, <1>2, <2>1, <2>2 DEF Asleep
  <2> QED
    BY <2>3, <2>4, <2>5 DEF Sleep
<1> QED
  BY <1>3, <1>4, <1>5, <1>6, <1>7

\* The line's start: VBlank's is an edge for whoever sleeps, and at the next
\* nobody sleeps any more.
LEMMA SleepLines ==
  ASSUME IInv, Sleep, LineStart
  PROVE  Sleep'
<1> DEFINE p == [ppu EXCEPT !.scanline = (@ + 1) % Lines, !.phase = "line"]
           c == UpdatedCpu(cpu, p, 0)
           q == UpdatedPpu(p, 0)
           begins == p.scanline = Lines - 1
           ends == p.scanline = 0
           n == SetNMI(c, begins /\ "nmi" \in p.NMITIMEEN)
<1>1. /\ TypeOK /\ Agreed(ppu, cpu) /\ ppu \in Ppu /\ cpu \in Cpu /\ Halts /\ Lead /\ Asleep
      /\ TypeOK' /\ cpu' \in Cpu /\ ppu' \in Ppu
  <2>1. TypeOK'
    BY EventSteps DEF IInv
  <2> QED
    BY <2>1, Unfolded DEF Sleep, TypeOK
<1>2. /\ ppu' = [q EXCEPT !.NMIFlag = begins \/ (q.NMIFlag /\ ~ends)]
      /\ cpu' = IF begins \/ ends THEN n ELSE c
      /\ pc = "events" /\ UNCHANGED <<pc, op, accesses>>
      /\ timestamp' = timestamp - LineLen /\ LineLen <= timestamp /\ ppu.phase = "hblank"
      /\ asleep' = IF Dozing THEN Earlier(asleep + 1, Lines + 1) ELSE 0
  BY DEF LineStart, PpuEventDue, PpuEvent
<1>3. (ppu.scanline + 1) % Lines = IF ppu.scanline = Lines - 1 THEN 0 ELSE ppu.scanline + 1
  <2>1. \A s, l \in Nat : s < l => s % l = s
    OBVIOUS
  <2>2. \A l \in Nat \ {0} : l % l = 0
    OBVIOUS
  <2>3. ppu.scanline \in Nat /\ Lines \in Nat \ {0} /\ ppu.scanline <= Lines - 1
    BY <1>1, LeadsAreInt
  <2>4. CASE ppu.scanline = Lines - 1
    BY <2>2, <2>3, <2>4
  <2>5. CASE ppu.scanline # Lines - 1
    <3>1. ppu.scanline + 1 \in Nat /\ ppu.scanline + 1 < Lines
      BY <2>3, <2>5
    <3> QED
      BY <2>1, <2>3, <2>5, <3>1
  <2> QED
    BY <2>4, <2>5
<1>4. /\ p \in Ppu /\ p.NMIFlag = ppu.NMIFlag /\ p.NMITIMEEN = ppu.NMITIMEEN /\ p.IRQFlag = ppu.IRQFlag
      /\ p.phase = "line" /\ p.scanline = IF ppu.scanline = Lines - 1 THEN 0 ELSE ppu.scanline + 1
  <2>1. (ppu.scanline + 1) % Lines \in 0 .. Lines - 1
    BY <1>1, <1>3, LeadsAreInt
  <2> QED
    BY <1>1, <1>3, <2>1 DEF Ppu
<1> HIDE DEF p
<1>5. Agreed(p, cpu)
  BY <1>1, <1>4 DEF Agreed, Line
<1>6. /\ q \in Ppu /\ c \in Cpu /\ q.NMIFlag = p.NMIFlag /\ q.NMITIMEEN = p.NMITIMEEN
      /\ q.phase = "line" /\ q.scanline = p.scanline
      /\ c.nmi = cpu.nmi /\ c.NMILineState = cpu.NMILineState /\ c.halted = cpu.halted
  BY <1>1, <1>4, <1>5, UpdateKeeps
<1> HIDE DEF q, c
<1>7. /\ n \in Cpu /\ n.halted = cpu.halted
      /\ n.nmi <=> cpu.nmi \/ (begins /\ "nmi" \in p.NMITIMEEN /\ ~cpu.NMILineState)
  BY <1>6, SetNMIKeeps
<1> HIDE DEF n
<1>8. /\ ppu'.phase = "line" /\ ppu'.scanline = p.scanline
      /\ ppu'.NMIFlag <=> begins \/ (ppu.NMIFlag /\ ~ends)
  BY <1>2, <1>4, <1>6 DEF Ppu
<1>9. cpu'.halted = cpu.halted /\ (begins => cpu' = n)
  BY <1>2, <1>6, <1>7
<1>10. asleep' > 0 => "WAI" \in cpu.halted /\ "nmi" \in ppu.NMITIMEEN
  BY <1>2 DEF Dozing
<1>11. asleep > 0 => ppu.scanline # Lines - 1
  BY <1>1, <1>2, LeadsAreInt DEF Asleep
<1>12. "WAI" \in cpu.halted => timestamp' < RefreshAt + Slowest
  BY <1>1, <1>2, LeadsAreInt DEF Lead, Furthest
<1>13. Halts'
  BY <1>1, <1>2, <1>9, <1>10 DEF Halts
<1>14. Lead'
  BY <1>2, <1>8, <1>9, <1>12 DEF Lead, Furthest
<1>15. asleep' <= ppu'.scanline + 1
  <2>1. asleep' = 0 \/ asleep' = asleep + 1 \/ asleep' <= asleep + 1
    BY <1>1, <1>2, LeadsAreInt DEF Earlier
  <2>2. asleep' <= asleep + 1 /\ asleep' \in Nat
    BY <1>1, <1>2, LeadsAreInt DEF Earlier
  <2>3. CASE ppu.scanline = Lines - 1
    BY <1>1, <1>4, <1>8, <1>11, <2>2, <2>3, LeadsAreInt
  <2>4. CASE ppu.scanline # Lines - 1
    BY <1>1, <1>4, <1>8, <2>2, <2>4, LeadsAreInt DEF Asleep
  <2> QED
    BY <2>3, <2>4
<1>16. ASSUME asleep' > 0, ppu'.scanline = Lines - 1
       PROVE  cpu'.nmi /\ timestamp' < LineLen
  <2>1. begins /\ ppu.scanline # Lines - 1
    BY <1>1, <1>4, <1>8, <1>16, LeadsAreInt
  <2>2. ~ppu.NMIFlag /\ ~cpu.NMILineState
    BY <1>1, <2>1 DEF Asleep, Agreed, Line
  <2>3. cpu'.nmi
    BY <1>4, <1>7, <1>9, <1>10, <1>16, <2>1, <2>2
  <2>4. timestamp' < LineLen
    BY <1>1, <1>2, <1>10, <1>12, <1>16, LeadsAreInt
  <2> QED
    BY <2>3, <2>4
<1>17. ppu'.NMIFlag => ppu'.scanline = Lines - 1
  BY <1>1, <1>4, <1>8, LeadsAreInt DEF Asleep
<1>18. Asleep'
  BY <1>2, <1>15, <1>16, <1>17 DEF Asleep
<1> QED
  BY <1>13, <1>14, <1>18 DEF Sleep

LEMMA SleepInitially == Init => Sleep
<1> SUFFICES ASSUME Init PROVE Sleep
  OBVIOUS
<1>1. cpu.halted = {} /\ asleep = 0 /\ pc = "stopped" /\ op = NoOp
  BY DEF Init
<1>2. ppu.phase = "hblank" /\ ppu.NMIFlag = FALSE /\ ppu.scanline = Lines - 1
  BY DEF Init
<1>3. Lines \in Nat
  BY TimesAssumption
<1>4. Halts /\ Lead /\ Asleep
  BY <1>1, <1>2, <1>3 DEF Halts, Lead, Asleep
<1> QED
  BY <1>4 DEF Sleep

LEMMA SleepInductive == IInv /\ Sleep /\ [Next]_vars => Sleep'
<1> SUFFICES ASSUME IInv, Sleep, [Next]_vars PROVE Sleep'
  OBVIOUS
<1>1. CASE UNCHANGED vars
  BY <1>1 DEF vars, Sleep, Halts, Lead, Asleep, Furthest, Due, NextEvent, PpuEvent
<1>2. CASE StartFrame \/ FrameEnd \/ Reset
  BY <1>2, SleepFrames
<1>3. CASE CpuStep
  BY <1>3, SleepAccesses, SleepLoop, SleepTurns, SleepInstructions DEF CpuStep
<1>4. CASE EventStep
  BY <1>4, SleepAccesses, SleepEvents, SleepLines DEF EventStep
<1>5. CASE Aborted
  BY <1>1, <1>5 DEF Aborted
<1> QED
  BY <1>1, <1>2, <1>3, <1>4, <1>5 DEF Next

LEMMA SleepInvariant == Spec => [](IInv /\ Sleep)
<1>1. Spec => []IInv
  BY Invariant
<1> QED
  BY <1>1, SleepInitially, SleepInductive, PTL DEF Spec

----------------------------------------------------------------------------
(* The H/V timer.                                                          *)

\* Of a line that is foretold: what has been asked, and what PPU_UpdateLineIRQ
\* still looks for.  It has looked last at a time that neither the CPU's ts nor
\* PPU_Update's pe is before.
Told(p, r, ts, pe) ==
  r.steady /\ r.clear =>
    /\ r.asked = 0 => ~p.IRQFlag
    /\ \/ ~Armed(p) /\ r.asked = 0 /\ ~p.IRQThing /\ p.event = MAXTS
       \/ Armed(p) /\ "h" \notin p.NMITIMEEN /\ r.asked = 1 /\ p.IRQThing /\ p.event = MAXTS
       \/ /\ Armed(p) /\ "h" \in p.NMITIMEEN
          /\ \/ r.asked = 0 /\ ~p.IRQThing /\ p.event = MatchTime(p)
             \/ /\ r.asked = 1 /\ p.IRQThing
                /\ MatchTime(p) + Dot <= p.event /\ p.event < MatchTime(p) + 2 * Dot
                /\ MatchTime(p) <= ts /\ MatchTime(p) <= pe
             \/ /\ r.asked = 1 /\ ~p.IRQThing /\ p.event = MAXTS
                /\ MatchTime(p) + Dot <= ts /\ MatchTime(p) + Dot <= pe

\* A match goes on only where the timer is armed, and not over a line's end.
Matched(p) == p.IRQThing => Armed(p) /\ ("h" \in p.NMITIMEEN => p.event < LineLen)

Punctual ==
  /\ Matched(ppu) /\ Told(ppu, timer, timestamp, PpuEvent)
  /\ pc = "loop" /\ ~running => ~Due

\* The last dot of a match is in the line.
LEMMA MatchFits ==
  ASSUME NEW p \in Ppu, Armed(p), "h" \in p.NMITIMEEN
  PROVE  MatchTime(p) + 2 * Dot <= LineLen
<1>1. p.HTime \in Nat /\ Dots \in Nat /\ Dot \in Nat /\ p.HTime < Dots - 1
  BY TimesAssumption, SettingsAssumption DEF Ppu, Armed
<1>2. PICK k \in Nat : Dots = p.HTime + 2 + k
  <2>1. Dots - p.HTime - 2 \in Nat /\ Dots = p.HTime + 2 + (Dots - p.HTime - 2)
    BY <1>1
  <2> QED
    BY <2>1
<1>3. \A d, h, j \in Nat : (h + 2 + j) * d = d * h + 2 * d + j * d /\ j * d \in Nat /\ d * h \in Nat
  OBVIOUS
<1>4. LineLen = Dot * p.HTime + 2 * Dot + k * Dot /\ k * Dot \in Nat /\ Dot * p.HTime \in Nat
  BY <1>1, <1>2, <1>3 DEF LineLen
<1> QED
  BY <1>1, <1>4 DEF MatchTime

\* What PPU_UpdateLineIRQ finds, before, in and after the dot.
LEMMA AtTimeFinds ==
  ASSUME NEW p \in Ppu, NEW t \in Nat
  PROVE  /\ ~Armed(p) => ~AtTime(p, t).thing /\ AtTime(p, t).event = MAXTS
         /\ Armed(p) /\ "h" \notin p.NMITIMEEN => AtTime(p, t).thing /\ AtTime(p, t).event = MAXTS
         /\ Armed(p) /\ "h" \in p.NMITIMEEN =>
              /\ t < MatchTime(p) => ~AtTime(p, t).thing /\ AtTime(p, t).event = MatchTime(p)
              /\ MatchTime(p) <= t /\ t < MatchTime(p) + Dot => AtTime(p, t).thing /\ AtTime(p, t).event = t + Dot
              /\ MatchTime(p) + Dot <= t => ~AtTime(p, t).thing /\ AtTime(p, t).event = MAXTS
<1>1. MatchTime(p) \in Nat /\ Dot \in Nat
  BY TimesAreNat DEF MatchTime, Ppu
<1> DEFINE m == MatchTime(p)
           a == Armed(p)
           h == "h" \in p.NMITIMEEN
           td == t - m
<1>2. /\ AtTime(p, t).thing = (a /\ (h => 0 <= td /\ td < Dot))
      /\ AtTime(p, t).event = IF (a /\ h) /\ td < 0 THEN t - td ELSE IF (a /\ h) /\ td < Dot THEN t + Dot ELSE MAXTS
  BY DEF AtTime
<1>3. a \in BOOLEAN /\ h \in BOOLEAN /\ m \in Nat
  BY <1>1 DEF Armed
<1> HIDE DEF m, a, h
<1>4. ~a => ~AtTime(p, t).thing /\ AtTime(p, t).event = MAXTS
  BY <1>2, <1>3
<1>5. a /\ ~h => AtTime(p, t).thing /\ AtTime(p, t).event = MAXTS
  BY <1>2, <1>3
<1>6. ASSUME a, h, t < m PROVE ~AtTime(p, t).thing /\ AtTime(p, t).event = m
  <2>1. td < 0 /\ ~(0 <= td) /\ t - td = m
    BY <1>3, <1>6
  <2> QED
    BY <1>2, <1>3, <1>6, <2>1
<1>7. ASSUME a, h, m <= t, t < m + Dot PROVE AtTime(p, t).thing /\ AtTime(p, t).event = t + Dot
  <2>1. 0 <= td /\ ~(td < 0) /\ td < Dot
    BY <1>1, <1>3, <1>7
  <2> QED
    BY <1>2, <1>3, <1>7, <2>1
<1>8. ASSUME a, h, m + Dot <= t PROVE ~AtTime(p, t).thing /\ AtTime(p, t).event = MAXTS
  <2>1. ~(td < 0) /\ ~(td < Dot)
    BY <1>1, <1>3, <1>8
  <2> QED
    BY <1>2, <1>3, <1>8, <2>1
<1> QED
  BY <1>4, <1>5, <1>6, <1>7, <1>8 DEF m, a, h

\* Of the update's records, by field.
LEMMA UpdatedFields ==
  ASSUME NEW p \in Ppu, NEW t \in Nat, NEW r \in Timer
  PROVE  LET q == UpdatedPpu(p, t)
             s == Counted(r, p, t)
         IN /\ q.NMITIMEEN = p.NMITIMEEN /\ q.HTime = p.HTime /\ q.VTime = p.VTime
            /\ q.scanline = p.scanline /\ q.phase = p.phase
            /\ q.IRQThing = AtTime(p, t).thing /\ q.event = AtTime(p, t).event
            /\ q.IRQFlag <=> p.IRQFlag \/ Asks(p, t)
            /\ s.steady = r.steady /\ s.clear = r.clear
            /\ s.asked = IF Asks(p, t) THEN Earlier(r.asked + 1, 2) ELSE r.asked
<1>1. UpdatedPpu(p, t) = [p EXCEPT !.IRQThing = AtTime(p, t).thing, !.event = AtTime(p, t).event,
                                   !.IRQFlag = @ \/ Asks(p, t)]
  BY DEF UpdatedPpu
<1>2. Counted(r, p, t) = IF Asks(p, t) THEN [r EXCEPT !.asked = Earlier(@ + 1, 2)] ELSE r
  BY DEF Counted
<1> HIDE DEF AtTime, Asks, Earlier
<1> QED
  BY <1>1, <1>2 DEF Ppu, Timer

\* The settings' predicates look at the settings alone.
LEMMA SameSettings ==
  ASSUME NEW p \in Ppu, NEW q \in Ppu, q.NMITIMEEN \cap {"h", "v"} = p.NMITIMEEN \cap {"h", "v"},
         q.HTime = p.HTime, q.VTime = p.VTime, q.scanline = p.scanline
  PROVE  /\ (Armed(q) <=> Armed(p)) /\ MatchTime(q) = MatchTime(p)
         /\ "h" \in q.NMITIMEEN <=> "h" \in p.NMITIMEEN
<1>1. ("h" \in q.NMITIMEEN <=> "h" \in p.NMITIMEEN) /\ ("v" \in q.NMITIMEEN <=> "v" \in p.NMITIMEEN)
  OBVIOUS
<1> QED
  BY <1>1 DEF Armed, InLine, MatchTime

\* Whenever it looks, and whatever it finds, the match is as it says.
LEMMA UpdateMatches ==
  ASSUME NEW p \in Ppu, NEW t \in Nat
  PROVE  Matched(UpdatedPpu(p, t)) /\ UpdatedPpu(p, t) \in Ppu
<1> DEFINE q == UpdatedPpu(p, t)
<1>1. /\ q.NMITIMEEN = p.NMITIMEEN /\ q.HTime = p.HTime /\ q.VTime = p.VTime /\ q.scanline = p.scanline
      /\ q.IRQThing = AtTime(p, t).thing /\ q.event = AtTime(p, t).event
  <2>1. PICK r \in Timer : TRUE
    <3>1. [asked |-> 0, steady |-> FALSE, clear |-> TRUE] \in Timer
      BY DEF Timer
    <3> QED
      BY <3>1
  <2> QED
    BY <2>1, UpdatedFields
<1>2. q \in Ppu
  <2>1. q = [p EXCEPT !.IRQThing = AtTime(p, t).thing, !.event = AtTime(p, t).event,
                      !.IRQFlag = @ \/ Asks(p, t)]
    BY DEF UpdatedPpu
  <2>2. AtTime(p, t).thing \in BOOLEAN /\ AtTime(p, t).event \in Nat
    BY AtTimeTyped
  <2> HIDE DEF q, AtTime, Asks
  <2>3. (p.IRQFlag \/ Asks(p, t)) \in BOOLEAN
    OBVIOUS
  <2> QED
    BY <2>1, <2>2, <2>3 DEF Ppu
<1> HIDE DEF q
<1>3. (Armed(q) <=> Armed(p)) /\ ("h" \in q.NMITIMEEN <=> "h" \in p.NMITIMEEN)
  BY <1>1, <1>2, SameSettings
<1>4. ASSUME q.IRQThing PROVE Armed(q) /\ ("h" \in q.NMITIMEEN => q.event < LineLen)
  <2>1. Armed(p)
    BY <1>1, <1>4, AtTimeFinds
  <2>2. ASSUME "h" \in p.NMITIMEEN PROVE q.event < LineLen
    <3>1. MatchTime(p) \in Nat /\ Dot \in Nat /\ LineLen \in Nat
      BY TimesAreNat DEF MatchTime, Ppu
    <3>2. MatchTime(p) + 2 * Dot <= LineLen
      BY <2>1, <2>2, MatchFits
    <3>3. t < MatchTime(p) + Dot /\ q.event = t + Dot
      <4>1. AtTime(p, t).thing
        BY <1>1, <1>4
      <4>2. ~(t < MatchTime(p)) /\ ~(MatchTime(p) + Dot <= t)
        BY <2>1, <2>2, <4>1, AtTimeFinds
      <4>3. MatchTime(p) <= t /\ t < MatchTime(p) + Dot
        BY <3>1, <4>2
      <4> QED
        BY <1>1, <2>1, <2>2, <4>3, AtTimeFinds
    <3> QED
      BY <3>1, <3>2, <3>3
  <2> QED
    BY <1>3, <2>1, <2>2
<1> QED
  BY <1>2, <1>4 DEF Matched, q

\* What has been told stays so, while nothing looks.
LEMMA ToldStays ==
  ASSUME NEW p \in Ppu, NEW q \in Ppu, NEW r \in Timer, NEW ts \in Nat, NEW pe \in Nat,
         NEW ts2 \in Nat, NEW pe2 \in Nat, ts <= ts2, pe <= pe2, Told(p, r, ts, pe),
         q.NMITIMEEN \cap {"h", "v"} = p.NMITIMEEN \cap {"h", "v"},
         q.HTime = p.HTime, q.VTime = p.VTime, q.scanline = p.scanline,
         q.IRQThing = p.IRQThing, q.event = p.event, q.IRQFlag => p.IRQFlag
  PROVE  Told(q, r, ts2, pe2)
<1>1. /\ (Armed(q) <=> Armed(p)) /\ MatchTime(q) = MatchTime(p)
      /\ "h" \in q.NMITIMEEN <=> "h" \in p.NMITIMEEN
  BY SameSettings
<1>2. MatchTime(p) \in Nat /\ Dot \in Nat
  BY TimesAreNat DEF MatchTime, Ppu
<1> QED
  BY <1>1, <1>2 DEF Told

\* A look at t, which is not before the last one, not after what PPU_Update
\* has to do, and not a dot after it was due.
LEMMA LookTells ==
  ASSUME NEW p \in Ppu, NEW r \in Timer, NEW ts \in Nat, NEW pe \in Nat, NEW t \in Nat, NEW ts2 \in Nat,
         Told(p, r, ts, pe), ts <= ts2, t <= ts2, t <= pe,
         ts <= t \/ t = pe \/ t = p.event,
         r.steady /\ r.clear => t < p.event + Dot
  PROVE  Told(UpdatedPpu(p, t), Counted(r, p, t), ts2, pe)
<1> DEFINE q == UpdatedPpu(p, t)
           s == Counted(r, p, t)
           m == MatchTime(p)
<1>1. q \in Ppu
  BY UpdateMatches
<1>2. /\ q.NMITIMEEN = p.NMITIMEEN /\ q.HTime = p.HTime /\ q.VTime = p.VTime /\ q.scanline = p.scanline
      /\ q.IRQThing = AtTime(p, t).thing /\ q.event = AtTime(p, t).event
      /\ q.IRQFlag <=> p.IRQFlag \/ Asks(p, t)
      /\ s.steady = r.steady /\ s.clear = r.clear
      /\ s.asked = IF Asks(p, t) THEN Earlier(r.asked + 1, 2) ELSE r.asked
  BY UpdatedFields
<1> HIDE DEF q, s
<1>3. (Armed(q) <=> Armed(p)) /\ MatchTime(q) = m /\ ("h" \in q.NMITIMEEN <=> "h" \in p.NMITIMEEN)
  BY <1>1, <1>2, SameSettings
<1>4. m \in Nat /\ Dot \in Nat \ {0} /\ p.event \in Nat /\ MAXTS \in Nat
  BY TimesAreNat, TimesAssumption DEF MatchTime, Ppu
<1> HIDE DEF m
<1> SUFFICES ASSUME r.steady, r.clear PROVE Told(q, s, ts2, pe)
  BY <1>2 DEF Told, q, s
<1>5. Asks(p, t) <=> AtTime(p, t).thing /\ ~p.IRQThing /\ ~p.IRQFlag
  BY DEF Asks
<1>6. r.asked = 0 => ~p.IRQFlag
  BY DEF Told
<1>7. CASE ~Armed(p) /\ r.asked = 0 /\ ~p.IRQThing /\ p.event = MAXTS
  <2>1. ~AtTime(p, t).thing /\ AtTime(p, t).event = MAXTS
    BY <1>7, AtTimeFinds
  <2>2. ~q.IRQThing /\ q.event = MAXTS /\ s.asked = 0 /\ (q.IRQFlag <=> p.IRQFlag)
    BY <1>2, <1>5, <1>7, <2>1
  <2> QED
    BY <1>3, <1>6, <1>7, <2>2 DEF Told
<1>8. CASE Armed(p) /\ "h" \notin p.NMITIMEEN /\ r.asked = 1 /\ p.IRQThing /\ p.event = MAXTS
  <2>1. AtTime(p, t).thing /\ AtTime(p, t).event = MAXTS
    BY <1>8, AtTimeFinds
  <2>2. q.IRQThing /\ q.event = MAXTS /\ s.asked = 1
    BY <1>2, <1>5, <1>8, <2>1
  <2> QED
    BY <1>3, <1>8, <2>2 DEF Told
<1>9. CASE Armed(p) /\ "h" \in p.NMITIMEEN /\ r.asked = 0 /\ ~p.IRQThing /\ p.event = m
  <2>1. t < m + Dot
    BY <1>9
  <2>2. CASE t < m
    <3>1. ~AtTime(p, t).thing /\ AtTime(p, t).event = m
      BY <1>9, <2>2, AtTimeFinds DEF m
    <3>2. ~q.IRQThing /\ q.event = m /\ s.asked = 0 /\ (q.IRQFlag <=> p.IRQFlag)
      BY <1>2, <1>5, <1>9, <3>1
    <3> QED
      BY <1>3, <1>6, <1>9, <3>2 DEF Told
  <2>3. CASE m <= t
    <3>1. AtTime(p, t).thing /\ AtTime(p, t).event = t + Dot
      BY <1>9, <2>1, <2>3, AtTimeFinds DEF m
    <3>2. Asks(p, t)
      BY <1>5, <1>6, <1>9, <3>1
    <3>3. q.IRQThing /\ q.event = t + Dot /\ s.asked = 1
      BY <1>2, <1>9, <3>1, <3>2 DEF Earlier
    <3>4. m + Dot <= t + Dot /\ t + Dot < m + 2 * Dot /\ m <= ts2 /\ m <= pe
      BY <1>4, <2>1, <2>3
    <3> QED
      BY <1>3, <1>9, <3>3, <3>4 DEF Told
  <2> QED
    BY <1>4, <2>2, <2>3
<1>10. CASE /\ Armed(p) /\ "h" \in p.NMITIMEEN /\ r.asked = 1 /\ p.IRQThing
            /\ m + Dot <= p.event /\ p.event < m + 2 * Dot /\ m <= ts /\ m <= pe
  <2>1. m <= t /\ m <= ts2
    BY <1>4, <1>10
  <2>2. ~Asks(p, t) /\ s.asked = 1
    BY <1>2, <1>5, <1>10
  <2>3. CASE t < m + Dot
    <3>1. AtTime(p, t).thing /\ AtTime(p, t).event = t + Dot
      BY <1>10, <2>1, <2>3, AtTimeFinds DEF m
    <3>2. m + Dot <= t + Dot /\ t + Dot < m + 2 * Dot
      BY <1>4, <2>1, <2>3
    <3> QED
      BY <1>2, <1>3, <1>10, <2>1, <2>2, <3>1, <3>2 DEF Told
  <2>4. CASE m + Dot <= t
    <3>1. ~AtTime(p, t).thing /\ AtTime(p, t).event = MAXTS
      BY <1>10, <2>4, AtTimeFinds DEF m
    <3>2. m + Dot <= ts2 /\ m + Dot <= pe
      BY <1>4, <2>4
    <3> QED
      BY <1>2, <1>3, <1>10, <2>2, <3>1, <3>2 DEF Told
  <2> QED
    BY <1>4, <2>3, <2>4
<1>11. CASE /\ Armed(p) /\ "h" \in p.NMITIMEEN /\ r.asked = 1 /\ ~p.IRQThing /\ p.event = MAXTS
            /\ m + Dot <= ts /\ m + Dot <= pe
  <2>1. MatchTime(p) + 2 * Dot <= LineLen
    BY <1>11, MatchFits
  <2>2. m + Dot <= t /\ m + Dot <= ts2
    BY <1>4, <1>11, <2>1, TimesAssumption, TimesAreNat DEF m
  <2>3. ~AtTime(p, t).thing /\ AtTime(p, t).event = MAXTS
    BY <1>11, <2>2, AtTimeFinds DEF m
  <2>4. ~q.IRQThing /\ q.event = MAXTS /\ s.asked = 1
    BY <1>2, <1>5, <1>11, <2>3
  <2> QED
    BY <1>3, <1>4, <1>11, <2>2, <2>4 DEF Told
<1> QED
  BY <1>7, <1>8, <1>9, <1>10, <1>11 DEF Told, m

\* The line's start: nothing of the last line's match is left.
LEMMA LineTells ==
  ASSUME NEW p \in Ppu, NEW r \in Timer, r.asked = 0, r.clear => ~p.IRQFlag, Armed(p) => ~p.IRQThing,
         NEW ts \in Nat, NEW pe \in Nat
  PROVE  Told(UpdatedPpu(p, 0), Counted(r, p, 0), ts, pe)
<1> DEFINE q == UpdatedPpu(p, 0)
           s == Counted(r, p, 0)
           m == MatchTime(p)
<1>1. q \in Ppu
  BY UpdateMatches
<1>2. 0 \in Nat
  OBVIOUS
<1>3. /\ q.NMITIMEEN = p.NMITIMEEN /\ q.HTime = p.HTime /\ q.VTime = p.VTime /\ q.scanline = p.scanline
      /\ q.IRQThing = AtTime(p, 0).thing /\ q.event = AtTime(p, 0).event
      /\ q.IRQFlag <=> p.IRQFlag \/ Asks(p, 0)
      /\ s.steady = r.steady /\ s.clear = r.clear
      /\ s.asked = IF Asks(p, 0) THEN Earlier(r.asked + 1, 2) ELSE r.asked
  BY <1>2, UpdatedFields
<1> HIDE DEF q, s
<1>4. (Armed(q) <=> Armed(p)) /\ MatchTime(q) = m /\ ("h" \in q.NMITIMEEN <=> "h" \in p.NMITIMEEN)
  BY <1>1, <1>3, SameSettings
<1>5. m \in Nat /\ Dot \in Nat \ {0} /\ MAXTS \in Nat /\ ("h" \notin p.NMITIMEEN => m = 0)
  BY TimesAreNat, TimesAssumption DEF MatchTime, Ppu
<1> HIDE DEF m
<1> SUFFICES ASSUME r.clear PROVE Told(q, s, ts, pe)
  BY <1>3 DEF Told, q, s
<1>6. Asks(p, 0) <=> AtTime(p, 0).thing /\ ~p.IRQThing
  BY DEF Asks
<1>7. CASE ~Armed(p)
  <2>1. ~AtTime(p, 0).thing /\ AtTime(p, 0).event = MAXTS
    BY <1>7, AtTimeFinds
  <2> QED
    BY <1>2, <1>3, <1>4, <1>6, <1>7, <2>1 DEF Told
<1>8. CASE Armed(p) /\ "h" \notin p.NMITIMEEN
  <2>1. AtTime(p, 0).thing /\ AtTime(p, 0).event = MAXTS
    BY <1>8, AtTimeFinds
  <2>2. Asks(p, 0) /\ s.asked = 1
    BY <1>2, <1>3, <1>6, <1>8, <2>1 DEF Earlier
  <2> QED
    BY <1>3, <1>4, <1>8, <2>1, <2>2 DEF Told
<1>9. CASE Armed(p) /\ "h" \in p.NMITIMEEN /\ m = 0
  <2>1. AtTime(p, 0).thing /\ AtTime(p, 0).event = 0 + Dot
    BY <1>5, <1>9, AtTimeFinds DEF m
  <2>2. Asks(p, 0) /\ s.asked = 1
    BY <1>2, <1>3, <1>6, <1>9, <2>1 DEF Earlier
  <2>3. m + Dot <= 0 + Dot /\ 0 + Dot < m + 2 * Dot /\ m <= ts /\ m <= pe
    BY <1>5, <1>9
  <2> QED
    BY <1>3, <1>4, <1>9, <2>1, <2>2, <2>3 DEF Told
<1>10. CASE Armed(p) /\ "h" \in p.NMITIMEEN /\ m # 0
  <2>1. ~AtTime(p, 0).thing /\ AtTime(p, 0).event = m
    BY <1>5, <1>10, AtTimeFinds DEF m
  <2> QED
    BY <1>2, <1>3, <1>4, <1>6, <1>10, <2>1 DEF Told
<1> QED
  BY <1>7, <1>8, <1>9, <1>10

\* What an access leaves of the foretelling.
LEMMA AccessTells ==
  ASSUME IInv, NEW o \in Ops, NEW t \in Nat, NEW ts \in Nat,
         Finish(o, t) \/ UNCHANGED <<ppu, cpu, timer>>,
         Matched(ppu), Told(ppu, timer, timestamp, PpuEvent),
         timestamp <= ts, t <= ts, timestamp <= t \/ t = PpuEvent
  PROVE  Matched(ppu') /\ Told(ppu', timer', ts, PpuEvent)
<1>1. /\ TypeOK /\ ppu \in Ppu /\ timer \in Timer /\ timestamp \in Nat /\ PpuEvent \in Nat
  BY Unfolded, NextEventTyped DEF TypeOK
<1> DEFINE pe == PpuEvent
<1>2. pe \in Nat /\ Told(ppu, timer, timestamp, pe)
  BY <1>1
<1> HIDE DEF pe
<1>3. CASE UNCHANGED <<ppu, cpu, timer>>
  <2>1. Told(ppu, timer, ts, pe)
    BY <1>1, <1>2, ToldStays
  <2> QED
    BY <1>3, <2>1 DEF pe
<1>4. ASSUME NEW p \in Ppu, NEW c, Set(p, c, t),
             p.scanline = ppu.scanline, p.IRQThing = ppu.IRQThing, p.event = ppu.event,
             p.IRQFlag => ppu.IRQFlag
      PROVE  Matched(ppu') /\ Told(ppu', timer', ts, pe)
  <2> DEFINE k == Kept(p, t)
             r == [timer EXCEPT !.steady = @ /\ k]
  <2>1. ppu' = UpdatedPpu(p, t) /\ timer' = Counted(r, p, t)
    BY <1>4 DEF Set
  <2>2. k \in BOOLEAN
    BY DEF Kept
  <2>3. k => /\ p.HTime = ppu.HTime /\ p.VTime = ppu.VTime
             /\ p.NMITIMEEN \cap {"h", "v"} = ppu.NMITIMEEN \cap {"h", "v"}
             /\ t < ppu.event + Dot /\ t <= pe
    BY DEF Kept, pe
  <2> HIDE DEF k
  <2>4. r \in Timer /\ (r.steady <=> timer.steady /\ k) /\ r.clear = timer.clear /\ r.asked = timer.asked
    BY <1>1, <2>2 DEF Timer
  <2> HIDE DEF r
  <2>5. Matched(ppu')
    BY <2>1, UpdateMatches
  <2>6. CASE r.steady
    <3>1. Told(p, timer, timestamp, pe)
      BY <1>1, <1>2, <1>4, <2>3, <2>4, <2>6, ToldStays
    <3>2. Told(p, r, timestamp, pe)
      BY <2>4, <2>6, <3>1 DEF Told
    <3>3. t <= pe /\ t < p.event + Dot /\ (timestamp <= t \/ t = pe)
      BY <1>4, <2>3, <2>4, <2>6 DEF pe
    <3>4. Told(UpdatedPpu(p, t), Counted(r, p, t), ts, pe)
      BY <1>1, <1>2, <2>4, <3>2, <3>3, LookTells
    <3> QED
      BY <2>1, <2>5, <3>4
  <2>7. CASE ~r.steady
    <3>1. timer'.steady = r.steady
      BY <2>1, <2>4, UpdatedFields
    <3> QED
      BY <2>5, <2>7, <3>1 DEF Told
  <2> QED
    BY <2>6, <2>7
<1>5. ASSUME NEW p \in Ppu, ppu' = p, timer' = timer, p.NMITIMEEN = ppu.NMITIMEEN,
             p.HTime = ppu.HTime, p.VTime = ppu.VTime,
             p.scanline = ppu.scanline, p.IRQThing = ppu.IRQThing, p.event = ppu.event,
             p.IRQFlag => ppu.IRQFlag
      PROVE  Matched(ppu') /\ Told(ppu', timer', ts, pe)
  <2>1. Told(p, timer, ts, pe)
    BY <1>1, <1>2, <1>5, ToldStays
  <2>2. (Armed(p) <=> Armed(ppu)) /\ ("h" \in p.NMITIMEEN <=> "h" \in ppu.NMITIMEEN)
    BY <1>1, <1>5, SameSettings
  <2>3. Matched(p)
    BY <1>5, <2>2 DEF Matched
  <2> QED
    BY <1>5, <2>1, <2>3
<1>6. CASE Finish(o, t)
  <2>1. CASE o.reg = "NMITIMEEN" /\ Write_NMITIMEEN(o.V, t)
    <3> DEFINE p == [ppu EXCEPT !.NMITIMEEN = o.V, !.IRQFlag = @ /\ o.V \cap {"h", "v"} # {}]
    <3>1. /\ p \in Ppu /\ p.scanline = ppu.scanline /\ p.IRQThing = ppu.IRQThing /\ p.event = ppu.event
          /\ p.IRQFlag => ppu.IRQFlag
      BY <1>1, <2>1 DEF Ops, Ppu
    <3>2. UNCHANGED <<ppu, cpu, timer>> \/ \E c : Set(p, c, t)
      BY <2>1 DEF Write_NMITIMEEN
    <3> HIDE DEF p
    <3> QED
      BY <1>3, <1>4, <3>1, <3>2 DEF pe
  <2>2. CASE o.reg = "HTIME" /\ Write_HTIME(o.V, t)
    <3> DEFINE p == [ppu EXCEPT !.HTime = o.V]
    <3>1. /\ p \in Ppu /\ p.scanline = ppu.scanline /\ p.IRQThing = ppu.IRQThing /\ p.event = ppu.event
          /\ p.IRQFlag => ppu.IRQFlag
      BY <1>1, <2>2 DEF Ops, Ppu
    <3>2. UNCHANGED <<ppu, cpu, timer>> \/ Set(p, cpu, t)
      BY <2>2 DEF Write_HTIME
    <3> HIDE DEF p
    <3> QED
      BY <1>3, <1>4, <3>1, <3>2 DEF pe
  <2>3. CASE o.reg = "VTIME" /\ Write_VTIME(o.V, t)
    <3> DEFINE p == [ppu EXCEPT !.VTime = o.V]
    <3>1. /\ p \in Ppu /\ p.scanline = ppu.scanline /\ p.IRQThing = ppu.IRQThing /\ p.event = ppu.event
          /\ p.IRQFlag => ppu.IRQFlag
      BY <1>1, <2>3 DEF Ops, Ppu
    <3>2. UNCHANGED <<ppu, cpu, timer>> \/ Set(p, cpu, t)
      BY <2>3 DEF Write_VTIME
    <3> HIDE DEF p
    <3> QED
      BY <1>3, <1>4, <3>1, <3>2 DEF pe
  <2>4. CASE Read_4210
    <3> DEFINE p == [ppu EXCEPT !.NMIFlag = FALSE]
    <3>1. /\ p \in Ppu /\ p.NMITIMEEN = ppu.NMITIMEEN /\ p.HTime = ppu.HTime /\ p.VTime = ppu.VTime
          /\ p.scanline = ppu.scanline /\ p.IRQThing = ppu.IRQThing /\ p.event = ppu.event
          /\ p.IRQFlag => ppu.IRQFlag
      BY <1>1 DEF Ppu
    <3>2. ppu' = p /\ timer' = timer
      BY <2>4 DEF Read_4210
    <3> HIDE DEF p
    <3> QED
      BY <1>5, <3>1, <3>2 DEF pe
  <2>5. CASE Read_4211
    <3> DEFINE p == [ppu EXCEPT !.IRQFlag = FALSE]
    <3>1. /\ p \in Ppu /\ p.NMITIMEEN = ppu.NMITIMEEN /\ p.HTime = ppu.HTime /\ p.VTime = ppu.VTime
          /\ p.scanline = ppu.scanline /\ p.IRQThing = ppu.IRQThing /\ p.event = ppu.event
          /\ p.IRQFlag => ppu.IRQFlag
      BY <1>1 DEF Ppu
    <3>2. ppu' = p /\ timer' = timer
      BY <2>5 DEF Read_4211
    <3> HIDE DEF p
    <3> QED
      BY <1>5, <3>1, <3>2 DEF pe
  <2>6. CASE o.reg = "cart" /\ CartLine(o.V)
    <3>1. ppu' = ppu /\ timer' = timer
      BY <2>6 DEF CartLine
    <3> QED
      BY <1>1, <1>5, <3>1 DEF pe
  <2> QED
    BY <1>6, <2>1, <2>2, <2>3, <2>4, <2>5, <2>6 DEF Finish
<1> QED
  BY <1>3, <1>6 DEF pe

\* The accesses of instructions, DMA and HDMA.
LEMMA PunctualAccesses ==
  ASSUME IInv, Sleep, Punctual, DmaByte \/ HDMA \/ OpDone \/ (\E o \in Ops : RegisterAccess(o))
  PROVE  Punctual'
<1>1. /\ TypeOK /\ Control /\ Lead /\ Matched(ppu) /\ Told(ppu, timer, timestamp, PpuEvent)
      /\ PpuEvent \in Nat /\ timestamp \in Nat /\ ppu \in Ppu
  BY Unfolded, NextEventTyped DEF Sleep, Punctual, Control
<1>2. \A d \in Cycles : timestamp + d \in Nat /\ timestamp <= timestamp + d
  BY <1>1, TimesAssumption
<1>3. ASSUME NEW o \in Ops, NEW t \in Nat, Finish(o, t) \/ UNCHANGED <<ppu, cpu, timer>>,
             timestamp' \in Nat, timestamp <= timestamp', t <= timestamp', timestamp <= t \/ t = PpuEvent
      PROVE  Matched(ppu') /\ Told(ppu', timer', timestamp', PpuEvent')
  <2>1. Matched(ppu') /\ Told(ppu', timer', timestamp', PpuEvent)
    BY <1>1, <1>3, AccessTells
  <2>2. ppu'.phase = ppu.phase
    BY <1>1, <1>3, FinishStill DEF Still
  <2>3. PpuEvent' = PpuEvent
    BY <2>2 DEF PpuEvent
  <2> QED
    BY <2>1, <2>3
<1>4. CASE DmaByte
  <2>1. PICK d \in Cycles, o \in Ops : timestamp' = timestamp + d /\ Finish(o, timestamp + d)
    BY <1>4 DEF DmaByte
  <2>2. running' = TRUE
    BY <1>1, <1>4 DEF DmaByte, Control
  <2> QED
    BY <1>2, <1>3, <2>1, <2>2 DEF Punctual
<1>5. CASE HDMA
  <2>1. PICK d \in Cycles, o \in Ops :
          /\ timestamp' = timestamp + d
          /\ IF Calls(o, timestamp + d)
             THEN pc' = "aborted" /\ UNCHANGED <<ppu, cpu, timer, owed>>
             ELSE Finish(o, PpuEvent) /\ Owe /\ UNCHANGED pc
    BY <1>5 DEF HDMA
  <2>2. PpuEvent <= timestamp /\ pc' # "loop"
    BY <1>1, <1>5, <2>1 DEF HDMA, PpuEvent, Lead
  <2>3. PpuEvent <= timestamp'
    BY <1>1, <1>2, <2>1, <2>2
  <2> QED
    BY <1>1, <1>2, <1>3, <2>1, <2>2, <2>3 DEF Punctual
<1>6. CASE OpDone
  <2>1. op \in Ops /\ Finish(op, timestamp) /\ timestamp' = timestamp /\ pc' = "instr"
    BY <1>1, <1>6 DEF OpDone, Control
  <2> QED
    BY <1>1, <1>3, <2>1 DEF Punctual
<1>7. ASSUME NEW o \in Ops, RegisterAccess(o)
      PROVE  Punctual'
  <2>1. PICK d \in Cycles :
          /\ timestamp' = timestamp + d
          /\ IF Calls(o, timestamp + d)
             THEN pc' = "events" /\ op' = o /\ UNCHANGED <<ppu, cpu, timer, owed>>
             ELSE Finish(o, timestamp + d) /\ Owe /\ UNCHANGED <<pc, op>>
    BY <1>7 DEF RegisterAccess
  <2>2. pc' # "loop"
    BY <1>7, <2>1 DEF RegisterAccess
  <2> QED
    BY <1>2, <1>3, <2>1, <2>2 DEF Punctual
<1> QED
  BY <1>4, <1>5, <1>6, <1>7

\* The steps that look at nothing: only time goes on, and the line's phase.
LEMMA PunctualLater ==
  ASSUME IInv, Punctual, timer' = timer, timestamp' \in Nat, timestamp <= timestamp',
         NEW f \in {"line", "refresh", "hdma", "hblank"}, NEW b \in Nat,
         ppu' = [ppu EXCEPT !.phase = f, !.began = b], PpuEvent' \in Nat, PpuEvent <= PpuEvent'
  PROVE  Matched(ppu') /\ Told(ppu', timer', timestamp', PpuEvent')
<1>1. /\ TypeOK /\ timestamp \in Nat /\ Matched(ppu) /\ Told(ppu, timer, timestamp, PpuEvent)
      /\ PpuEvent \in Nat /\ ppu \in Ppu /\ timer \in Timer
  BY Unfolded, NextEventTyped DEF Punctual, Control
<1>2. /\ ppu' \in Ppu /\ ppu'.NMITIMEEN = ppu.NMITIMEEN /\ ppu'.HTime = ppu.HTime /\ ppu'.VTime = ppu.VTime
      /\ ppu'.scanline = ppu.scanline /\ ppu'.IRQThing = ppu.IRQThing /\ ppu'.event = ppu.event
      /\ ppu'.IRQFlag = ppu.IRQFlag
  BY <1>1 DEF Ppu
<1> DEFINE q == ppu'
           pe == PpuEvent
           pe2 == PpuEvent'
           ts2 == timestamp'
<1>3. pe \in Nat /\ pe2 \in Nat /\ pe <= pe2 /\ ts2 \in Nat /\ timestamp <= ts2 /\ Told(ppu, timer, timestamp, pe)
  BY <1>1
<1> HIDE DEF q, pe, pe2, ts2
<1>4. Told(q, timer, ts2, pe2)
  BY <1>1, <1>2, <1>3, ToldStays DEF q
<1>5. (Armed(q) <=> Armed(ppu)) /\ ("h" \in q.NMITIMEEN <=> "h" \in ppu.NMITIMEEN)
  BY <1>1, <1>2, SameSettings DEF q
<1>6. Matched(q)
  BY <1>1, <1>2, <1>5 DEF Matched, q
<1> QED
  BY <1>4, <1>6 DEF q, pe2, ts2

\* The CPU's steps but for its accesses, and the frame's start.
LEMMA PunctualCpu ==
  ASSUME IInv, Punctual,
         \/ StartFrame \/ Enter \/ DmaYield \/ DmaEnd \/ Wake \/ StayHalted \/ TakeReset \/ TakeNMI
         \/ TakeIRQ \/ Fetch \/ FetchImmediate \/ Leave \/ Write_420B \/ Retire \/ WAI \/ STP \/ EventsDone
  PROVE  Punctual'
<1>1. /\ TypeOK /\ Control /\ timestamp \in Nat /\ PpuEvent \in Nat /\ ppu \in Ppu
      /\ NextEvent \in Nat /\ Later(timestamp, NextEvent) \in Nat
  BY Unfolded, NextEventTyped DEF Control
<1>2. ppu' = ppu /\ timer' = timer
  BY DEF StartFrame, Enter, DmaYield, DmaEnd, Wake, StayHalted, TakeReset, TakeNMI, TakeIRQ, Fetch,
         FetchImmediate, Leave, Write_420B, Retire, WAI, STP, EventsDone, Turn
<1>3. timestamp' = timestamp \/ timestamp' = Later(timestamp, NextEvent) \/ \E d \in Cycles : timestamp' = timestamp + d
  BY DEF StartFrame, Enter, DmaYield, DmaEnd, Wake, StayHalted, TakeReset, TakeNMI, TakeIRQ, Fetch,
         FetchImmediate, Leave, Write_420B, Retire, WAI, STP, EventsDone, Turn
<1>4. timestamp' \in Nat /\ timestamp <= timestamp'
  <2>1. timestamp <= Later(timestamp, NextEvent)
    BY <1>1 DEF Later
  <2>2. \A d \in Cycles : timestamp + d \in Nat /\ timestamp <= timestamp + d
    BY <1>1, TimesAreNat
  <2> QED
    BY <1>1, <1>3, <2>1, <2>2
<1>5. PpuEvent' = PpuEvent
  BY <1>2 DEF PpuEvent
<1>6. PICK f \in {"line", "refresh", "hdma", "hblank"}, b \in Nat : ppu' = [ppu EXCEPT !.phase = f, !.began = b]
  <2>1. ppu = [ppu EXCEPT !.phase = ppu.phase, !.began = ppu.began]
    BY <1>1 DEF Ppu
  <2>2. ppu.phase \in {"line", "refresh", "hdma", "hblank"} /\ ppu.began \in Nat
    BY <1>1, LeadsAreInt
  <2> QED
    BY <1>2, <2>1, <2>2
<1>7. Matched(ppu') /\ Told(ppu', timer', timestamp', PpuEvent')
  <2>1. PpuEvent' \in Nat /\ PpuEvent <= PpuEvent'
    BY <1>1, <1>5
  <2> QED
    BY <1>2, <1>4, <1>6, <2>1, PunctualLater
<1>8. pc' = "loop" /\ ~running' => ~Due'
  <2>1. CASE EventsDone
    BY <2>1 DEF EventsDone, Due, NextEvent, PpuEvent
  <2>2. CASE StartFrame \/ DmaEnd
    BY <1>1, <2>2 DEF StartFrame, DmaEnd, Control
  <2>3. CASE Enter \/ DmaYield \/ Wake \/ StayHalted \/ Leave \/ Retire \/ WAI \/ STP
    BY <2>3 DEF Enter, DmaYield, Wake, StayHalted, Leave, Retire, WAI, STP
  <2>4. CASE TakeReset \/ TakeNMI \/ TakeIRQ \/ Fetch \/ FetchImmediate \/ Write_420B
    BY <2>4 DEF TakeReset, TakeNMI, TakeIRQ, Fetch, FetchImmediate, Turn, Write_420B
  <2> QED
    BY <2>1, <2>2, <2>3, <2>4
<1> QED
  BY <1>7, <1>8 DEF Punctual

\* The PPU's events, and the frame's end, which looks at the timer once more.
LEMMA PunctualEvents ==
  ASSUME IInv, Sleep, Punctual, LineIRQEvent \/ Refresh \/ HBlank \/ HDMADone \/ FrameEnd \/ Reset
  PROVE  Punctual'
<1>1. /\ TypeOK /\ Control /\ timestamp \in Nat /\ PpuEvent \in Nat /\ ppu \in Ppu /\ timer \in Timer
      /\ ppu.event \in Nat /\ Told(ppu, timer, timestamp, PpuEvent) /\ Matched(ppu)
  BY Unfolded, NextEventTyped DEF Control, Ppu, Punctual
<1>2. ASSUME NEW t \in Nat, ppu' = UpdatedPpu(ppu, t), timer' = Counted(timer, ppu, t), timestamp' = timestamp,
             t <= timestamp, t <= PpuEvent, timestamp <= t \/ t = ppu.event, t <= ppu.event
      PROVE  Matched(ppu') /\ Told(ppu', timer', timestamp', PpuEvent')
  <2> DEFINE pe == PpuEvent
  <2>1. pe \in Nat /\ t <= pe /\ Told(ppu, timer, timestamp, pe)
    BY <1>1, <1>2
  <2>2. t < ppu.event + Dot
    BY <1>1, <1>2, TimesAssumption
  <2>3. ppu'.phase = ppu.phase
    BY <1>1, <1>2, UpdatedFields
  <2>4. PpuEvent' = pe
    BY <2>3 DEF PpuEvent
  <2> HIDE DEF pe
  <2>5. timestamp <= timestamp
    BY <1>1
  <2>6. Told(UpdatedPpu(ppu, t), Counted(timer, ppu, t), timestamp, pe)
    BY <1>1, <1>2, <2>1, <2>2, <2>5, LookTells
  <2> QED
    BY <1>1, <1>2, <2>4, <2>6, UpdateMatches
<1>3. CASE LineIRQEvent
  <2>1. /\ ppu' = UpdatedPpu(ppu, ppu.event) /\ timer' = Counted(timer, ppu, ppu.event) /\ timestamp' = timestamp
        /\ ppu.event <= timestamp /\ ppu.event <= PpuEvent /\ pc' = "events"
    BY <1>3 DEF LineIRQEvent, control
  <2>2. ppu.event <= ppu.event
    BY <1>1
  <2> QED
    BY <1>1, <1>2, <2>1, <2>2 DEF Punctual
<1>4. CASE FrameEnd
  <2>1. /\ ppu' = UpdatedPpu(ppu, timestamp) /\ timer' = Counted(timer, ppu, timestamp) /\ timestamp' = timestamp
        /\ pc' = "stopped" /\ ~Due
    BY <1>4 DEF FrameEnd, Punctual
  <2>2. timestamp <= PpuEvent /\ timestamp <= ppu.event /\ timestamp <= timestamp
    BY <1>1, <2>1 DEF Due, NextEvent, Earlier
  <2> QED
    BY <1>1, <1>2, <2>1, <2>2 DEF Punctual
<1>5. CASE Refresh \/ HBlank \/ HDMADone
  <2>1. PICK f \in {"refresh", "hdma", "hblank"}, b \in Nat :
          /\ ppu' = [ppu EXCEPT !.phase = f, !.began = b]
          /\ ppu.phase = "line" => f = "refresh"
          /\ f = "refresh" => ppu.phase = "line"
          /\ f = "hdma" => ppu.phase = "refresh"
    <3>1. ppu.began \in Nat /\ ppu = [ppu EXCEPT !.began = ppu.began]
      BY <1>1 DEF Ppu
    <3>2. \A f : [ppu EXCEPT !.phase = f] = [ppu EXCEPT !.phase = f, !.began = ppu.began]
      BY <1>1 DEF Ppu
    <3> QED
      BY <1>1, <1>5, <3>1, <3>2 DEF Refresh, HBlank, HDMADone
  <2>2. ppu'.phase = f
    BY <1>1, <2>1 DEF Ppu
  <2>3. PpuEvent' \in Nat /\ PpuEvent <= PpuEvent'
    <3>1. ppu.phase \in {"line", "refresh", "hdma", "hblank"}
      BY <1>1, LeadsAreInt
    <3>2. ppu.phase # "hblank"
      BY <1>5 DEF Refresh, HBlank, HDMADone
    <3> QED
      BY <1>1, <2>1, <2>2, <3>1, <3>2, LeadsAreInt DEF PpuEvent
  <2>4. timestamp' \in Nat /\ timestamp <= timestamp' /\ timer' = timer /\ pc' = "events"
    BY <1>1, <1>5, TimesAssumption DEF Refresh, HBlank, HDMADone, control, PpuEventDue
  <2> QED
    BY <2>1, <2>3, <2>4, PunctualLater DEF Punctual
<1>6. CASE Reset
  <2>1. ppu'.IRQThing = FALSE
    BY <1>1, <1>6 DEF Reset, Ppu
  <2>2. timer'.steady = FALSE /\ pc' = "stopped"
    BY <1>1, <1>6 DEF Reset, Timer
  <2> QED
    BY <2>1, <2>2 DEF Punctual, Matched, Told
<1> QED
  BY <1>3, <1>4, <1>5, <1>6

LEMMA PunctualLines ==
  ASSUME IInv, Punctual, LineStart
  PROVE  Punctual'
<1> DEFINE p == [ppu EXCEPT !.scanline = (@ + 1) % Lines, !.phase = "line"]
           q == UpdatedPpu(p, 0)
           fl == q.NMIFlag
           r == [asked |-> 0, steady |-> TRUE, clear |-> ~ppu.IRQFlag]
           ts == timestamp'
           pe == PpuEvent'
<1>1. /\ TypeOK /\ Control /\ timestamp \in Nat /\ ppu \in Ppu /\ ppu.event \in Nat /\ Matched(ppu)
  BY Unfolded DEF Control, Ppu, Punctual
<1>2. PICK b \in BOOLEAN : ppu' = [q EXCEPT !.NMIFlag = b]
  <2> DEFINE g(x) == x.scanline = Lines - 1 \/ (q.NMIFlag /\ ~(x.scanline = 0))
  <2>1. ppu' = [q EXCEPT !.NMIFlag = g(p)]
    BY DEF LineStart
  <2>2. g(p) \in BOOLEAN
    OBVIOUS
  <2> HIDE DEF g, p, q
  <2> QED
    BY <2>1, <2>2
<1>3. /\ timer' = Counted(r, p, 0) /\ pc' = "events" /\ ts = timestamp - LineLen
      /\ LineLen <= timestamp /\ LineLen <= ppu.event
  BY DEF LineStart, PpuEventDue, PpuEvent
<1>4. ts \in Nat
  BY <1>1, <1>3, LeadsAreInt
<1>5. (ppu.scanline + 1) % Lines \in 0 .. Lines - 1 /\ (ppu.scanline + 1) % Lines # ppu.scanline
  <2>1. \A s, l \in Nat : s < l => s % l = s
    OBVIOUS
  <2>2. \A l \in Nat \ {0} : l % l = 0
    OBVIOUS
  <2>3. ppu.scanline \in Nat /\ Lines \in Nat \ {0} /\ ppu.scanline <= Lines - 1 /\ Lines > 1
    BY <1>1, LeadsAreInt
  <2>4. CASE ppu.scanline = Lines - 1
    BY <2>2, <2>3, <2>4
  <2>5. CASE ppu.scanline # Lines - 1
    <3>1. ppu.scanline + 1 \in Nat /\ ppu.scanline + 1 < Lines
      BY <2>3, <2>5
    <3> QED
      BY <2>1, <2>3, <2>5, <3>1
  <2> QED
    BY <2>4, <2>5
<1>6. /\ p \in Ppu /\ p.NMITIMEEN = ppu.NMITIMEEN /\ p.VTime = ppu.VTime /\ p.scanline # ppu.scanline
      /\ p.IRQThing = ppu.IRQThing /\ p.IRQFlag = ppu.IRQFlag /\ p.phase = "line"
  BY <1>1, <1>5 DEF Ppu
<1>7. r \in Timer /\ r.asked = 0 /\ (r.clear <=> ~ppu.IRQFlag)
  <2>1. r \in Timer
    BY DEF Timer
  <2>2. r.asked = 0 /\ r.clear = ~ppu.IRQFlag
    OBVIOUS
  <2> QED
    BY <2>1, <2>2
<1> HIDE DEF p, r
<1>8. ASSUME Armed(p), p.IRQThing PROVE FALSE
  <2>1. Armed(ppu) /\ "h" \notin ppu.NMITIMEEN
    BY <1>1, <1>3, <1>6, <1>8, LeadsAreInt DEF Matched
  <2>2. "v" \in ppu.NMITIMEEN /\ ppu.scanline = ppu.VTime
    BY <2>1 DEF Armed, InLine
  <2> QED
    BY <1>6, <1>8, <2>2 DEF Armed, InLine
<1>9. q \in Ppu /\ Matched(q)
  BY <1>6, UpdateMatches
<1>10. q.phase = "line"
  BY <1>6, <1>7, UpdatedFields
<1> HIDE DEF q
<1>11. /\ ppu' \in Ppu /\ ppu'.NMITIMEEN = q.NMITIMEEN /\ ppu'.HTime = q.HTime /\ ppu'.VTime = q.VTime
       /\ ppu'.scanline = q.scanline /\ ppu'.IRQThing = q.IRQThing /\ ppu'.event = q.event
       /\ ppu'.IRQFlag = q.IRQFlag /\ ppu'.phase = "line"
  BY <1>2, <1>9, <1>10 DEF Ppu
<1>12. pe \in Nat
  BY <1>1, <1>11, LeadsAreInt DEF PpuEvent
<1> HIDE DEF ts, pe
<1>13. Told(q, timer', ts, pe)
  BY <1>3, <1>4, <1>6, <1>7, <1>8, <1>12, LineTells DEF q
<1>14. timer' \in Timer
  BY <1>3, <1>7, CountedTyped
<1> DEFINE w == ppu'
           z == timer'
<1>15. /\ w \in Ppu /\ w.NMITIMEEN = q.NMITIMEEN /\ w.HTime = q.HTime /\ w.VTime = q.VTime
       /\ w.scanline = q.scanline /\ w.IRQThing = q.IRQThing /\ w.event = q.event
       /\ w.IRQFlag = q.IRQFlag /\ z \in Timer /\ Told(q, z, ts, pe)
  BY <1>11, <1>13, <1>14
<1> HIDE DEF w, z
<1>16. ts <= ts /\ pe <= pe
  BY <1>4, <1>12
<1>17. Told(w, z, ts, pe)
  BY <1>4, <1>9, <1>12, <1>15, <1>16, ToldStays
<1>18. (Armed(w) <=> Armed(q)) /\ ("h" \in w.NMITIMEEN <=> "h" \in q.NMITIMEEN)
  BY <1>9, <1>15, SameSettings
<1>19. Matched(w)
  BY <1>9, <1>15, <1>18 DEF Matched
<1> QED
  BY <1>3, <1>17, <1>19 DEF Punctual, w, z, ts, pe

LEMMA PunctualInitially == Init => Punctual
<1> SUFFICES ASSUME Init PROVE Punctual
  OBVIOUS
<1>1. ppu.IRQThing = FALSE /\ timer.steady = FALSE /\ pc = "stopped"
  BY DEF Init
<1> QED
  BY <1>1 DEF Punctual, Matched, Told

LEMMA PunctualInductive == IInv /\ Sleep /\ Punctual /\ [Next]_vars => Punctual'
<1> SUFFICES ASSUME IInv, Sleep, Punctual, [Next]_vars PROVE Punctual'
  OBVIOUS
<1>1. CASE UNCHANGED vars
  BY <1>1 DEF vars, Punctual, Matched, Told, Armed, InLine, MatchTime, Due, NextEvent, PpuEvent
<1>2. CASE StartFrame \/ FrameEnd \/ Reset
  BY <1>2, PunctualCpu, PunctualEvents
<1>3. CASE CpuStep
  BY <1>3, PunctualAccesses, PunctualCpu DEF CpuStep
<1>4. CASE EventStep
  BY <1>4, PunctualAccesses, PunctualCpu, PunctualEvents, PunctualLines DEF EventStep
<1>5. CASE Aborted
  BY <1>1, <1>5 DEF Aborted
<1> QED
  BY <1>1, <1>2, <1>3, <1>4, <1>5 DEF Next

LEMMA PunctualInvariant == Spec => [](IInv /\ Sleep /\ Punctual)
BY SleepInvariant, PunctualInitially, PunctualInductive, PTL DEF Spec

----------------------------------------------------------------------------
(* The theorems.                                                           *)

\* CPU, PPU and events keep their types, for a line of any length.
THEOREM TypeCorrect == Spec => []TypeOK
<1>1. IInv => TypeOK
  BY DEF IInv
<1> QED
  BY <1>1, Invariant, PTL

\* cpu.h's lines are what ppu_common.inc's registers say, whichever of
\* instruction, DMA, HDMA, event or reset changed them.
THEOREM LinesAlwaysAgree == Spec => []LinesAgree
<1>1. IInv => LinesAgree
  BY DEF IInv
<1> QED
  BY <1>1, Invariant, PTL

\* CPU_SetNMI's latch holds exactly the edges not served, and the CPU's loop
\* serves one within two turns.
THEOREM NmiIsServed == Spec => []NmiServed
<1>1. IInv => NmiServed
  BY DEF IInv, NmiServed
<1> QED
  BY <1>1, Invariant, PTL

\* The CPU's loop leaves WAI within a frame of NMI's being enabled: VBlank's
\* NMI is an edge, PPU_Update and CPU_Run do not lose it, and no line's events
\* reach over the next.
THEOREM WaiEnds == Spec => []Awakes
<1>1. IInv /\ Sleep => Awakes
  <2> SUFFICES ASSUME IInv, Sleep PROVE Awakes
    OBVIOUS
  <2>1. TypeOK /\ asleep <= ppu.scanline + 1
    BY Unfolded DEF Sleep, Asleep
  <2> QED
    BY <2>1, LeadsAreInt DEF Awakes
<1> QED
  BY <1>1, SleepInvariant, PTL

\* In a line that begins with TIMEUP clear and whose settings stay,
\* PPU_UpdateLineIRQ asks for the match once, neither before it nor after the
\* CPU's next look at the events, whatever else looks at the timer meanwhile.
THEOREM TimerIsOnTime == Spec => []TimerOnTime
<1>1. IInv /\ Punctual => TimerOnTime
  <2> SUFFICES ASSUME IInv, Punctual, timer.steady, timer.clear
               PROVE  /\ timer.asked = 1 => Armed(ppu) /\ MatchTime(ppu) <= timestamp
                      /\ timer.asked # 2
                      /\ pc = "fetch" /\ ~Due /\ Armed(ppu) /\ MatchTime(ppu) <= timestamp => timer.asked = 1
    BY DEF TimerOnTime
  <2>1. /\ TypeOK /\ ppu \in Ppu /\ Told(ppu, timer, timestamp, PpuEvent) /\ timestamp \in Nat /\ ppu.event \in Nat
        /\ PpuEvent \in Nat
    BY Unfolded, NextEventTyped DEF Punctual, Ppu, Control
  <2>2. MatchTime(ppu) \in Nat /\ Dot \in Nat /\ ("h" \notin ppu.NMITIMEEN => MatchTime(ppu) = 0)
    BY <2>1, TimesAreNat DEF MatchTime, Ppu
  <2>3. timer.asked = 1 => Armed(ppu) /\ MatchTime(ppu) <= timestamp
    BY <2>1, <2>2 DEF Told
  <2>4. timer.asked # 2
    BY <2>1 DEF Told
  <2>5. ~Due => timestamp < ppu.event
    BY <2>1 DEF Due, NextEvent, Earlier
  <2>6. ~Due /\ Armed(ppu) /\ MatchTime(ppu) <= timestamp => timer.asked = 1
    BY <2>1, <2>2, <2>5 DEF Told
  <2> QED
    BY <2>3, <2>4, <2>6
<1> QED
  BY <1>1, PunctualInvariant, PTL
============================================================================
