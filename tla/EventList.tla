----------------------------- MODULE EventList -----------------------------
(***************************************************************************)
(* The machine's scheduler (snes.cpp: events[], SNES_SetEventNT,           *)
(* ForceEventUpdates, CPU_Misc::EventHandler, RebaseTS, EmulateReal; the   *)
(* loops of cpu_loop_body.inc).                                            *)
(*                                                                         *)
(* One CPU clock runs the machine.  Every other device has one entry in a  *)
(* doubly linked list sorted by the time at which it wants to be called;   *)
(* the CPU executes instructions until next_event_ts and then calls the    *)
(* entries that are due.  A handler returns the next time, may put another *)
(* device's entry somewhere else, may take CPU time (HDMA, DRAM refresh)   *)
(* and may end the frame; register accesses move entries from inside an    *)
(* instruction, and may even run the handlers there.                       *)
(***************************************************************************)
EXTENDS Integers

CONSTANTS
  Idle,        \* the devices whose handler always answers "never"
  MaxTS,       \* SNES_EVENT_MAXTS: never
  Far,         \* SYNLAST's event_time (0xFFFFFFFF)
  MaxStep,     \* bound on what a bus access, a handler or a request adds to the time
  FrameTime    \* bound: a PPU event from here on ends the frame

\* SNES_EVENT_*
SYNFIRST == 0
PPU == 1
PPU_LINEIRQ == 2
DMA_DUMMY == 3
CART == 4
MSU1 == 5
SYNLAST == 6
Events == SYNFIRST + 1 .. SYNLAST - 1
Nodes == SYNFIRST .. SYNLAST
NULL == -1

Horizon == FrameTime + 2 * MaxStep      \* bound on the clock

ASSUME TimesAssumption ==
  /\ {MaxTS, Far, MaxStep, FrameTime} \subseteq Nat \ {0}
  /\ Horizon + MaxStep < MaxTS /\ MaxTS < Far
ASSUME IdleAssumption == DMA_DUMMY \in Idle /\ Idle \subseteq Events \ {PPU, PPU_LINEIRQ}

VARIABLES
  event_time, prev, next,          \* events[]
  next_event_ts, running_mask, timestamp,   \* CPUM
  pc, ret,                         \* place in the code; where EventHandler or ForceEventUpdates goes back to
  e, eprev                         \* EventHandler's e and prev; ForceEventUpdates' i is e

list == <<event_time, prev, next>>
cpum == <<next_event_ts, running_mask, timestamp>>
vars == <<list, cpum, pc, ret, e, eprev>>

\* CPUM.next_event_ts & CPUM.running_mask (all ones, or zero)
Mask(t, m) == IF m THEN t ELSE 0

InitialTime == [n \in Nodes |-> IF n = SYNFIRST THEN 0 ELSE IF n = SYNLAST THEN Far ELSE MaxTS]
InitialPrev == [n \in Nodes |-> IF n > SYNFIRST THEN n - 1 ELSE NULL]
InitialNext == [n \in Nodes |-> IF n < SYNLAST THEN n + 1 ELSE NULL]

\* InitEvents, and on with ForceEventUpdates(0).
Init ==
  /\ event_time = InitialTime /\ prev = InitialPrev /\ next = InitialNext
  /\ next_event_ts = 0 /\ running_mask = FALSE /\ timestamp = 0
  /\ pc = "force" /\ ret = "stopped" /\ e = SYNFIRST + 1 /\ eprev = SYNFIRST

\* The locals when no loop uses them.
LoopOver == ret' = "none" /\ e' = SYNFIRST /\ eprev' = SYNFIRST

----------------------------------------------------------------------------
(* SNES_SetEventNT.                                                        *)

\* Where the two walks of SNES_SetEventNT stop: going back from an entry that
\* moves forward in time to the first that is not later than t, and the other
\* way to the first not earlier.  In a sorted list that is the place where
\* the times pass t.
LastNotAfter(t) ==
  CHOOSE f \in Nodes \ {SYNLAST} : event_time[f] <= t /\ t < event_time[next[f]]
FirstNotBefore(t) ==
  CHOOSE f \in Nodes \ {SYNFIRST} : event_time[prev[f]] < t /\ t <= event_time[f]

\* The links with n taken out.
NextWithout(n) == [next EXCEPT ![prev[n]] = next[n]]
PrevWithout(n) == [prev EXCEPT ![next[n]] = prev[n]]

\* Fault: the entry after n keeps its old back link.
InsertForwardOnly(n, a, b) ==
  /\ prev' = [PrevWithout(n) EXCEPT ![n] = a]
  /\ next' = [NextWithout(n) EXCEPT ![n] = b, ![a] = n]

\* ... and with n put in between a and b.
Insert(n, a, b) ==
  /\ prev' = [PrevWithout(n) EXCEPT ![n] = a, ![b] = n]
  /\ next' = [NextWithout(n) EXCEPT ![n] = b, ![a] = n]

Move(n, t) ==
  /\ event_time' = [event_time EXCEPT ![n] = t]
  /\ \/ /\ t < event_time[n]
        /\ LET fe == LastNotAfter(t) IN Insert(n, fe, NextWithout(n)[fe])
     \/ /\ t > event_time[n]
        /\ LET fe == FirstNotBefore(t) IN Insert(n, PrevWithout(n)[fe], fe)
     \/ t = event_time[n] /\ UNCHANGED <<prev, next>>

\* Fault: next_event_ts is left for the end of the frame to refresh.
SetEventNTUncached(n, t) == Move(n, t) /\ UNCHANGED next_event_ts

SetEventNT(n, t) ==
  /\ Move(n, t)
  /\ next_event_ts' = Mask(event_time'[next'[SYNFIRST]], running_mask')

----------------------------------------------------------------------------
(* The CPU: "outer" and "inner" are the two loops, "instr" is inside an    *)
(* instruction.                                                            *)

\* CPU_Run, up to its first loop.
RunFrame ==
  /\ pc = "stopped"
  /\ running_mask' = TRUE /\ pc' = "outer"
  /\ UNCHANGED <<list, next_event_ts, timestamp, ret, e, eprev>>

\* A halted CPU does DMA, wakes up, or skips to the next event; else the time
\* stays.
Enter ==
  /\ pc = "outer" /\ running_mask
  /\ timestamp' \in timestamp .. next_event_ts + MaxStep
  /\ timestamp' <= Horizon
  /\ pc' = "inner"
  /\ UNCHANGED <<list, next_event_ts, running_mask, ret, e, eprev>>

\* The opcode's fetch, or a further bus access.
BusAccess == timestamp' \in timestamp + 1 .. timestamp + MaxStep /\ timestamp' <= Horizon
Instruction ==
  /\ pc = "inner" /\ timestamp < next_event_ts
  /\ pc' = "instr" /\ BusAccess
  /\ UNCHANGED <<list, next_event_ts, running_mask, ret, e, eprev>>
Cycles ==
  /\ pc = "instr" /\ BusAccess
  /\ UNCHANGED <<list, next_event_ts, running_mask, pc, ret, e, eprev>>
EndInstruction ==
  /\ pc = "instr"
  /\ pc' = "inner"
  /\ UNCHANGED <<list, cpum, ret, e, eprev>>

\* The writes that move an entry: MDMAEN wants DMA started at once, NMITIMEN,
\* HTIME and VTIME place the line IRQ, MSU1's seek and track set a deadline.
Requests(n) ==
  CASE n = DMA_DUMMY -> {timestamp}
    [] n = PPU_LINEIRQ -> (timestamp + 1 .. timestamp + MaxStep) \cup {MaxTS}
    [] n = MSU1 /\ n \notin Idle -> {timestamp + MaxStep, MaxTS}
    [] OTHER -> {}
RegisterWrite(n, t) ==
  /\ pc = "instr" /\ t \in Requests(n)
  /\ UNCHANGED <<running_mask, timestamp, pc, ret, e, eprev>>
  /\ SetEventNT(n, t)

\* EventHandler, at the end of the inner loop, or from NMITIMEN or RDNMI when
\* the PPU's entry is overdue.
CallEventHandler(from, to) ==
  /\ pc = from
  /\ pc' = "dispatch" /\ ret' = to
  /\ e' = next[SYNFIRST]
  /\ UNCHANGED <<list, cpum, eprev>>
LoopEnd == timestamp >= next_event_ts /\ CallEventHandler("inner", "outer")
Kludge == timestamp >= event_time[PPU] /\ CallEventHandler("instr", "instr")

\* The while test.
Due ==
  /\ pc = "dispatch" /\ timestamp >= event_time[e]
  /\ eprev' = prev[e]
  /\ pc' = "handler"
  /\ UNCHANGED <<list, cpum, ret, e>>
NotDue ==
  /\ pc = "dispatch" /\ timestamp < event_time[e]
  /\ pc' = ret /\ LoopOver
  /\ UNCHANGED <<list, cpum>>

\* What a handler called for time t may return: the PPU's next phase, where
\* the line IRQ falls, the chip's next slice, MSU1's deadline.
Answers(n, t) ==
  CASE n \in Idle       -> {MaxTS}
    [] n = PPU          -> t + 1 .. t + MaxStep
    [] n = PPU_LINEIRQ  -> (t + 1 .. t + MaxStep) \cup {MaxTS}
    [] n = CART         -> {t + MaxStep}
    [] OTHER            -> {t + MaxStep, MaxTS}

\* PPU_Update may place the line IRQ's entry, take CPU time and end the frame
\* before it returns.
PPUHandler(irq, stop) ==
  /\ pc = "handler" /\ e = PPU
  /\ event_time[e] >= FrameTime => stop
  /\ irq \in Answers(PPU_LINEIRQ, event_time[e])
  /\ running_mask' = (running_mask /\ ~stop)
  /\ timestamp' \in timestamp .. timestamp + MaxStep /\ timestamp' <= Horizon
  /\ pc' = "return"
  /\ UNCHANGED <<ret, e, eprev>>
  /\ SetEventNT(PPU_LINEIRQ, irq)
OtherHandler ==
  /\ pc = "handler" /\ e # PPU
  /\ pc' = "return"
  /\ UNCHANGED <<list, cpum, ret, e, eprev>>

\* Fault: the entry that followed e before its handler ran is next.
ReturnToOldNext(nt) ==
  /\ pc = "return"
  /\ nt \in Answers(e, event_time[e])
  /\ pc' = "dispatch"
  /\ UNCHANGED <<running_mask, timestamp, ret, eprev>>
  /\ SetEventNT(e, nt)
  /\ e' = next[e]

\* Fault: the entry that follows e where it now is comes next.
ReturnPastMoved(nt) ==
  /\ pc = "return"
  /\ nt \in Answers(e, event_time[e])
  /\ pc' = "dispatch"
  /\ UNCHANGED <<running_mask, timestamp, ret, eprev>>
  /\ SetEventNT(e, nt)
  /\ e' = next'[e]

\* The handler has answered; the next entry is what now follows prev.
Return(nt) ==
  /\ pc = "return"
  /\ nt \in Answers(e, event_time[e])
  /\ pc' = "dispatch"
  /\ UNCHANGED <<running_mask, timestamp, ret, eprev>>
  /\ SetEventNT(e, nt)
  /\ e' = next'[eprev]

\* CPU_Run returns; EmulateReal goes on to ForceEventUpdates(timestamp).
EndFrame ==
  /\ pc = "outer" /\ ~running_mask
  /\ pc' = "force" /\ ret' = "rebase" /\ e' = SYNFIRST + 1
  /\ UNCHANGED <<list, cpum, eprev>>

\* One round of ForceEventUpdates' loop, and what follows the loop.
ForceUpdate(nt) ==
  /\ pc = "force" /\ e < SYNLAST
  /\ nt \in Answers(e, timestamp)
  /\ e' = e + 1
  /\ UNCHANGED <<running_mask, timestamp, pc, ret, eprev>>
  /\ SetEventNT(e, nt)
Forced ==
  /\ pc = "force" /\ e = SYNLAST
  /\ next_event_ts' = event_time[next[SYNFIRST]]
  /\ pc' = ret /\ LoopOver
  /\ UNCHANGED <<list, running_mask, timestamp>>

\* RebaseTS: the frame's time starts from 0 again.
RebaseTS ==
  /\ pc = "rebase"
  /\ event_time' = [n \in Nodes |->
       IF n \in Events THEN event_time[n] - timestamp ELSE event_time[n]]
  /\ next_event_ts' = event_time'[next[SYNFIRST]]
  /\ timestamp' = 0
  /\ pc' = "stopped"
  /\ UNCHANGED <<prev, next, running_mask, ret, e, eprev>>

\* Between frames: a state is loaded, or the machine is reset.
LoadState ==
  /\ pc = "stopped"
  /\ pc' = "force" /\ ret' = "stopped" /\ e' = SYNFIRST + 1
  /\ UNCHANGED <<list, cpum, eprev>>
Reset ==
  /\ pc = "stopped"
  /\ event_time' = InitialTime /\ prev' = InitialPrev /\ next' = InitialNext
  /\ pc' = "force" /\ ret' = "stopped" /\ e' = SYNFIRST + 1
  /\ UNCHANGED <<cpum, eprev>>

Next ==
  \/ RunFrame \/ Enter \/ Instruction \/ Cycles \/ EndInstruction
  \/ LoopEnd \/ Kludge \/ Due \/ NotDue \/ OtherHandler
  \/ EndFrame \/ Forced \/ RebaseTS \/ LoadState \/ Reset
  \/ \E n \in Events : \E t \in Requests(n) : RegisterWrite(n, t)
  \/ \E irq \in Answers(PPU_LINEIRQ, event_time[e]), stop \in BOOLEAN : PPUHandler(irq, stop)
  \/ \E nt \in Answers(e, event_time[e]) : Return(nt)
  \/ \E nt \in Answers(e, timestamp) : ForceUpdate(nt)

Spec == Init /\ [][Next]_vars

----------------------------------------------------------------------------
TypeOK ==
  /\ event_time \in [Nodes -> Nat]
  /\ prev \in [Nodes -> Nodes \cup {NULL}] /\ next \in [Nodes -> Nodes \cup {NULL}]
  /\ next_event_ts \in Nat /\ running_mask \in BOOLEAN /\ timestamp \in 0 .. Horizon
  /\ pc \in {"stopped", "outer", "inner", "instr", "dispatch", "handler", "return",
             "force", "rebase"}
  /\ ret \in {"none", "outer", "instr", "rebase", "stopped"}
  /\ e \in Nodes /\ eprev \in Nodes

\* The links stay those of one list from SYNFIRST to SYNLAST, in both
\* directions, in order of time and with no device dropped from it, however
\* entries are moved.
Linked ==
  /\ \A n \in Nodes \ {SYNLAST} : next[n] \in Nodes \ {SYNFIRST} /\ prev[next[n]] = n
  /\ \A n \in Nodes \ {SYNFIRST} : prev[n] \in Nodes \ {SYNLAST} /\ next[prev[n]] = n
Sorted == \A n \in Nodes \ {SYNLAST} : event_time[n] <= event_time[next[n]]
AllReached ==
  \A S \in SUBSET Nodes :
    SYNFIRST \in S /\ (\A n \in S \ {SYNLAST} : next[n] \in S) => S = Nodes
ListSound == Linked /\ Sorted /\ AllReached

\* EventHandler never passes over an entry that became due, or due earlier,
\* while it was running: what it calls is the earliest of all.
EarliestFirst ==
  pc = "handler" => \A n \in Events : event_time[e] <= event_time[n]

\* When EventHandler has returned to the CPU's loop nothing is overdue, and
\* nothing is when RebaseTS sets the clock back (which it asserts).
NoneOverdue ==
  pc \in {"outer", "force", "rebase", "stopped"} =>
    \A n \in Events : event_time[n] > timestamp

\* An instruction starts only while the frame runs and before every event:
\* the cached next_event_ts is never stale, though the list changes under it
\* from inside instructions and handlers.
StartsBeforeEvents ==
  [][pc = "inner" /\ pc' = "instr" =>
       running_mask /\ \A n \in Events : timestamp < event_time[n]]_vars
============================================================================
