-------------------------------- MODULE Sa1 --------------------------------
(***************************************************************************)
(* The SA-1 processor and the main CPU (cart/sa1.cpp): messages and        *)
(* interrupts both ways, the reset line the main CPU holds, the DMA whose  *)
(* end interrupts the SA-1, and CPU_Run, which an access of the main CPU   *)
(* or an event calls to run the SA-1 up to the present (Update).           *)
(*                                                                         *)
(* Times are relative to SA1CPUBoundTS, the time of the last Update, so    *)
(* AdjustTS leaves them.  What the SA-1 executes is left open; how its     *)
(* core samples its lines is in Interrupts, whose code it shares.          *)
(***************************************************************************)
EXTENDS Integers, FiniteSets

CONSTANTS MaxCost,     \* most an instruction takes
          MaxLength,   \* most a DMA takes
          Slice        \* most time between two Updates (256)

VARIABLE sa

Never  == 1000                          \* DMAFinishTS when no DMA runs
Earliest(a, b) == IF a < b THEN a ELSE b

PowerOn ==
  [phase |-> "main", lead |-> 0, next |-> 0, finish |-> Never,
   held |-> TRUE, halted |-> "dma", fresh |-> TRUE,
   enable |-> {}, pending |-> {}, irqLine |-> FALSE, nmiLine |-> FALSE, edge |-> FALSE,
   mainEnable |-> {}, mainPending |-> {}, mainLine |-> FALSE,
   stuck |-> FALSE, sent |-> FALSE]

\* The lines of the two CPUs.
CPU_SetIRQ(s)  == [s EXCEPT !.irqLine = s.pending \ {"nmi"} # {}]
CPU_SetNMI(s)  == LET up == "nmi" \in s.pending
                  IN  [s EXCEPT !.edge = @ \/ (up /\ ~s.nmiLine), !.nmiLine = up,
                                !.stuck = @ /\ up]
Main_SetIRQ(s) == [s EXCEPT !.mainLine = s.mainPending # {}]

Raise(s, bit)     == [s EXCEPT !.pending = @ \cup ({bit} \cap s.enable)]
MainRaise(s, bit) == Main_SetIRQ([s EXCEPT !.mainPending = @ \cup ({bit} \cap s.mainEnable)])

\* WriteSharedDMAReg: the last byte of the destination starts the transfer, which
\* is copied at once and ends later, or a character conversion.
RunNormal(s, from, length) == [s EXCEPT !.finish = from + length]
CharConv(s)                == MainRaise(s, "dma")

----------------------------------------------------------------------------
\* Update and EventHandler: time has passed for the main CPU.
Update ==
  /\ sa.phase = "main"
  /\ \E d \in 1 .. Slice :
       LET finish == IF sa.finish = Never THEN Never ELSE sa.finish - d
       IN  sa' = [sa EXCEPT !.phase = "loop", !.lead = @ - d, !.finish = finish,
                            !.next = Earliest(finish, 0), !.sent = FALSE]

\* The head of CPU_Run's loop: a halted SA-1 skips to the next event.
Skip == [sa EXCEPT !.phase = "run", !.lead = IF @ < sa.next THEN sa.next ELSE @]
Head ==
  /\ sa.phase = "loop"
  /\ sa' = CASE sa.halted = "dma" -> [sa EXCEPT !.phase = "run", !.lead = sa.next]
             [] sa.halted = "wai" /\ (sa.edge \/ sa.irqLine) ->
                  [sa EXCEPT !.phase = "run", !.halted = "not", !.lead = @ + 1]
             [] sa.halted = "not" -> [sa EXCEPT !.phase = "run"]
             [] OTHER -> Skip

\* Instructions, while the next event is ahead; nothing in the inner loop looks at
\* halted, so WAI and STP bring the time forward themselves.
Runs      == sa.phase = "run" /\ sa.lead < sa.next
Takes(s)  == \E cost \in 1 .. MaxCost : sa' = [s EXCEPT !.lead = @ + cost]
Fetched   == Runs /\ ~sa.fresh

TakeReset == Runs /\ sa.fresh /\ Takes([sa EXCEPT !.fresh = FALSE])
Ordinary  == Fetched /\ Takes(sa)
TakeNMI   == Fetched /\ sa.edge /\ Takes([sa EXCEPT !.edge = FALSE])
WAI == /\ Fetched /\ ~(sa.edge \/ sa.irqLine)
       /\ sa' = [sa EXCEPT !.halted = "wai", !.lead = sa.next]
STP == Fetched /\ sa' = [sa EXCEPT !.halted = "stp", !.lead = sa.next]

\* $2209: a message, with an interrupt where the main CPU enabled it.
WriteMainControl == Fetched /\ Takes(MainRaise(sa, "irq"))
\* $220A and $220B.
WriteEnable == Fetched /\ \E e \in SUBSET {"irq", "dma", "nmi"} : Takes([sa EXCEPT !.enable = e])
\* Fault: a cleared interrupt's line stays.
WriteClearSilent == Fetched /\ \E c \in SUBSET sa.pending :
                      Takes(CPU_SetNMI([sa EXCEPT !.pending = @ \ c]))

WriteClear  == Fetched /\ \E c \in SUBSET sa.pending :
                 Takes(CPU_SetIRQ(CPU_SetNMI([sa EXCEPT !.pending = @ \ c])))
\* $2235..$2237 written by the SA-1: next is not brought forward to its end.
StartDMA == /\ Fetched
            /\ \/ \E n \in 0 .. MaxLength : Takes(RunNormal(sa, sa.lead, n))
               \/ Takes(CharConv(sa))

\* CPU_Misc::EventHandler: the DMA's end, and the end of this Update.
EventHandler ==
  /\ sa.phase = "run" /\ sa.lead >= sa.next
  /\ LET ended  == sa.lead >= sa.finish
         s      == IF ended THEN CPU_SetIRQ([Raise(sa, "dma") EXCEPT !.finish = Never]) ELSE sa
     IN  sa' = [s EXCEPT !.next = IF sa.lead >= 0 THEN 0 ELSE Earliest(s.finish, 0),
                         !.phase = IF sa.lead >= 0 THEN "main" ELSE "loop"]

----------------------------------------------------------------------------
\* Accesses of the main CPU, which has just called Update.
Access == sa.phase = "main"

\* $2200: a message with an NMI or an interrupt, and the reset line.  Its falling
\* edge resets the core, which drops an NMI edge not taken yet.
WriteControl ==
  /\ Access
  /\ \E v \in SUBSET {"nmi", "irq", "reset"} :
       LET nmi == IF "nmi" \in v \cap sa.enable THEN CPU_SetNMI(Raise(sa, "nmi")) ELSE sa
           irq == IF "irq" \in v \cap sa.enable THEN CPU_SetIRQ(Raise(nmi, "irq")) ELSE nmi
           s   == [irq EXCEPT !.held = "reset" \in v,
                              !.sent = "nmi" \in (v \cap sa.enable) \ sa.pending]
       IN  sa' = CASE sa.held /\ "reset" \notin v ->
                       CPU_SetIRQ([s EXCEPT !.halted = "not", !.edge = FALSE, !.fresh = TRUE])
                   [] "reset" \in v -> [s EXCEPT !.halted = "dma"]
                   [] OTHER -> s

\* $2201 and $2202.
WriteMainEnable == Access /\ \E e \in SUBSET {"irq", "dma"} :
                     sa' = [sa EXCEPT !.mainEnable = e, !.sent = FALSE]
WriteMainClear  == Access /\ \E c \in SUBSET {"irq", "dma"} :
                     sa' = Main_SetIRQ([sa EXCEPT !.mainPending = @ \ c, !.sent = FALSE])
MainStartsDMA   == /\ Access
                   /\ \/ \E n \in 0 .. MaxLength : sa' = RunNormal([sa EXCEPT !.sent = FALSE], 0, n)
                      \/ sa' = CharConv([sa EXCEPT !.sent = FALSE])

\* Reset without power-up leaves the core's lines and its pending edge as they are.
Reset == Access /\ sa' = [PowerOn EXCEPT !.lead = sa.lead, !.edge = sa.edge, !.fresh = sa.fresh,
                                         !.irqLine = sa.irqLine, !.nmiLine = sa.nmiLine,
                                         !.stuck = sa.nmiLine]

CPU_Run == \/ Head \/ TakeReset \/ Ordinary \/ TakeNMI \/ WAI \/ STP \/ WriteMainControl
           \/ WriteEnable \/ WriteClear \/ StartDMA \/ EventHandler
MainCPU == Update \/ WriteControl \/ WriteMainEnable \/ WriteMainClear \/ MainStartsDMA \/ Reset
Init == sa = PowerOn
Next == CPU_Run \/ MainCPU
Spec == Init /\ [][Next]_sa

----------------------------------------------------------------------------
\* Each CPU's interrupt line is up exactly while one of its interrupts is
\* pending, whoever set, cleared or reset them; while the reset is held the
\* SA-1's line may be an old one, and its release makes it right.
LinesAgree == /\ sa.mainLine <=> sa.mainPending # {}
              /\ ~sa.held => (sa.irqLine <=> sa.pending \ {"nmi"} # {})
              /\ "nmi" \in sa.pending => sa.nmiLine

\* The SA-1 executes nothing while its reset is held, and its reset first after.
HeldStill == sa.held <=> sa.halted = "dma"

\* A DMA's end is never passed unnoticed: when the main CPU goes on, a transfer
\* still counted as running has its end ahead.
EndNoticed == sa.phase = "main" => sa.finish >= 0

\* An NMI sent to a running SA-1 that has none pending reaches it, unless a
\* reset of the console left the core's NMI line up (sa1.cpp:1103).
NmiReaches == sa.sent /\ ~sa.held /\ ~sa.fresh /\ ~sa.stuck => sa.edge

MessagesArrive == LinesAgree /\ HeldStill /\ EndNoticed /\ NmiReaches
============================================================================
