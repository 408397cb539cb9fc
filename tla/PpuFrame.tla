------------------------------ MODULE PpuFrame ------------------------------
(***************************************************************************)
(* The course of a video frame: Emulate and EmulateReal (snes.cpp), the     *)
(* line machine PPU_Update (ppu_common.inc), and what the render thread     *)
(* does with the commands it gets from it (ppu_mtrender.cpp,                *)
(* ppu_render_common.inc).                                                  *)
(*                                                                         *)
(* PPU_Update goes through four phases a line and tells the renderer what   *)
(* to draw, unless the frame is skipped.  The renderer draws through es,    *)
(* which the emulation thread sets at the start of a frame, so that it must *)
(* have caught up before es is the next one's.  With speculative execution  *)
(* a frame is run ahead, unseen, the next one is shown, and the machine     *)
(* goes back to the state between them.                                     *)
(*                                                                         *)
(* The command queue is a FIFO here; RenderQueue has its implementation.    *)
(***************************************************************************)
EXTENDS Integers, Sequences

CONSTANTS
  Lines,            \* LinesPerFrame (262, 312)
  VBlankLine,       \* the first line of VBlank (0xE1)
  OverscanLine,     \* the same with overscan (0xF0)
  Offset,           \* the row of line 1 without overscan (8)
  MaxQueue,         \* bound on the commands under way (65535)
  MaxWrites         \* bound on register writes

ASSUME LinesAssumption ==
  /\ {Lines, VBlankLine, OverscanLine, Offset, MaxQueue, MaxWrites} \subseteq Nat
  /\ 1 < VBlankLine /\ VBlankLine + Offset <= OverscanLine /\ OverscanLine < Lines

VARIABLES
  config,           \* the game's and the user's settings: PAL, FrameBeginVBlank, SpecEx
  pc,               \* in Emulate: "idle", "ahead" and "shown" (EmulateReal), "sync"
  running,          \* running_mask
  es, skip,         \* the frame emulated, and whether its espec wants it skipped (1) or unseen (-1)
  ppu,              \* the PPU's state, as far as it is saved
  SkipFrame,        \* what is made of skip; not saved
  saved,            \* SpecExSS, or the user's save state
  queue,            \* commands to the renderer
  rEs, rReset,      \* renderer: its es, and the frame it last reset the line target for
  rOverscan, LineTarget,            \* its ScreenMode bit, and next row
  fetched,          \* the line of its frame whose sprites it has, or Old
  picture,          \* the surface's rows: the line drawn in each, Blank or Old
  elapsed, shown,   \* history: lines begun in the frame; whether it came to its line 1
  before,           \* history: the SkipFrame that the frame before left
  writes

emulation == <<config, pc, running, es, skip, ppu, SkipFrame, saved, elapsed, shown, before, writes>>
renderer  == <<rEs, rReset, rOverscan, LineTarget, fetched, picture>>
vars == <<emulation, renderer, queue>>

Old == -1
Blank == 0
Rows == 0 .. OverscanLine - 1
NextFrame(f) == (f + 1) % 3

PowerOn == [scanline |-> Lines - 1, LinePhase |-> 3, VBlank |-> FALSE, field |-> FALSE,
            InterlaceOnSample |-> FALSE, interlace |-> FALSE, overscan |-> FALSE]

\* A state saved in an earlier session, between two frames of an interlaced
\* picture with overscan.
Earlier(vblank) ==
  [scanline |-> IF vblank THEN OverscanLine ELSE 0, LinePhase |-> 0, VBlank |-> vblank, field |-> FALSE,
   InterlaceOnSample |-> TRUE, interlace |-> TRUE, overscan |-> TRUE]

Init ==
  /\ config \in [PAL : BOOLEAN, FrameBeginVBlank : BOOLEAN, SpecEx : BOOLEAN]
  /\ pc = "idle" /\ running = FALSE /\ es = 0 /\ skip = 0
  /\ ppu = PowerOn /\ SkipFrame = FALSE
  /\ saved \in {PowerOn, Earlier(config.FrameBeginVBlank)}
  /\ queue = <<>>
  /\ rEs = 0 /\ rReset = 2 /\ rOverscan = FALSE /\ LineTarget = 0 /\ fetched = Old
  /\ picture = [r \in Rows |-> Old]
  /\ elapsed = 0 /\ shown = FALSE /\ before = FALSE /\ writes = 0

----------------------------------------------------------------------------
(* Emulate.                                                                *)

\* EmulateReal up to CPU_Run: PPU_StartFrame sets the renderer's es, too.
StartFrame(where, s) ==
  /\ pc' = where /\ running' = TRUE
  /\ es' = NextFrame(es) /\ skip' = s
  /\ rEs' = NextFrame(es) /\ picture' = [r \in Rows |-> Old] /\ fetched' = Old
  /\ elapsed' = 0 /\ shown' = FALSE /\ before' = SkipFrame
  /\ UNCHANGED <<config, SkipFrame, queue, rReset, rOverscan, LineTarget, writes>>

Emulate(s) ==
  /\ pc = "idle"
  /\ IF config.SpecEx THEN StartFrame("ahead", -1) ELSE StartFrame("shown", s)
  /\ UNCHANGED <<ppu, saved>>

\* The end of the unseen frame; the state is saved and the shown one starts.
Ahead(s) ==
  /\ pc = "ahead" /\ ~running
  /\ saved' = ppu
  /\ StartFrame("shown", s)
  /\ UNCHANGED ppu

EndReal ==
  /\ pc = "shown" /\ ~running
  /\ pc' = "sync"
  /\ UNCHANGED <<config, running, es, skip, ppu, SkipFrame, saved, elapsed, shown, before, writes, queue, renderer>>

\* PPU_StateAction when loading, and PPU_Reset: the renderer's copy is set.
Becomes(state) ==
  /\ ppu' = state /\ rOverscan' = state.overscan
  /\ UNCHANGED <<config, running, es, skip, SkipFrame, elapsed, shown, before, writes,
                 queue, rEs, rReset, LineTarget, fetched, picture>>

\* Fault: the emulation thread does not wait for the renderer.
SyncAtOnce ==
  /\ pc = "sync"
  /\ pc' = "idle"
  /\ Becomes(IF config.SpecEx THEN saved ELSE ppu)
  /\ UNCHANGED saved

\* PPU_SyncMT, and MDFNSS_LoadSM after a speculated frame.
Sync ==
  /\ pc = "sync" /\ queue = <<>>
  /\ pc' = "idle"
  /\ Becomes(IF config.SpecEx THEN saved ELSE ppu)
  /\ UNCHANGED saved

\* Between two frames the user may save, load and reset.
SaveState == pc = "idle" /\ saved' = ppu /\ UNCHANGED <<config, pc, running, es, skip, ppu, SkipFrame, elapsed, shown, before, writes, queue, renderer>>
LoadState == pc = "idle" /\ Becomes(saved) /\ UNCHANGED <<pc, saved>>
Reset ==
  /\ pc = "idle"
  /\ Becomes([PowerOn EXCEPT !.InterlaceOnSample = ppu.InterlaceOnSample])
  /\ UNCHANGED <<pc, saved>>

----------------------------------------------------------------------------
(* PPU_Update, and the register that has to do with lines.                 *)

Command(kind, arg) == [kind |-> kind, frame |-> es, arg |-> arg]
Send(commands) == queue' = queue \o commands /\ Len(queue') <= MaxQueue
When(cond, command) == IF cond THEN <<command>> ELSE <<>>

Phase(n) == running /\ ppu.LinePhase = n
Unmoved == UNCHANGED <<config, pc, es, skip, saved, before, writes, renderer>>

\* Fault: VBlank is not ended in line 0.
HBlankEndStuck ==
  /\ Phase(3)
  /\ LET line   == (ppu.scanline + 1) % (Lines + IF ppu.interlace /\ ~ppu.field THEN 1 ELSE 0)
         begins == ~ppu.VBlank /\ line >= (IF ppu.overscan THEN OverscanLine ELSE VBlankLine)
     IN /\ ppu' = [ppu EXCEPT !.LinePhase = 0, !.scanline = line, !.VBlank = @ \/ begins,
                              !.field = IF line = 0 THEN ~@ ELSE @,
                              !.InterlaceOnSample = IF line = 0 THEN ppu.interlace ELSE @]
        /\ running' = ~(IF config.FrameBeginVBlank THEN begins ELSE line = 0)
        /\ Send(When(begins, Command("vblank", SkipFrame)))
  /\ elapsed' = 1
  /\ UNCHANGED <<SkipFrame, shown>> /\ Unmoved

\* Phase 0: a line begins, and with it VBlank may begin or end, and the frame end.
HBlankEnd ==
  /\ Phase(3)
  /\ LET line   == (ppu.scanline + 1) % (Lines + IF ppu.interlace /\ ~ppu.field THEN 1 ELSE 0)
         begins == ~ppu.VBlank /\ line >= (IF ppu.overscan THEN OverscanLine ELSE VBlankLine)
     IN /\ ppu' = [ppu EXCEPT !.LinePhase = 0, !.scanline = line,
                              !.VBlank = line # 0 /\ (@ \/ begins),
                              !.field = IF line = 0 THEN ~@ ELSE @,
                              !.InterlaceOnSample = IF line = 0 THEN ppu.interlace ELSE @]
        /\ running' = ~(IF config.FrameBeginVBlank THEN begins ELSE line = 0)
        /\ Send(When(begins, Command("vblank", SkipFrame)))
  /\ elapsed' = elapsed + 1
  /\ UNCHANGED <<SkipFrame, shown>> /\ Unmoved

\* Phase 1: in line 1 it is settled whether the frame is skipped; visible lines
\* are handed over.
LineDrawn ==
  /\ Phase(0)
  /\ LET first == ppu.scanline = 1
         unseen == IF first THEN skip = -1 \/ (skip = 1 /\ ~ppu.InterlaceOnSample) ELSE SkipFrame
         visible == ~ppu.VBlank /\ ppu.scanline \in 1 .. OverscanLine - 1
     IN /\ SkipFrame' = unseen
        /\ Send(When(first /\ ~unseen, Command("reset", 0))
                  \o When(visible /\ ~unseen, Command("line", ppu.scanline)))
        /\ shown' = (shown \/ (first /\ visible))
  /\ ppu' = [ppu EXCEPT !.LinePhase = 1]
  /\ UNCHANGED <<running, elapsed>> /\ Unmoved

\* Phase 2: memory refresh, which only takes time.
MemoryRefresh ==
  /\ Phase(1)
  /\ ppu' = [ppu EXCEPT !.LinePhase = 2]
  /\ UNCHANGED <<running, SkipFrame, queue, elapsed, shown>> /\ Unmoved

\* Fault: the sprites are fetched in the lines of the picture only.
HBlankBeginVisible ==
  /\ Phase(2)
  /\ Send(When(~ppu.VBlank /\ ppu.scanline > 0 /\ ~SkipFrame, Command("fetch", ppu.scanline)))
  /\ ppu' = [ppu EXCEPT !.LinePhase = 3]
  /\ UNCHANGED <<running, SkipFrame, elapsed, shown>> /\ Unmoved

\* Phase 3: HBlank begins; the sprites of the next line are fetched.
HBlankBegin ==
  /\ Phase(2)
  /\ Send(When(~ppu.VBlank /\ ~SkipFrame, Command("fetch", ppu.scanline)))
  /\ ppu' = [ppu EXCEPT !.LinePhase = 3]
  /\ UNCHANGED <<running, SkipFrame, elapsed, shown>> /\ Unmoved

\* After a reset the PPU's event comes first: LineCounter is 1.
JustReset == ppu.LinePhase = 3 /\ ppu.scanline = Lines - 1 /\ ~ppu.VBlank

Write_ScreenMode(interlace, overscan) ==
  /\ running /\ ~JustReset
  /\ writes < MaxWrites /\ writes' = writes + 1
  /\ ppu' = [ppu EXCEPT !.interlace = interlace, !.overscan = overscan]
  /\ Send(<<Command("mode", overscan)>>)
  /\ UNCHANGED <<config, pc, running, es, skip, SkipFrame, saved, elapsed, shown, before, renderer>>

----------------------------------------------------------------------------
(* The renderer executes the first command.                                *)

Take(kind) ==
  /\ queue # <<>> /\ Head(queue).kind = kind
  /\ queue' = Tail(queue)
  /\ UNCHANGED <<emulation, rEs>>
Arg == Head(queue).arg

SmallerOf(a, b) == IF a < b THEN a ELSE b
LargerOf(a, b) == IF a > b THEN a ELSE b
\* RenderZero, from a row up to a bound.
Zeroed(from, bound) == [r \in Rows |-> IF r \in from .. bound - 1 THEN Blank ELSE picture[r]]

ResetLineTarget ==
  /\ Take("reset")
  /\ LineTarget' = IF rOverscan THEN 0 ELSE Offset
  /\ picture' = IF config.PAL THEN Zeroed(0, LineTarget') ELSE picture
  /\ rReset' = Head(queue).frame
  /\ UNCHANGED <<rOverscan, fetched>>

RenderLine ==
  /\ Take("line")
  /\ LET row == SmallerOf(LineTarget, OverscanLine - 1)
     IN picture' = [picture EXCEPT ![row] = Arg] /\ LineTarget' = row + 1
  /\ UNCHANGED <<rReset, rOverscan, fetched>>

\* Fault: what is left of the picture is not blanked.
EnterVBlankUnfilled ==
  /\ Take("vblank")
  /\ UNCHANGED <<picture, LineTarget, rReset, rOverscan, fetched>>

EnterVBlank ==
  /\ Take("vblank")
  /\ LET bound == IF config.PAL THEN OverscanLine - 1 ELSE Offset + VBlankLine - 1
     IN IF Arg THEN UNCHANGED <<picture, LineTarget>>
        ELSE picture' = Zeroed(LineTarget, bound) /\ LineTarget' = LargerOf(LineTarget, bound)
  /\ UNCHANGED <<rReset, rOverscan, fetched>>

FetchSpriteData ==
  /\ Take("fetch")
  /\ fetched' = IF Head(queue).frame = rEs THEN Arg ELSE Old
  /\ UNCHANGED <<rReset, rOverscan, LineTarget, picture>>

SetMode ==
  /\ Take("mode") /\ rOverscan' = Arg
  /\ UNCHANGED <<rReset, LineTarget, fetched, picture>>

----------------------------------------------------------------------------
PPU_Update == HBlankEnd \/ LineDrawn \/ MemoryRefresh \/ HBlankBegin
EmulateStep == EndReal \/ Sync \/ \E s \in {0, 1} : Ahead(s)
RenderStep == ResetLineTarget \/ RenderLine \/ EnterVBlank \/ FetchSpriteData \/ SetMode
UserStep == SaveState \/ LoadState \/ Reset \/ \E s \in {0, 1} : Emulate(s)

Next ==
  \/ EmulateStep \/ PPU_Update \/ RenderStep \/ UserStep
  \/ \E i, o \in BOOLEAN : Write_ScreenMode(i, o)

Spec == Init /\ [][Next]_vars

\* Both threads run: the PPU's event comes round again and again.
FairSpec == Spec /\ WF_vars(PPU_Update) /\ WF_vars(EmulateStep) /\ WF_vars(RenderStep)

----------------------------------------------------------------------------
Frames == 0 .. 2
State ==
  [scanline : 0 .. Lines, LinePhase : 0 .. 3, VBlank : BOOLEAN, field : BOOLEAN,
   InterlaceOnSample : BOOLEAN, interlace : BOOLEAN, overscan : BOOLEAN]

TypeOK ==
  /\ pc \in {"idle", "ahead", "shown", "sync"} /\ running \in BOOLEAN
  /\ es \in Frames /\ rEs \in Frames /\ rReset \in Frames
  /\ skip \in {-1, 0, 1} /\ SkipFrame \in BOOLEAN
  /\ ppu \in State /\ saved \in State
  /\ \A i \in 1 .. Len(queue) :
       queue[i].kind \in {"reset", "line", "vblank", "fetch", "mode"} /\ queue[i].frame \in Frames
  /\ rOverscan \in BOOLEAN /\ LineTarget \in 0 .. OverscanLine
  /\ fetched \in {Old} \cup 0 .. Lines
  /\ picture \in [Rows -> {Old, Blank} \cup 1 .. OverscanLine - 1]
  /\ elapsed \in Nat /\ shown \in BOOLEAN /\ before \in BOOLEAN /\ writes \in 0 .. MaxWrites

\* The renderer uses es only for commands of the frame es belongs to, after the
\* line target was reset for it: no line ends up in another frame's surface.
UsesEs(c) == c.kind \in {"reset", "line"} \/ (c.kind = "vblank" /\ ~c.arg)
OwnFrame ==
  queue # <<>> /\ UsesEs(Head(queue)) =>
    /\ rEs = Head(queue).frame
    /\ Head(queue).kind # "reset" => rReset = rEs

\* When a frame that is not skipped is handed over, every row that is shown has
\* been drawn, in order, whatever the game did to the screen mode meanwhile
\* (but for frames of more than one field: a game that turns interlace off in
\* the extra line of a field misses line 0, and with it the end of the frame).
DisplayRect == IF config.PAL THEN 0 .. OverscanLine - 2 ELSE Offset .. Offset + VBlankLine - 2
PictureWhole ==
  pc = "sync" /\ queue = <<>> /\ shown /\ ~SkipFrame /\ elapsed <= Lines + 1 =>
    \A r \in DisplayRect :
      /\ picture[r] # Old
      /\ r - 1 \in DisplayRect /\ picture[r] > 1 => picture[r - 1] = picture[r] - 1

\* A line is drawn with the sprites that were fetched in the line before it, in the
\* same frame, whatever frames were skipped, run ahead, loaded or reset before. Line 1
\* alone is drawn with an older frame's, if and only if the frame before was not
\* drawn: whether this one is, is settled in line 1, too late for line 0's fetch.
\* (Of line 1 this is said of frames of one field, as above.)
SpritesFetched ==
  queue # <<>> /\ Head(queue).kind = "line" /\ (Arg = 1 => elapsed <= Lines + 1) =>
    fetched = IF Arg = 1 /\ before THEN Old ELSE Arg - 1

\* A game that leaves the screen mode alone at last gets its frames finished.
FramesEnd == pc # "idle" ~> pc = "idle"
============================================================================
