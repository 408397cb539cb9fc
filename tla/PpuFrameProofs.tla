--------------------------- MODULE PpuFrameProofs ---------------------------
(***************************************************************************)
(* For frames of any number of lines, any length of the queue and any      *)
(* number of writes: the renderer draws into the surface of the frame its  *)
(* commands belong to, with the sprites of the right line, and hands over  *)
(* whole pictures.                                                         *)
(***************************************************************************)
EXTENDS PpuFrame, SequenceTheorems, TLAPS

----------------------------------------------------------------------------
(* The queue.                                                              *)

ArgOK(c) ==
  /\ c.kind = "line" => c.arg \in 1 .. OverscanLine - 1
  /\ c.kind = "fetch" => c.arg \in 0 .. Lines
  /\ c.kind \in {"vblank", "mode"} => c.arg \in BOOLEAN
Commands ==
  {c \in [kind : {"reset", "line", "vblank", "fetch", "mode"}, frame : Frames, arg : Int \cup BOOLEAN] : ArgOK(c)}

\* Commands are appended and removed one at a time.
LEMMA Appended ==
  ASSUME NEW q \in Seq(Commands), NEW c \in Commands
  PROVE  /\ Append(q, c) \in Seq(Commands) /\ Len(Append(q, c)) = Len(q) + 1 /\ Len(q) \in Nat
         /\ \A i \in 1 .. Len(q) : Append(q, c)[i] = q[i] /\ q[i] \in Commands
         /\ Append(q, c)[Len(q) + 1] = c
  OBVIOUS

LEMMA Removed ==
  ASSUME NEW q \in Seq(Commands), q # <<>>
  PROVE  /\ Tail(q) \in Seq(Commands) /\ Len(Tail(q)) = Len(q) - 1 /\ Len(q) \in Nat \ {0}
         /\ Head(q) = q[1] /\ Head(q) \in Commands
         /\ \A i \in 1 .. Len(q) - 1 : Tail(q)[i] = q[i + 1]
         /\ \A i \in 1 .. Len(q) : q[i] \in Commands
  OBVIOUS

\* What When adds.
LEMMA Sending ==
  ASSUME NEW q \in Seq(Commands), NEW b \in BOOLEAN, NEW c \in Commands
  PROVE  /\ q \o When(b, c) = IF b THEN Append(q, c) ELSE q
         /\ When(b, c) \in Seq(Commands)
  <1>1. CASE b
    BY <1>1 DEF When
  <1>2. CASE ~b
    BY <1>2 DEF When
  <1> QED BY <1>1, <1>2

\* Every command that the emulation thread makes is one.
LEMMA Made ==
  ASSUME es \in Frames
  PROVE  /\ Command("reset", 0) \in Commands
         /\ \A b \in BOOLEAN : Command("vblank", b) \in Commands /\ Command("mode", b) \in Commands
         /\ \A n \in 1 .. OverscanLine - 1 : Command("line", n) \in Commands
         /\ \A n \in 0 .. Lines : Command("fetch", n) \in Commands
  BY LinesAssumption DEF Command, Commands, ArgOK

----------------------------------------------------------------------------
(* Types.                                                                  *)

\* The next line: in an interlaced frame's first field there is one more.
LineAfter(s) == (s.scanline + 1) % (Lines + IF s.interlace /\ ~s.field THEN 1 ELSE 0)

LEMMA LineAfterIs ==
  ASSUME NEW s \in State
  PROVE  /\ s.scanline + 1 < Lines => LineAfter(s) = s.scanline + 1
         /\ s.scanline + 1 = Lines => LineAfter(s) = IF s.interlace /\ ~s.field THEN Lines ELSE 0
         /\ s.scanline = Lines => LineAfter(s) = IF s.interlace /\ ~s.field THEN 0 ELSE 1
         /\ LineAfter(s) \in 0 .. Lines
  <1> DEFINE n == s.scanline
             k == Lines + IF s.interlace /\ ~s.field THEN 1 ELSE 0
  <1>1. n \in 0 .. Lines /\ Lines \in Nat /\ Lines > 1
    BY LinesAssumption DEF State
  <1>2. k \in {Lines, Lines + 1} /\ (k = Lines + 1 <=> s.interlace /\ ~s.field)
    BY <1>1 DEF State
  <1>3. LineAfter(s) = (n + 1) % k
    BY DEF LineAfter
  <1> HIDE DEF n, k
  <1>4. /\ n + 1 < k => (n + 1) % k = n + 1
        /\ n + 1 = k => (n + 1) % k = 0
        /\ n + 1 = k + 1 => (n + 1) % k = 1
    BY <1>1, <1>2
  <1>5. s.scanline = n
    BY DEF n
  <1> QED BY <1>1, <1>2, <1>3, <1>4, <1>5

\* TypeOK says of the queue's entries only what they have in common.
QueueOK == queue \in Seq(Commands)
TypeInv == TypeOK /\ QueueOK

\* What the PPU's steps do, field by field.
Begins(s) == ~s.VBlank /\ LineAfter(s) >= (IF s.overscan THEN OverscanLine ELSE VBlankLine)

LEMMA HBlankEndDoes ==
  ASSUME TypeInv, HBlankEnd
  PROVE  /\ running /\ ppu.LinePhase = 3 /\ ppu' \in State /\ Begins(ppu) \in BOOLEAN
         /\ ppu'.LinePhase = 0 /\ ppu'.scanline = LineAfter(ppu)
         /\ ppu'.VBlank = (LineAfter(ppu) # 0 /\ (ppu.VBlank \/ Begins(ppu)))
         /\ ppu'.interlace = ppu.interlace /\ ppu'.overscan = ppu.overscan
         /\ running' = ~(IF config.FrameBeginVBlank THEN Begins(ppu) ELSE LineAfter(ppu) = 0)
         /\ queue' = IF Begins(ppu) THEN Append(queue, Command("vblank", SkipFrame)) ELSE queue
         /\ elapsed' = elapsed + 1
         /\ Command("vblank", SkipFrame) \in Commands
         /\ UNCHANGED <<SkipFrame, shown, config, pc, es, skip, saved, before, writes, renderer>>
  <1>1. ppu \in State /\ LineAfter(ppu) \in 0 .. Lines
    BY LineAfterIs DEF TypeInv, TypeOK
  <1>2. Begins(ppu) \in BOOLEAN /\ SkipFrame \in BOOLEAN /\ Command("vblank", SkipFrame) \in Commands
    BY <1>1, Made DEF TypeInv, TypeOK, Begins, State
  <1>3. queue' = queue \o When(Begins(ppu), Command("vblank", SkipFrame))
    BY DEF HBlankEnd, Send, Begins, LineAfter
  <1>4. queue' = IF Begins(ppu) THEN Append(queue, Command("vblank", SkipFrame)) ELSE queue
    BY <1>2, <1>3, Sending DEF TypeInv, QueueOK
  <1>5. ppu' = [ppu EXCEPT !.LinePhase = 0, !.scanline = LineAfter(ppu),
                           !.VBlank = LineAfter(ppu) # 0 /\ (ppu.VBlank \/ Begins(ppu)),
                           !.field = IF LineAfter(ppu) = 0 THEN ~ppu.field ELSE ppu.field,
                           !.InterlaceOnSample = IF LineAfter(ppu) = 0 THEN ppu.interlace ELSE ppu.InterlaceOnSample]
    BY DEF HBlankEnd, Begins, LineAfter
  <1>6. ppu' \in State
    <2> DEFINE v == LineAfter(ppu) # 0 /\ (ppu.VBlank \/ Begins(ppu))
               f == IF LineAfter(ppu) = 0 THEN ~ppu.field ELSE ppu.field
               t == IF LineAfter(ppu) = 0 THEN ppu.interlace ELSE ppu.InterlaceOnSample
               n == LineAfter(ppu)
    <2>1. v \in BOOLEAN /\ f \in BOOLEAN /\ t \in BOOLEAN /\ n \in 0 .. Lines
      BY <1>1 DEF State
    <2>2. ppu' = [[ppu EXCEPT !.LinePhase = 0, !.scanline = n] EXCEPT !.VBlank = v, !.field = f, !.InterlaceOnSample = t]
      BY <1>5
    <2> HIDE DEF v, f, t, n
    <2>3. 0 \in 0 .. 3
      OBVIOUS
    <2>4. [ppu EXCEPT !.LinePhase = 0, !.scanline = n] \in State
      BY <1>1, <2>1, <2>3, Zenon DEF State
    <2> QED BY <2>1, <2>2, <2>4, Zenon DEF State
  <1>7. running' = ~(IF config.FrameBeginVBlank THEN Begins(ppu) ELSE LineAfter(ppu) = 0)
    BY DEF HBlankEnd, Begins, LineAfter
  <1>8. running /\ ppu.LinePhase = 3 /\ elapsed' = elapsed + 1
        /\ UNCHANGED <<SkipFrame, shown, config, pc, es, skip, saved, before, writes, renderer>>
    BY DEF HBlankEnd, Phase, Unmoved
  <1>9. /\ ppu'.LinePhase = 0 /\ ppu'.scanline = LineAfter(ppu)
        /\ ppu'.VBlank = (LineAfter(ppu) # 0 /\ (ppu.VBlank \/ Begins(ppu)))
        /\ ppu'.interlace = ppu.interlace /\ ppu'.overscan = ppu.overscan
    BY <1>1, <1>5 DEF State
  <1> QED BY <1>2, <1>4, <1>6, <1>7, <1>8, <1>9

Visible(s) == ~s.VBlank /\ s.scanline \in 1 .. OverscanLine - 1
Unseen == IF ppu.scanline = 1 THEN skip = -1 \/ (skip = 1 /\ ~ppu.InterlaceOnSample) ELSE SkipFrame

LEMMA LineDrawnDoes ==
  ASSUME TypeInv, LineDrawn
  PROVE  LET reset == Command("reset", 0)
             line  == Command("line", ppu.scanline)
             with  == IF ppu.scanline = 1 /\ ~Unseen THEN Append(queue, reset) ELSE queue
         IN /\ running /\ ppu.LinePhase = 0 /\ ppu' \in State /\ Unseen \in BOOLEAN
            /\ ppu' = [ppu EXCEPT !.LinePhase = 1] /\ ppu'.LinePhase = 1
            /\ ppu'.scanline = ppu.scanline /\ ppu'.VBlank = ppu.VBlank /\ ppu'.interlace = ppu.interlace
            /\ SkipFrame' = Unseen
            /\ queue' = IF Visible(ppu) /\ ~Unseen THEN Append(with, line) ELSE with
            /\ shown' = (shown \/ (ppu.scanline = 1 /\ Visible(ppu)))
            /\ reset \in Commands /\ (Visible(ppu) => line \in Commands)
            /\ UNCHANGED <<running, elapsed, config, pc, es, skip, saved, before, writes, renderer>>
  <1> DEFINE reset == Command("reset", 0)
             line  == Command("line", ppu.scanline)
             first == ppu.scanline = 1
  <1>1. ppu \in State /\ Unseen \in BOOLEAN /\ Visible(ppu) \in BOOLEAN /\ first \in BOOLEAN
    BY DEF TypeInv, TypeOK, Unseen, Visible, State
  <1>2. reset \in Commands /\ (Visible(ppu) => line \in Commands)
    BY Made DEF TypeInv, TypeOK, Visible
  <1>3. queue' = queue \o (When(first /\ ~Unseen, reset) \o When(Visible(ppu) /\ ~Unseen, line))
    BY DEF LineDrawn, Send, Visible, Unseen
  <1>4. queue' = IF Visible(ppu) /\ ~Unseen
                 THEN Append(IF first /\ ~Unseen THEN Append(queue, reset) ELSE queue, line)
                 ELSE IF first /\ ~Unseen THEN Append(queue, reset) ELSE queue
    <2> HIDE DEF reset, line, first
    <2>1. CASE first /\ Visible(ppu) /\ ~Unseen
      <3>1. queue' = queue \o (<<reset>> \o <<line>>)
        BY <1>3, <2>1 DEF When
      <3> QED BY <1>2, <2>1, <3>1 DEF TypeInv, QueueOK
    <2>2. CASE first /\ ~Visible(ppu) /\ ~Unseen
      <3>1. queue' = queue \o (<<reset>> \o <<>>)
        BY <1>3, <2>2 DEF When
      <3> QED BY <1>2, <2>2, <3>1 DEF TypeInv, QueueOK
    <2>3. CASE ~first /\ Visible(ppu) /\ ~Unseen
      <3>1. queue' = queue \o (<<>> \o <<line>>)
        BY <1>3, <2>3 DEF When
      <3> QED BY <1>2, <2>3, <3>1 DEF TypeInv, QueueOK
    <2>4. CASE Unseen \/ (~first /\ ~Visible(ppu))
      <3>1. queue' = queue \o (<<>> \o <<>>)
        BY <1>3, <2>4 DEF When
      <3> QED BY <2>4, <3>1 DEF TypeInv, QueueOK
    <2> QED BY <2>1, <2>2, <2>3, <2>4
  <1>5. /\ running /\ ppu.LinePhase = 0 /\ ppu' = [ppu EXCEPT !.LinePhase = 1]
        /\ SkipFrame' = Unseen /\ shown' = (shown \/ (first /\ Visible(ppu)))
        /\ UNCHANGED <<running, elapsed, config, pc, es, skip, saved, before, writes, renderer>>
    BY DEF LineDrawn, Phase, Unmoved, Visible, Unseen
  <1>6. /\ ppu' \in State /\ ppu'.LinePhase = 1
        /\ ppu'.scanline = ppu.scanline /\ ppu'.VBlank = ppu.VBlank /\ ppu'.interlace = ppu.interlace
    BY <1>1, <1>5 DEF State
  <1> QED BY <1>1, <1>2, <1>4, <1>5, <1>6

LEMMA HBlankBeginDoes ==
  ASSUME TypeInv, HBlankBegin
  PROVE  LET fetch == Command("fetch", ppu.scanline)
         IN /\ running /\ ppu.LinePhase = 2 /\ ppu' \in State
            /\ ppu' = [ppu EXCEPT !.LinePhase = 3] /\ ppu'.LinePhase = 3
            /\ ppu'.scanline = ppu.scanline /\ ppu'.VBlank = ppu.VBlank /\ ppu'.interlace = ppu.interlace
            /\ queue' = IF ~ppu.VBlank /\ ~SkipFrame THEN Append(queue, fetch) ELSE queue
            /\ fetch \in Commands
            /\ UNCHANGED <<running, SkipFrame, shown, elapsed, config, pc, es, skip, saved, before, writes, renderer>>
  <1> DEFINE fetch == Command("fetch", ppu.scanline)
  <1>1. ppu \in State /\ fetch \in Commands /\ (~ppu.VBlank /\ ~SkipFrame) \in BOOLEAN
    BY Made DEF TypeInv, TypeOK, State
  <1>2. queue' = queue \o When(~ppu.VBlank /\ ~SkipFrame, fetch)
    BY DEF HBlankBegin, Send
  <1>3. queue' = IF ~ppu.VBlank /\ ~SkipFrame THEN Append(queue, fetch) ELSE queue
    <2> HIDE DEF fetch
    <2> QED BY <1>1, <1>2, Sending DEF TypeInv, QueueOK
  <1>4. /\ running /\ ppu.LinePhase = 2 /\ ppu' = [ppu EXCEPT !.LinePhase = 3]
        /\ UNCHANGED <<running, SkipFrame, shown, elapsed, config, pc, es, skip, saved, before, writes, renderer>>
    BY DEF HBlankBegin, Phase, Unmoved
  <1>5. /\ ppu' \in State /\ ppu'.LinePhase = 3
        /\ ppu'.scanline = ppu.scanline /\ ppu'.VBlank = ppu.VBlank /\ ppu'.interlace = ppu.interlace
    BY <1>1, <1>4 DEF State
  <1> QED BY <1>1, <1>3, <1>4, <1>5

LEMMA MemoryRefreshDoes ==
  ASSUME TypeInv, MemoryRefresh
  PROVE  /\ running /\ ppu.LinePhase = 1 /\ ppu' \in State
         /\ ppu' = [ppu EXCEPT !.LinePhase = 2] /\ ppu'.LinePhase = 2
         /\ ppu'.scanline = ppu.scanline /\ ppu'.VBlank = ppu.VBlank /\ ppu'.interlace = ppu.interlace
         /\ UNCHANGED <<queue, running, SkipFrame, shown, elapsed, config, pc, es, skip, saved, before, writes, renderer>>
  BY DEF MemoryRefresh, Phase, Unmoved, TypeInv, TypeOK, State

LEMMA ScreenModeDoes ==
  ASSUME TypeInv, NEW i \in BOOLEAN, NEW o \in BOOLEAN, Write_ScreenMode(i, o)
  PROVE  /\ running /\ ~JustReset /\ ppu' \in State
         /\ ppu'.LinePhase = ppu.LinePhase /\ ppu'.scanline = ppu.scanline /\ ppu'.VBlank = ppu.VBlank
         /\ queue' = Append(queue, Command("mode", o)) /\ Command("mode", o) \in Commands
         /\ writes' \in 0 .. MaxWrites
         /\ UNCHANGED <<running, SkipFrame, shown, elapsed, config, pc, es, skip, saved, before, renderer>>
  <1>1. Command("mode", o) \in Commands
    BY Made DEF TypeInv, TypeOK
  <1>2. queue' = queue \o <<Command("mode", o)>>
    BY DEF Write_ScreenMode, Send
  <1>3. queue' = Append(queue, Command("mode", o))
    BY <1>1, <1>2 DEF TypeInv, QueueOK
  <1>4. ppu \in State /\ ppu' = [ppu EXCEPT !.interlace = i, !.overscan = o]
    BY DEF Write_ScreenMode, TypeInv, TypeOK
  <1>5. /\ ppu' \in State /\ ppu'.LinePhase = ppu.LinePhase
        /\ ppu'.scanline = ppu.scanline /\ ppu'.VBlank = ppu.VBlank
    BY <1>4 DEF State
  <1>6. writes' \in 0 .. MaxWrites
    BY LinesAssumption DEF Write_ScreenMode, TypeInv, TypeOK
  <1>7. /\ running /\ ~JustReset
        /\ UNCHANGED <<running, SkipFrame, shown, elapsed, config, pc, es, skip, saved, before, renderer>>
    BY DEF Write_ScreenMode
  <1> QED BY <1>1, <1>3, <1>5, <1>6, <1>7

\* What the queue's type says of its entries is TypeOK's part about it.
LEMMA Entries ==
  ASSUME NEW q \in Seq(Commands)
  PROVE  \A i \in 1 .. Len(q) :
           q[i].kind \in {"reset", "line", "vblank", "fetch", "mode"} /\ q[i].frame \in Frames
  BY DEF Commands

LEMMA PowerOnIsState == PowerOn \in State /\ \A b \in BOOLEAN : [PowerOn EXCEPT !.InterlaceOnSample = b] \in State
  <1>1. Lines - 1 \in 0 .. Lines /\ 3 \in 0 .. 3
    BY LinesAssumption
  <1> QED BY <1>1, Zenon DEF PowerOn, State

LEMMA TypeInitially == Init => TypeInv
  <1> SUFFICES ASSUME Init PROVE TypeInv
    OBVIOUS
  <1>1. PowerOn \in State /\ \A b \in BOOLEAN : Earlier(b) \in State
    <2>1. Lines - 1 \in 0 .. Lines /\ OverscanLine \in 0 .. Lines /\ 0 \in 0 .. Lines
      BY LinesAssumption
    <2>2. PowerOn \in State
      BY PowerOnIsState
    <2>3. ASSUME NEW b \in BOOLEAN PROVE Earlier(b) \in State
      <3> DEFINE n == IF b THEN OverscanLine ELSE 0
      <3>1. n \in 0 .. Lines
        BY <2>1
      <3>2. Earlier(b) = [scanline |-> n, LinePhase |-> 0, VBlank |-> b, field |-> FALSE,
                          InterlaceOnSample |-> TRUE, interlace |-> TRUE, overscan |-> TRUE]
        BY DEF Earlier
      <3> HIDE DEF n
      <3> QED BY <3>1, <3>2 DEF State
    <2> QED BY <2>2, <2>3
  <1>2. ppu \in State /\ saved \in State
    BY <1>1 DEF Init
  <1>3. Len(queue) = 0 /\ queue \in Seq(Commands)
    BY DEF Init
  <1>4. picture \in [Rows -> {Old, Blank} \cup 1 .. OverscanLine - 1]
    BY DEF Init
  <1>5. /\ pc = "idle" /\ running = FALSE /\ es = 0 /\ skip = 0 /\ SkipFrame = FALSE
        /\ rEs = 0 /\ rReset = 2 /\ rOverscan = FALSE /\ LineTarget = 0 /\ fetched = Old
        /\ elapsed = 0 /\ shown = FALSE /\ before = FALSE /\ writes = 0
    BY DEF Init
  <1>6. 0 \in Frames /\ 2 \in Frames /\ 0 \in 0 .. Lines /\ 0 \in 0 .. OverscanLine /\ 0 \in 0 .. MaxWrites
    BY LinesAssumption DEF Frames
  <1> QED
    BY <1>2, <1>3, <1>4, <1>5, <1>6, Entries DEF TypeInv, TypeOK, QueueOK

LEMMA TypeInductive == TypeInv /\ [Next]_vars => TypeInv'
  <1> SUFFICES ASSUME TypeInv, [Next]_vars PROVE TypeInv'
    OBVIOUS
  <1> USE LinesAssumption
  <1> DEFINE Emulation == /\ pc' \in {"idle", "ahead", "shown", "sync"} /\ running' \in BOOLEAN
                          /\ es' \in Frames /\ rEs' \in Frames
                          /\ skip' \in {-1, 0, 1} /\ SkipFrame' \in BOOLEAN
                          /\ ppu' \in State /\ saved' \in State
                          /\ elapsed' \in Nat /\ shown' \in BOOLEAN /\ before' \in BOOLEAN
                          /\ writes' \in 0 .. MaxWrites
             Renderer  == /\ rReset' \in Frames
                          /\ rOverscan' \in BOOLEAN /\ LineTarget' \in 0 .. OverscanLine
                          /\ fetched' \in {Old} \cup 0 .. Lines
                          /\ picture' \in [Rows -> {Old, Blank} \cup 1 .. OverscanLine - 1]
  <1>0. Emulation /\ Renderer /\ queue' \in Seq(Commands) => TypeInv'
    BY Entries DEF TypeInv, TypeOK, QueueOK
  <1>1. /\ UNCHANGED emulation /\ rEs' = rEs => Emulation
        /\ UNCHANGED <<rReset, rOverscan, LineTarget, fetched, picture>> => Renderer
    BY DEF TypeInv, TypeOK, emulation
  <1>2. queue \in Seq(Commands)
    BY DEF TypeInv, QueueOK
  <1>3. ASSUME NEW where \in {"ahead", "shown"}, NEW s \in {-1, 0, 1},
               StartFrame(where, s), UNCHANGED ppu, saved' \in State
        PROVE  TypeInv'
    <2>1. NextFrame(es) \in Frames
      BY DEF NextFrame, Frames, TypeInv, TypeOK
    <2>2. Emulation /\ queue' \in Seq(Commands)
      BY <1>2, <1>3, <2>1 DEF StartFrame, TypeInv, TypeOK
    <2>3. picture' \in [Rows -> {Old, Blank} \cup 1 .. OverscanLine - 1]
      BY <1>3 DEF StartFrame
    <2>4. Renderer
      BY <1>3, <2>3 DEF StartFrame, TypeInv, TypeOK
    <2> QED BY <1>0, <2>2, <2>4
  <1>4. ASSUME NEW state \in State, Becomes(state), pc' \in {"idle", "ahead", "shown", "sync"}, saved' = saved
        PROVE  TypeInv'
    <2>1. Emulation /\ Renderer /\ queue' \in Seq(Commands)
      BY <1>2, <1>4 DEF Becomes, TypeInv, TypeOK, State
    <2> QED BY <1>0, <2>1
  <1>5. ASSUME EmulateStep PROVE TypeInv'
    <2>1. CASE EndReal
      <3>1. Emulation /\ Renderer /\ queue' \in Seq(Commands)
        BY <1>2, <2>1 DEF EndReal, renderer, TypeInv, TypeOK
      <3> QED BY <1>0, <3>1
    <2>2. CASE Sync
      BY <1>4, <2>2 DEF Sync, TypeInv, TypeOK
    <2>3. ASSUME NEW s \in {0, 1}, Ahead(s) PROVE TypeInv'
      BY <1>3, <2>3 DEF Ahead, TypeInv, TypeOK
    <2> QED BY <1>5, <2>1, <2>2, <2>3 DEF EmulateStep
  <1>6. ASSUME UserStep PROVE TypeInv'
    <2>1. CASE SaveState
      <3>1. Emulation /\ Renderer /\ queue' \in Seq(Commands)
        BY <1>2, <2>1 DEF SaveState, renderer, TypeInv, TypeOK
      <3> QED BY <1>0, <3>1
    <2>2. CASE LoadState
      BY <1>4, <2>2 DEF LoadState, TypeInv, TypeOK
    <2>3. CASE Reset
      <3>1. [PowerOn EXCEPT !.InterlaceOnSample = ppu.InterlaceOnSample] \in State
        BY PowerOnIsState DEF TypeInv, TypeOK, State
      <3> QED BY <1>4, <2>3, <3>1 DEF Reset, TypeInv, TypeOK
    <2>4. ASSUME NEW s \in {0, 1}, Emulate(s) PROVE TypeInv'
      <3>1. saved' \in State /\ UNCHANGED ppu
        BY <2>4 DEF Emulate, TypeInv, TypeOK
      <3> QED BY <1>3, <2>4, <3>1 DEF Emulate
    <2> QED BY <1>6, <2>1, <2>2, <2>3, <2>4 DEF UserStep
  <1>7. ASSUME PPU_Update PROVE TypeInv'
    <2>1. CASE HBlankEnd
      <3>1. Emulation /\ Renderer
        <4>1. elapsed' \in Nat
          BY <2>1 DEF HBlankEnd, TypeInv, TypeOK
        <4>2. running' \in BOOLEAN
          BY <2>1, Zenon DEF HBlankEnd
        <4> QED BY <2>1, <4>1, <4>2, HBlankEndDoes DEF renderer, TypeInv, TypeOK
      <3>2. queue' \in Seq(Commands)
        BY <1>2, <2>1, HBlankEndDoes, Appended
      <3> QED BY <1>0, <3>1, <3>2
    <2>2. CASE LineDrawn
      <3>1. Emulation /\ Renderer
        BY <2>2, LineDrawnDoes DEF renderer, TypeInv, TypeOK
      <3>2. queue' \in Seq(Commands)
        <4> DEFINE with == IF ppu.scanline = 1 /\ ~Unseen THEN Append(queue, Command("reset", 0)) ELSE queue
        <4>1. with \in Seq(Commands)
          BY <1>2, <2>2, LineDrawnDoes, Appended
        <4>2. queue' = IF Visible(ppu) /\ ~Unseen THEN Append(with, Command("line", ppu.scanline)) ELSE with
          BY <2>2, LineDrawnDoes
        <4>3. Visible(ppu) => Command("line", ppu.scanline) \in Commands
          BY <2>2, LineDrawnDoes
        <4> HIDE DEF with
        <4> QED BY <4>1, <4>2, <4>3, Appended
      <3> QED BY <1>0, <3>1, <3>2
    <2>3. CASE MemoryRefresh
      <3>1. Emulation /\ Renderer /\ queue' \in Seq(Commands)
        BY <1>2, <2>3, MemoryRefreshDoes DEF renderer, TypeInv, TypeOK
      <3> QED BY <1>0, <3>1
    <2>4. CASE HBlankBegin
      <3>1. Emulation /\ Renderer
        BY <2>4, HBlankBeginDoes DEF renderer, TypeInv, TypeOK
      <3>2. queue' \in Seq(Commands)
        BY <1>2, <2>4, HBlankBeginDoes, Appended
      <3> QED BY <1>0, <3>1, <3>2
    <2> QED BY <1>7, <2>1, <2>2, <2>3, <2>4 DEF PPU_Update
  <1>8. ASSUME NEW i \in BOOLEAN, NEW o \in BOOLEAN, Write_ScreenMode(i, o) PROVE TypeInv'
    <2>1. Emulation /\ Renderer
      BY <1>8, ScreenModeDoes DEF renderer, TypeInv, TypeOK
    <2>2. queue' \in Seq(Commands)
      BY <1>2, <1>8, ScreenModeDoes, Appended
    <2> QED BY <1>0, <2>1, <2>2
  <1>9. ASSUME RenderStep PROVE TypeInv'
    <2>1. queue # <<>> /\ queue' = Tail(queue) /\ UNCHANGED <<emulation, rEs>>
      BY <1>9 DEF RenderStep, ResetLineTarget, RenderLine, EnterVBlank, FetchSpriteData, SetMode, Take
    <2>2. queue' \in Seq(Commands) /\ Head(queue) \in Commands
      BY <1>2, <2>1, Removed
    <2>3. Emulation
      BY <1>1, <2>1
    <2>4. \A from, bound : Zeroed(from, bound) \in [Rows -> {Old, Blank} \cup 1 .. OverscanLine - 1]
      BY DEF Zeroed, TypeInv, TypeOK
    <2>5. Renderer
      <3>1. CASE ResetLineTarget
        <4>1. LineTarget' \in 0 .. OverscanLine
          BY <3>1 DEF ResetLineTarget
        <4>2. rReset' \in Frames
          BY <2>2, <3>1 DEF ResetLineTarget, Commands
        <4>3. picture' \in [Rows -> {Old, Blank} \cup 1 .. OverscanLine - 1]
          BY <2>4, <3>1 DEF ResetLineTarget, TypeInv, TypeOK
        <4> QED BY <3>1, <4>1, <4>2, <4>3 DEF ResetLineTarget, TypeInv, TypeOK
      <3>2. CASE RenderLine
        <4>1. SmallerOf(LineTarget, OverscanLine - 1) \in Rows /\ SmallerOf(LineTarget, OverscanLine - 1) + 1 \in 0 .. OverscanLine
          BY DEF SmallerOf, Rows, TypeInv, TypeOK
        <4>2. Arg \in 1 .. OverscanLine - 1
          BY <2>2, <3>2 DEF RenderLine, Take, Arg, Commands, ArgOK
        <4> HIDE DEF Emulation
        <4> QED BY <3>2, <4>1, <4>2 DEF RenderLine, TypeInv, TypeOK
      <3>3. CASE EnterVBlank
        <4>1. ASSUME NEW b \in 0 .. OverscanLine PROVE LargerOf(LineTarget, b) \in 0 .. OverscanLine
          BY DEF LargerOf, TypeInv, TypeOK
        <4>2. (IF config.PAL THEN OverscanLine - 1 ELSE Offset + VBlankLine - 1) \in 0 .. OverscanLine
          OBVIOUS
        <4>3. LineTarget' \in 0 .. OverscanLine
          BY <3>3, <4>1, <4>2 DEF EnterVBlank, TypeInv, TypeOK
        <4>4. picture' \in [Rows -> {Old, Blank} \cup 1 .. OverscanLine - 1]
          BY <2>4, <3>3 DEF EnterVBlank, TypeInv, TypeOK
        <4> QED BY <3>3, <4>3, <4>4 DEF EnterVBlank, TypeInv, TypeOK
      <3>4. CASE FetchSpriteData
        BY <2>2, <3>4 DEF FetchSpriteData, Take, Arg, Commands, ArgOK, TypeInv, TypeOK
      <3>5. CASE SetMode
        BY <2>2, <3>5 DEF SetMode, Take, Arg, Commands, ArgOK, TypeInv, TypeOK
      <3> QED BY <1>9, <3>1, <3>2, <3>3, <3>4, <3>5 DEF RenderStep
    <2> QED BY <1>0, <2>2, <2>3, <2>5
  <1>10. CASE UNCHANGED vars
    <2>1. Emulation /\ Renderer /\ queue' \in Seq(Commands)
      BY <1>1, <1>2, <1>10 DEF vars, renderer
    <2> QED BY <1>0, <2>1
  <1> QED BY <1>5, <1>6, <1>7, <1>8, <1>9, <1>10 DEF Next

THEOREM TypeCorrect == Spec => []TypeOK
  <1>1. TypeInv => TypeOK
    BY DEF TypeInv
  <1> QED BY <1>1, TypeInitially, TypeInductive, PTL DEF Spec

----------------------------------------------------------------------------
(* The course of a frame.                                                  *)

\* After a reset, until the first line.
Fresh(s) == s.LinePhase = 3 /\ s.scanline = Lines - 1 /\ ~s.VBlank /\ ~s.interlace
\* Not yet in the part of the frame in which it is settled what is drawn.
Before(s) == s.VBlank \/ s.scanline = 0 \/ (s.scanline = 1 /\ s.LinePhase = 0) \/ Fresh(s)
\* Lines outside VBlank are before its latest beginning.
InRange(s) == ~s.VBlank => s.scanline < OverscanLine \/ Fresh(s)
\* Where a frame begins and ends.
AtTop(s) == s.scanline = 0 /\ s.LinePhase = 0 /\ ~s.VBlank
Between(s) == Before(s) /\ (~config.FrameBeginVBlank => AtTop(s) \/ Fresh(s))

\* The frame's one field; after a field too long the count is past it.
Live == config.FrameBeginVBlank \/ elapsed <= Lines + (IF running THEN 0 ELSE 1)

Course ==
  /\ InRange(ppu) /\ InRange(saved) /\ Between(saved)
  /\ ~running => Between(ppu)
  /\ pc \in {"idle", "sync"} => ~running
  /\ pc = "ahead" => skip = -1 /\ (Before(ppu) \/ SkipFrame)
  /\ pc = "shown" /\ running /\ ~Before(ppu) => shown
  /\ shown /\ running /\ Live =>
       /\ ppu.scanline >= 1 /\ ~Fresh(ppu)
       /\ ppu.scanline = 1 => ppu.LinePhase # 0
       /\ config.FrameBeginVBlank => ~ppu.VBlank
  /\ ~config.FrameBeginVBlank /\ running /\ elapsed <= Lines =>
       elapsed = ppu.scanline \/ (Fresh(ppu) /\ elapsed = 0)

\* The line after one that is not in VBlank.
LEMMA NextVisible ==
  ASSUME TypeInv, InRange(ppu), ~ppu.VBlank
  PROVE  /\ Fresh(ppu) => LineAfter(ppu) = 0 /\ ~Begins(ppu)
         /\ ~Fresh(ppu) => LineAfter(ppu) = ppu.scanline + 1 /\ ppu.scanline < OverscanLine
         /\ Begins(ppu) => LineAfter(ppu) >= VBlankLine
  <1>1. ppu \in State /\ ppu.scanline \in 0 .. Lines
    BY DEF TypeInv, TypeOK, State
  <1>2. ASSUME Fresh(ppu) PROVE LineAfter(ppu) = 0 /\ ~Begins(ppu)
    <2>1. ppu.scanline + 1 = Lines /\ ~ppu.interlace
      BY <1>1, <1>2, LinesAssumption DEF Fresh
    <2>2. LineAfter(ppu) = 0
      BY <1>1, <2>1, LineAfterIs
    <2> QED BY <2>2, LinesAssumption DEF Begins
  <1>3. ASSUME ~Fresh(ppu) PROVE LineAfter(ppu) = ppu.scanline + 1 /\ ppu.scanline < OverscanLine
    <2>1. ppu.scanline < OverscanLine
      BY <1>3 DEF InRange
    <2> QED BY <1>1, <2>1, LineAfterIs, LinesAssumption
  <1>4. Begins(ppu) => LineAfter(ppu) >= VBlankLine
    <2>1. LineAfter(ppu) \in 0 .. Lines
      BY <1>1, LineAfterIs
    <2> QED BY <2>1, LinesAssumption DEF Begins
  <1> QED BY <1>2, <1>3, <1>4

LEMMA CourseInitially == Init => Course
  <1> SUFFICES ASSUME Init PROVE Course
    OBVIOUS
  <1>1. InRange(PowerOn) /\ Between(PowerOn)
    BY DEF PowerOn, InRange, Between, Before, Fresh
  <1>2. config.FrameBeginVBlank \in BOOLEAN
    BY DEF Init
  <1>3. InRange(Earlier(config.FrameBeginVBlank)) /\ Between(Earlier(config.FrameBeginVBlank))
    BY <1>2, LinesAssumption DEF Earlier, InRange, Between, Before, AtTop
  <1> QED BY <1>1, <1>3 DEF Init, Course

LEMMA CourseInductive == TypeInv /\ Course /\ [Next]_vars => Course'
  <1> SUFFICES ASSUME TypeInv, Course, [Next]_vars PROVE Course'
    OBVIOUS
  <1> USE LinesAssumption
  <1>1. ASSUME UNCHANGED <<config, pc, running, skip, ppu, SkipFrame, saved, elapsed, shown>> PROVE Course'
    BY <1>1 DEF Course, InRange, Between, Before, AtTop, Fresh, Live
  <1>2. ASSUME NEW where \in {"ahead", "shown"}, NEW s \in {-1, 0, 1}, where = "ahead" => s = -1,
               ~running, StartFrame(where, s), UNCHANGED ppu, InRange(saved)', Between(saved)'
        PROVE  Course'
    <2>1. Between(ppu)' /\ InRange(ppu)' /\ Before(ppu)'
      BY <1>2 DEF StartFrame, Course, Between, Before, InRange, AtTop, Fresh
    <2>2. /\ pc' = where /\ running' /\ skip' = s /\ elapsed' = 0 /\ ~shown'
          /\ config' = config
      BY <1>2 DEF StartFrame
    <2>3. ~config'.FrameBeginVBlank => elapsed' = ppu'.scanline \/ (Fresh(ppu)' /\ elapsed' = 0)
      BY <2>1, <2>2 DEF Between, AtTop
    <2> QED BY <1>2, <2>1, <2>2, <2>3 DEF Course
  <1>3. ASSUME NEW state, InRange(state), Between(state), Becomes(state), ~running, pc' = "idle", saved' = saved
        PROVE  Course'
    <2>1. UNCHANGED <<config, running, saved, shown, elapsed, skip>> /\ ppu' = state
      BY <1>3 DEF Becomes
    <2>2. InRange(ppu)' /\ Between(ppu)' /\ InRange(saved)' /\ Between(saved)'
      BY <1>3, <2>1 DEF Course, InRange, Between, Before, AtTop, Fresh
    <2> QED BY <1>3, <2>1, <2>2 DEF Course
  <1>4. ASSUME EmulateStep PROVE Course'
    <2>1. CASE EndReal
      BY <2>1 DEF EndReal, Course, InRange, Between, Before, AtTop, Fresh, Live
    <2>2. CASE Sync
      BY <1>3, <2>2 DEF Sync, Course
    <2>3. ASSUME NEW s \in {0, 1}, Ahead(s) PROVE Course'
      <3>1. InRange(saved)' /\ Between(saved)'
        BY <2>3 DEF Ahead, StartFrame, Course, InRange, Between, Before, AtTop, Fresh
      <3> QED BY <1>2, <2>3, <3>1 DEF Ahead
    <2> QED BY <1>4, <2>1, <2>2, <2>3 DEF EmulateStep
  <1>5. ASSUME UserStep PROVE Course'
    <2>1. CASE SaveState
      BY <2>1 DEF SaveState, Course, InRange, Between, Before, AtTop, Fresh, Live
    <2>2. CASE LoadState
      BY <1>3, <2>2 DEF LoadState, Course
    <2>3. CASE Reset
      <3> DEFINE state == [PowerOn EXCEPT !.InterlaceOnSample = ppu.InterlaceOnSample]
      <3>1. InRange(state) /\ Between(state)
        BY DEF PowerOn, InRange, Between, Before, Fresh
      <3> HIDE DEF state
      <3>2. Becomes(state)
        BY <2>3 DEF Reset, state
      <3> QED BY <1>3, <2>3, <3>1, <3>2 DEF Reset, Course
    <2>4. ASSUME NEW s \in {0, 1}, Emulate(s) PROVE Course'
      <3>1. InRange(saved)' /\ Between(saved)'
        BY <2>4 DEF Emulate, StartFrame, Course, InRange, Between, Before, AtTop, Fresh
      <3> QED BY <1>2, <2>4, <3>1 DEF Emulate, Course
    <2> QED BY <1>5, <2>1, <2>2, <2>3, <2>4 DEF UserStep
  <1>6. ASSUME PPU_Update PROVE Course'
    <2>0. ppu \in State /\ elapsed \in Nat
      BY DEF TypeInv, TypeOK
    <2>1. CASE HBlankEnd
      <3> USE <2>1, HBlankEndDoes
      <3> DEFINE line == LineAfter(ppu)
      <3>1. /\ ppu.VBlank \in BOOLEAN /\ ppu.interlace \in BOOLEAN /\ ppu.scanline \in 0 .. Lines
            /\ Begins(ppu) \in BOOLEAN /\ line \in 0 .. Lines
        BY <2>0, LineAfterIs DEF State
      <3>2. /\ ppu'.LinePhase = 0 /\ ppu'.scanline = line
            /\ ppu'.VBlank = (line # 0 /\ (ppu.VBlank \/ Begins(ppu)))
            /\ running /\ running' = ~(IF config.FrameBeginVBlank THEN Begins(ppu) ELSE line = 0)
            /\ elapsed' = elapsed + 1
            /\ UNCHANGED <<SkipFrame, shown, config, pc, skip, saved>>
        OBVIOUS
      <3>3. /\ ~ppu.VBlank => /\ Fresh(ppu) => line = 0 /\ ~Begins(ppu)
                              /\ ~Fresh(ppu) => line = ppu.scanline + 1 /\ ppu.scanline < OverscanLine
                              /\ Begins(ppu) => line >= VBlankLine
            /\ Begins(ppu) => ~ppu.VBlank
        BY NextVisible DEF Course, Begins
      <3>4. ~Begins(ppu) /\ ~ppu.VBlank /\ ~Fresh(ppu) => line < OverscanLine
        BY <3>1 DEF Begins
      <3>5. Fresh(ppu) => ~ppu.VBlank /\ ppu.scanline = Lines - 1
        BY DEF Fresh
      <3> HIDE DEF line
      <3>6. InRange(ppu)'
        BY <3>1, <3>2, <3>3, <3>4 DEF InRange
      <3>7. ~running' => Between(ppu)'
        BY <3>1, <3>2, <3>3 DEF Between, Before, AtTop
      <3>8. ~Fresh(ppu)'
        BY <3>2 DEF Fresh
      <3>9. Before(ppu)' \/ (~Before(ppu) /\ ~ppu.VBlank)
        BY <3>1, <3>2, <3>3 DEF Before
      <3>10. Live' => Live
        BY <2>0, <3>1, <3>2 DEF Live
      <3>11. ~config.FrameBeginVBlank /\ running' /\ elapsed' <= Lines => elapsed' = line
        <4> SUFFICES ASSUME ~config.FrameBeginVBlank, running', elapsed' <= Lines PROVE elapsed' = line
          OBVIOUS
        <4>1. line # 0 /\ elapsed <= Lines - 1
          <5>1. line # 0
            BY <3>2
          <5>2. elapsed + 1 <= Lines
            BY <3>2
          <5> QED BY <2>0, <5>1, <5>2
        <4>2. elapsed = ppu.scanline \/ (Fresh(ppu) /\ elapsed = 0)
          BY <2>0, <3>2, <4>1 DEF Course
        <4>3. ~Fresh(ppu)
          BY <3>3, <3>5, <4>1
        <4>4. ppu.scanline + 1 < Lines => line = ppu.scanline + 1
          BY <2>0, LineAfterIs DEF line
        <4>5. ppu.scanline + 1 = Lines => line = Lines \/ line = 0
          BY <2>0, LineAfterIs DEF line
        <4> QED BY <2>0, <3>1, <3>2, <4>1, <4>2, <4>3, <4>4, <4>5
      <3>12. shown /\ running' /\ Live' => line >= 2 /\ (config.FrameBeginVBlank => ~ppu'.VBlank)
        <4> SUFFICES ASSUME shown, running', Live' PROVE line >= 2 /\ (config.FrameBeginVBlank => ~ppu'.VBlank)
          OBVIOUS
        <4>1. ppu.scanline >= 1 /\ ~Fresh(ppu) /\ (config.FrameBeginVBlank => ~ppu.VBlank)
          BY <3>2, <3>10 DEF Course
        <4>2. CASE config.FrameBeginVBlank
          BY <3>1, <3>2, <3>3, <4>1, <4>2
        <4>3. CASE ~config.FrameBeginVBlank
          <5>1. elapsed' <= Lines
            BY <3>2, <4>3 DEF Live
          <5>2. elapsed = ppu.scanline
            BY <2>0, <3>2, <4>1, <4>3, <5>1 DEF Course
          <5> QED BY <2>0, <3>2, <3>11, <4>1, <4>3, <5>1, <5>2
        <4> QED BY <4>2, <4>3
      <3>13. InRange(saved)' /\ Between(saved)'
        BY <3>2 DEF Course, InRange, Between, Before, AtTop, Fresh
      <3> QED BY <3>1, <3>2, <3>6, <3>7, <3>8, <3>9, <3>11, <3>12, <3>13 DEF Course
    <2>2. CASE LineDrawn
      <3>1. /\ running /\ running' /\ ppu.LinePhase = 0 /\ ppu'.LinePhase = 1
            /\ ppu'.scanline = ppu.scanline /\ ppu'.VBlank = ppu.VBlank
            /\ SkipFrame' = Unseen /\ shown' = (shown \/ (ppu.scanline = 1 /\ Visible(ppu)))
            /\ UNCHANGED <<elapsed, config, pc, skip, saved>>
        BY <2>2, LineDrawnDoes
      <3>2. ~Fresh(ppu) /\ ~Fresh(ppu)'
        BY <3>1 DEF Fresh
      <3>3. InRange(ppu)' /\ InRange(saved)' /\ Between(saved)'
        BY <3>1, <3>2 DEF Course, InRange, Between, Before, AtTop, Fresh
      <3>4. Before(ppu)' \/ ~Before(ppu) \/ (ppu.scanline = 1 /\ ~ppu.VBlank)
        BY <3>1, <3>2 DEF Before
      <3>5. ppu.scanline = 1 /\ ~ppu.VBlank => Visible(ppu)
        BY DEF Visible
      <3>6. pc = "ahead" => skip = -1 /\ (Before(ppu)' \/ Unseen)
        BY <3>1, <3>4, <2>0 DEF Course, Unseen, Before, State
      <3>7. Live' = Live
        BY <3>1 DEF Live
      <3>8. pc = "shown" /\ ~Before(ppu)' => shown'
        BY <3>1, <3>4, <3>5 DEF Course
      <3>9. shown' /\ Live => ppu.scanline >= 1 /\ (config.FrameBeginVBlank => ~ppu.VBlank)
        <4>1. CASE shown
          BY <3>1, <4>1 DEF Course
        <4>2. CASE ppu.scanline = 1 /\ Visible(ppu)
          BY <4>2 DEF Visible
        <4> QED BY <3>1, <4>1, <4>2
      <3> QED BY <3>1, <3>2, <3>3, <3>6, <3>7, <3>8, <3>9 DEF Course
    <2>3. ASSUME /\ running /\ running' /\ ppu.LinePhase \in {1, 2} /\ ppu'.LinePhase = ppu.LinePhase + 1
                 /\ ppu'.scanline = ppu.scanline /\ ppu'.VBlank = ppu.VBlank /\ ppu'.interlace = ppu.interlace
                 /\ UNCHANGED <<SkipFrame, shown, elapsed, config, pc, skip, saved>>
          PROVE  Course'
      <3>1. ppu.scanline \in 0 .. Lines /\ ~Fresh(ppu)
        BY <2>0, <2>3 DEF Fresh, State
      <3>2. ppu.VBlank \/ ppu.scanline < OverscanLine
        BY <3>1 DEF Course, InRange
      <3>3. ~Fresh(ppu)'
        BY <2>3, <3>1, <3>2 DEF Fresh
      <3>4. Before(ppu)' = Before(ppu)
        BY <2>3, <3>1, <3>3 DEF Before
      <3>5. InRange(ppu)' /\ InRange(saved)' /\ Between(saved)'
        BY <2>3, <3>2 DEF Course, InRange, Between, Before, AtTop, Fresh
      <3>6. Live' = Live
        BY <2>3 DEF Live
      <3> QED BY <2>3, <3>1, <3>3, <3>4, <3>5, <3>6 DEF Course
    <2>4. CASE MemoryRefresh
      BY <2>3, <2>4, MemoryRefreshDoes
    <2>5. CASE HBlankBegin
      BY <2>3, <2>5, HBlankBeginDoes
    <2> QED BY <1>6, <2>1, <2>2, <2>4, <2>5 DEF PPU_Update
  <1>7. ASSUME NEW i \in BOOLEAN, NEW o \in BOOLEAN, Write_ScreenMode(i, o) PROVE Course'
    <2>1. /\ running /\ running' /\ ppu'.LinePhase = ppu.LinePhase /\ ppu'.scanline = ppu.scanline
          /\ ppu'.VBlank = ppu.VBlank /\ UNCHANGED <<SkipFrame, shown, elapsed, config, pc, skip, saved>>
      BY <1>7, ScreenModeDoes
    <2>2. ~Fresh(ppu) /\ ~Fresh(ppu)'
      BY <1>7, <2>1, ScreenModeDoes DEF Fresh, JustReset
    <2>3. Before(ppu)' = Before(ppu) /\ InRange(ppu)'
      BY <2>1, <2>2 DEF Before, InRange, Course
    <2>4. InRange(saved)' /\ Between(saved)' /\ Live' = Live
      BY <2>1 DEF Course, InRange, Between, Before, AtTop, Fresh, Live
    <2> QED BY <2>1, <2>2, <2>3, <2>4 DEF Course
  <1>8. ASSUME RenderStep PROVE Course'
    <2>1. UNCHANGED emulation
      BY <1>8 DEF RenderStep, ResetLineTarget, RenderLine, EnterVBlank, FetchSpriteData, SetMode, Take
    <2> QED BY <1>1, <2>1 DEF emulation
  <1>9. CASE UNCHANGED vars
    BY <1>1, <1>9 DEF vars, emulation
  <1> QED BY <1>4, <1>5, <1>6, <1>7, <1>8, <1>9 DEF Next

----------------------------------------------------------------------------
(* Whose commands are under way.                                           *)

Draws(c) == c.kind = "line" \/ (c.kind = "vblank" /\ ~c.arg)
OwnEntries(q, f) == \A i \in 1 .. Len(q) : UsesEs(q[i]) => q[i].frame = f
Unused(q) == \A i \in 1 .. Len(q) : ~UsesEs(q[i])
Undrawn(q) == \A i \in 1 .. Len(q) : ~Draws(q[i])
HasReset(q) == \E i \in 1 .. Len(q) : q[i].kind = "reset"
\* The line target is reset, done says, or will be before anything is drawn.
ResetFirst(q, done) ==
  \A i \in 1 .. Len(q) : Draws(q[i]) => done \/ \E j \in 1 .. i - 1 : q[j].kind = "reset"

Owned ==
  /\ rEs = es /\ OwnEntries(queue, es)
  /\ pc = "idle" => queue = <<>>
  /\ pc = "ahead" => Unused(queue)
  /\ ~shown => Undrawn(queue)
  /\ ResetFirst(queue, rReset = rEs)
  /\ pc = "shown" /\ ~Before(ppu) /\ ~SkipFrame => rReset = rEs \/ HasReset(queue)

LEMMA OwnAppended ==
  ASSUME NEW q \in Seq(Commands), NEW c \in Commands, NEW f
  PROVE  LET r == Append(q, c)
         IN /\ OwnEntries(q, f) /\ (UsesEs(c) => c.frame = f) => OwnEntries(r, f)
            /\ Unused(q) /\ ~UsesEs(c) => Unused(r)
            /\ Undrawn(q) /\ ~Draws(c) => Undrawn(r)
            /\ HasReset(q) \/ c.kind = "reset" => HasReset(r)
            /\ \A d \in BOOLEAN : ResetFirst(q, d) /\ (Draws(c) => d \/ HasReset(q)) => ResetFirst(r, d)
  <1> DEFINE r == Append(q, c)
  <1>1. /\ Len(r) = Len(q) + 1 /\ Len(q) \in Nat /\ r[Len(q) + 1] = c
        /\ \A i \in 1 .. Len(q) : r[i] = q[i]
    BY Appended
  <1>2. \A i \in 1 .. Len(r) : i \in 1 .. Len(q) \/ i = Len(q) + 1
    BY <1>1
  <1> HIDE DEF r
  <1>3. OwnEntries(q, f) /\ (UsesEs(c) => c.frame = f) => OwnEntries(r, f)
    BY <1>1, <1>2 DEF OwnEntries
  <1>4. Unused(q) /\ ~UsesEs(c) => Unused(r)
    BY <1>1, <1>2 DEF Unused
  <1>5. Undrawn(q) /\ ~Draws(c) => Undrawn(r)
    BY <1>1, <1>2 DEF Undrawn
  <1>6. HasReset(q) \/ c.kind = "reset" => HasReset(r)
    BY <1>1 DEF HasReset
  <1>7. ASSUME NEW d \in BOOLEAN, ResetFirst(q, d), Draws(c) => d \/ HasReset(q)
        PROVE  ResetFirst(r, d)
    <2> SUFFICES ASSUME NEW i \in 1 .. Len(r), Draws(r[i]), ~d
                 PROVE  \E j \in 1 .. i - 1 : r[j].kind = "reset"
      BY DEF ResetFirst
    <2>1. CASE i \in 1 .. Len(q)
      BY <1>1, <1>7, <2>1 DEF ResetFirst
    <2>2. CASE i = Len(q) + 1
      BY <1>1, <1>7, <2>2 DEF HasReset
    <2> QED BY <1>2, <2>1, <2>2
  <1> QED BY <1>3, <1>4, <1>5, <1>6, <1>7 DEF r

LEMMA OwnRemoved ==
  ASSUME NEW q \in Seq(Commands), q # <<>>, NEW f
  PROVE  LET r == Tail(q)
         IN /\ OwnEntries(q, f) => OwnEntries(r, f) /\ (UsesEs(Head(q)) => Head(q).frame = f)
            /\ Unused(q) => Unused(r)
            /\ Undrawn(q) => Undrawn(r)
            /\ HasReset(q) /\ Head(q).kind # "reset" => HasReset(r)
            /\ \A d \in BOOLEAN : ResetFirst(q, d) /\ Head(q).kind # "reset" => ResetFirst(r, d)
            /\ ResetFirst(r, TRUE)
            /\ \A d \in BOOLEAN : ResetFirst(q, d) /\ Draws(Head(q)) => d
  <1> DEFINE r == Tail(q)
  <1>1. /\ Len(r) = Len(q) - 1 /\ Len(q) \in Nat \ {0} /\ Head(q) = q[1]
        /\ \A i \in 1 .. Len(q) - 1 : r[i] = q[i + 1]
    BY Removed
  <1>2. \A i \in 1 .. Len(r) : i + 1 \in 1 .. Len(q) /\ r[i] = q[i + 1]
    BY <1>1
  <1> HIDE DEF r
  <1>3. OwnEntries(q, f) => OwnEntries(r, f) /\ (UsesEs(Head(q)) => Head(q).frame = f)
    BY <1>1, <1>2 DEF OwnEntries
  <1>4. Unused(q) => Unused(r)
    BY <1>1, <1>2 DEF Unused
  <1>5. Undrawn(q) => Undrawn(r)
    BY <1>1, <1>2 DEF Undrawn
  <1>6. ASSUME HasReset(q), Head(q).kind # "reset" PROVE HasReset(r)
    <2>1. PICK j \in 1 .. Len(q) : q[j].kind = "reset"
      BY <1>6 DEF HasReset
    <2>2. j - 1 \in 1 .. Len(r) /\ r[j - 1] = q[j]
      BY <1>1, <1>6, <2>1
    <2> QED BY <2>1, <2>2 DEF HasReset
  <1>7. ASSUME NEW d \in BOOLEAN, ResetFirst(q, d), Head(q).kind # "reset" PROVE ResetFirst(r, d)
    <2> SUFFICES ASSUME NEW i \in 1 .. Len(r), Draws(r[i]), ~d
                 PROVE  \E j \in 1 .. i - 1 : r[j].kind = "reset"
      BY DEF ResetFirst
    <2>1. PICK j \in 1 .. i : q[j].kind = "reset"
      BY <1>2, <1>7 DEF ResetFirst
    <2>2. j # 1
      BY <1>1, <1>7, <2>1
    <2>3. j - 1 \in 1 .. i - 1 /\ r[j - 1] = q[j]
      <3>1. j - 1 \in 1 .. Len(r) /\ (j - 1) + 1 = j
        BY <1>1, <2>1, <2>2
      <3> QED BY <1>2, <2>1, <3>1
    <2> QED BY <2>1, <2>3
  <1>8. ResetFirst(r, TRUE)
    BY DEF ResetFirst
  <1>9. \A d \in BOOLEAN : ResetFirst(q, d) /\ Draws(Head(q)) => d
    BY <1>1 DEF ResetFirst
  <1> QED BY <1>3, <1>4, <1>5, <1>6, <1>7, <1>8, <1>9 DEF r

\* Nothing is drawn of a frame that has not come to its first line, nor of one
\* that is run ahead.
LEMMA DrawsInPicture ==
  ASSUME TypeInv, Course, running
  PROVE  /\ Begins(ppu) /\ ppu.LinePhase = 3 => ~Before(ppu)
         /\ Visible(ppu) /\ ppu.LinePhase = 0 /\ ppu.scanline # 1 => ~Before(ppu)
         /\ pc \in {"ahead", "shown"}
         /\ pc = "ahead" /\ Begins(ppu) /\ ppu.LinePhase = 3 => SkipFrame
         /\ pc = "ahead" /\ ppu.LinePhase = 0 /\ (Visible(ppu) \/ ppu.scanline = 1) => Unseen
  <1>1. ppu \in State
    BY DEF TypeInv, TypeOK
  <1>2. Begins(ppu) => LineAfter(ppu) >= VBlankLine /\ ~ppu.VBlank /\ ~Fresh(ppu) /\ LineAfter(ppu) = ppu.scanline + 1
    BY NextVisible DEF Course, Begins
  <1>3. Begins(ppu) /\ ppu.LinePhase = 3 => ~Before(ppu)
    BY <1>1, <1>2, LinesAssumption DEF Before, State
  <1>4. Visible(ppu) /\ ppu.LinePhase = 0 /\ ppu.scanline # 1 => ~Before(ppu)
    BY DEF Visible, Before, Fresh
  <1>5. pc \in {"ahead", "shown"}
    BY DEF Course, TypeInv, TypeOK
  <1> QED BY <1>3, <1>4, <1>5 DEF Course, Unseen

LEMMA OwnedInitially == Init => Owned
  BY DEF Init, Owned, OwnEntries, Unused, Undrawn, ResetFirst, HasReset, Before, PowerOn, Earlier, Fresh

LEMMA OwnedInductive == TypeInv /\ Course /\ Owned /\ [Next]_vars => Owned'
  <1> SUFFICES ASSUME TypeInv, Course, Owned, [Next]_vars PROVE Owned'
    OBVIOUS
  <1>0. queue \in Seq(Commands) /\ Course' /\ TypeInv'
    BY CourseInductive, TypeInductive DEF TypeInv, QueueOK
  <1>1. ASSUME NEW where \in {"ahead", "shown"}, NEW s, StartFrame(where, s), pc \in {"idle", "ahead"},
               ~running, UNCHANGED ppu
        PROVE  Owned'
    <2>1. Unused(queue)
      BY <1>1 DEF Owned, Unused
    <2>2. UNCHANGED <<queue, ppu, SkipFrame, rReset>> /\ rEs' = es' /\ pc' = where
      BY <1>1 DEF StartFrame
    <2>3. Before(ppu)'
      BY <1>1, <2>2 DEF Course, Between, Before, Fresh
    <2> QED BY <2>1, <2>2, <2>3 DEF Owned, OwnEntries, Unused, Undrawn, ResetFirst, UsesEs, Draws
  <1>2. ASSUME UNCHANGED <<rEs, es, queue, shown, rReset>>, ~running', pc \in {"idle", "sync", "shown"}, pc' # "ahead",
               pc' = "idle" => queue = <<>>
        PROVE  Owned'
    <2>1. Before(ppu)'
      BY <1>0, <1>2 DEF Course, Between
    <2> QED BY <1>2, <2>1 DEF Owned, OwnEntries, Undrawn, ResetFirst
  <1>3. ASSUME EmulateStep PROVE Owned'
    <2>1. CASE EndReal
      BY <1>2, <2>1 DEF EndReal, renderer
    <2>2. CASE Sync
      BY <1>2, <2>2 DEF Sync, Becomes, Course
    <2>3. ASSUME NEW s \in {0, 1}, Ahead(s) PROVE Owned'
      BY <1>1, <2>3 DEF Ahead
    <2> QED BY <1>3, <2>1, <2>2, <2>3 DEF EmulateStep
  <1>4. ASSUME UserStep PROVE Owned'
    <2>1. pc = "idle" /\ ~running /\ queue = <<>>
      BY <1>4 DEF UserStep, SaveState, LoadState, Reset, Emulate, Course, Owned
    <2>2. CASE SaveState
      BY <1>2, <2>1, <2>2 DEF SaveState, renderer
    <2>3. CASE LoadState
      BY <1>2, <2>1, <2>3 DEF LoadState, Becomes
    <2>4. CASE Reset
      BY <1>2, <2>1, <2>4 DEF Reset, Becomes
    <2>5. ASSUME NEW s \in {0, 1}, Emulate(s) PROVE Owned'
      BY <1>1, <2>1, <2>5 DEF Emulate
    <2> QED BY <1>4, <2>2, <2>3, <2>4, <2>5 DEF UserStep
  <1>5. (rReset = rEs) \in BOOLEAN
    OBVIOUS
  <1>6. ASSUME PPU_Update PROVE Owned'
    <2>1. CASE HBlankEnd
      <3> DEFINE c == Command("vblank", SkipFrame)
      <3>1. /\ running /\ ppu.LinePhase = 3 /\ c \in Commands
            /\ queue' = IF Begins(ppu) THEN Append(queue, c) ELSE queue
            /\ UNCHANGED <<SkipFrame, shown, pc, es, rEs, rReset>>
        BY <2>1, HBlankEndDoes DEF renderer
      <3>2. c.frame = es /\ c.kind = "vblank" /\ c.arg = SkipFrame
        BY DEF Command
      <3> HIDE DEF c
      <3>3. ~Before(ppu)' /\ ~Begins(ppu) => ~Before(ppu)
        <4> SUFFICES ASSUME ~Before(ppu)', ~Begins(ppu), Before(ppu) PROVE FALSE
          OBVIOUS
        <4>1. /\ ppu'.LinePhase = 0 /\ ppu'.scanline = LineAfter(ppu)
              /\ ppu'.VBlank = (LineAfter(ppu) # 0 /\ (ppu.VBlank \/ Begins(ppu)))
          BY <2>1, HBlankEndDoes
        <4>2. ~ppu.VBlank /\ LineAfter(ppu) # 0 /\ LineAfter(ppu) # 1
          BY <4>1 DEF Before
        <4>3. Fresh(ppu) \/ ppu.scanline = 0
          BY <3>1, <4>2 DEF Before
        <4> QED BY <4>2, <4>3, NextVisible DEF Course
      <3>4. CASE ~Begins(ppu)
        BY <3>1, <3>3, <3>4 DEF Owned
      <3>5. CASE Begins(ppu)
        <4>1. ~Before(ppu) /\ (pc = "ahead" => SkipFrame) /\ pc \in {"ahead", "shown"}
          BY <3>1, <3>5, DrawsInPicture
        <4>2. UsesEs(c) <=> ~SkipFrame
          BY <3>2 DEF UsesEs
        <4>3. Draws(c) <=> ~SkipFrame
          BY <3>2 DEF Draws
        <4>4. ~SkipFrame => pc = "shown" /\ shown /\ (rReset = rEs \/ HasReset(queue))
          BY <3>1, <4>1 DEF Owned, Course
        <4>5. queue' = Append(queue, c)
          BY <3>1, <3>5
        <4>6. OwnEntries(queue', es) /\ (pc = "ahead" => Unused(queue')) /\ (~shown => Undrawn(queue'))
          BY <1>0, <3>1, <3>2, <4>1, <4>2, <4>3, <4>4, <4>5, OwnAppended DEF Owned
        <4>7. ResetFirst(queue', rReset = rEs) /\ (HasReset(queue) => HasReset(queue'))
          BY <1>0, <1>5, <3>1, <4>3, <4>4, <4>5, OwnAppended DEF Owned
        <4> QED BY <3>1, <4>1, <4>4, <4>6, <4>7 DEF Owned
      <3> QED BY <3>4, <3>5
    <2>2. CASE LineDrawn
      <3> DEFINE reset == Command("reset", 0)
                 line  == Command("line", ppu.scanline)
                 first == ppu.scanline = 1 /\ ~Unseen
                 with  == IF first THEN Append(queue, reset) ELSE queue
      <3>1. /\ running /\ ppu.LinePhase = 0 /\ ppu'.LinePhase = 1
            /\ ppu'.scanline = ppu.scanline /\ ppu'.VBlank = ppu.VBlank
            /\ SkipFrame' = Unseen
            /\ queue' = IF Visible(ppu) /\ ~Unseen THEN Append(with, line) ELSE with
            /\ shown' = (shown \/ (ppu.scanline = 1 /\ Visible(ppu)))
            /\ reset \in Commands /\ (Visible(ppu) => line \in Commands)
            /\ UNCHANGED <<pc, es, rEs, rReset>>
        BY <2>2, LineDrawnDoes DEF renderer
      <3>2. /\ reset.frame = es /\ reset.kind = "reset" /\ line.frame = es /\ line.kind = "line"
            /\ ~Draws(reset) /\ Draws(line)
        BY DEF Command, Draws
      <3>3. with \in Seq(Commands)
        BY <1>0, <3>1, Appended
      <3> HIDE DEF reset, line
      <3>4. pc = "ahead" => ~first /\ (Visible(ppu) => Unseen)
        BY <3>1, DrawsInPicture
      <3>5. /\ OwnEntries(with, es) /\ (pc = "ahead" => Unused(with)) /\ (~shown => Undrawn(with))
            /\ ResetFirst(with, rReset = rEs) /\ (first \/ HasReset(queue) => HasReset(with))
        <4>1. CASE first
          <5>1. with = Append(queue, reset)
            BY <4>1
          <5> HIDE DEF with
          <5> QED BY <1>0, <1>5, <3>1, <3>2, <3>4, <4>1, <5>1, OwnAppended DEF Owned
        <4>2. CASE ~first
          BY <4>2 DEF Owned
        <4> QED BY <4>1, <4>2
      <3>6. ~Before(ppu)' /\ ~Unseen /\ pc = "shown" => first \/ rReset = rEs \/ HasReset(queue)
        BY <3>1 DEF Owned, Before, Fresh, Unseen
      <3>7. Visible(ppu) /\ ~Unseen => shown' /\ pc = "shown" /\ ~Before(ppu)'
        <4> SUFFICES ASSUME Visible(ppu), ~Unseen PROVE shown' /\ pc = "shown" /\ ~Before(ppu)'
          OBVIOUS
        <4>1. pc = "shown"
          BY <3>1, <3>4, DrawsInPicture
        <4>2. ~Before(ppu)'
          BY <3>1 DEF Before, Visible, Fresh
        <4> QED BY <1>0, <3>1, <4>1, <4>2, DrawsInPicture DEF Course
      <3> HIDE DEF first, with
      <3>8. CASE Visible(ppu) /\ ~Unseen
        <4>1. queue' = Append(with, line) /\ line \in Commands
          BY <3>1, <3>8
        <4>2. OwnEntries(queue', es)
          BY <3>2, <3>3, <3>5, <4>1, OwnAppended
        <4>3. rReset = rEs \/ HasReset(with)
          BY <3>5, <3>6, <3>7, <3>8
        <4>4. ResetFirst(queue', rReset = rEs) /\ (HasReset(with) => HasReset(queue'))
          BY <1>5, <3>3, <3>5, <4>1, <4>3, OwnAppended
        <4> QED BY <3>1, <3>7, <3>8, <4>2, <4>3, <4>4 DEF Owned
      <3>9. CASE ~(Visible(ppu) /\ ~Unseen)
        BY <3>1, <3>5, <3>6, <3>9, DrawsInPicture DEF Owned
      <3> QED BY <3>8, <3>9
    <2>3. CASE MemoryRefresh
      <3>1. Before(ppu) => Before(ppu)'
        BY <2>3, MemoryRefreshDoes DEF Before, Fresh
      <3> QED BY <2>3, <3>1, MemoryRefreshDoes DEF Owned, renderer
    <2>4. CASE HBlankBegin
      <3> DEFINE c == Command("fetch", ppu.scanline)
      <3>1. /\ c \in Commands /\ UNCHANGED <<pc, es, rEs, rReset, shown, SkipFrame>>
            /\ queue' = IF ~ppu.VBlank /\ ~SkipFrame THEN Append(queue, c) ELSE queue
        BY <2>4, HBlankBeginDoes DEF renderer
      <3>2. ~UsesEs(c) /\ ~Draws(c)
        BY DEF Command, UsesEs, Draws
      <3>3. Before(ppu) => Before(ppu)'
        BY <2>4, HBlankBeginDoes DEF Before, Fresh
      <3>4. running
        BY <2>4, HBlankBeginDoes
      <3> HIDE DEF c
      <3>5. /\ OwnEntries(queue', es) /\ (pc = "ahead" => Unused(queue')) /\ (~shown => Undrawn(queue'))
            /\ ResetFirst(queue', rReset = rEs) /\ (HasReset(queue) => HasReset(queue'))
        BY <1>0, <1>5, <3>1, <3>2, OwnAppended DEF Owned
      <3> QED BY <3>1, <3>3, <3>4, <3>5, DrawsInPicture DEF Owned
    <2> QED BY <1>6, <2>1, <2>2, <2>3, <2>4 DEF PPU_Update
  <1>7. ASSUME NEW i \in BOOLEAN, NEW o \in BOOLEAN, Write_ScreenMode(i, o) PROVE Owned'
    <2> DEFINE c == Command("mode", o)
    <2>1. /\ c \in Commands /\ UNCHANGED <<pc, es, rEs, rReset, shown, SkipFrame>> /\ queue' = Append(queue, c)
          /\ running
      BY <1>7, ScreenModeDoes DEF renderer
    <2>2. ~UsesEs(c) /\ ~Draws(c)
      BY DEF Command, UsesEs, Draws
    <2>3. Before(ppu) => Before(ppu)'
      BY <1>7, ScreenModeDoes DEF Before, Fresh, JustReset
    <2> HIDE DEF c
    <2>4. /\ OwnEntries(queue', es) /\ (pc = "ahead" => Unused(queue')) /\ (~shown => Undrawn(queue'))
          /\ ResetFirst(queue', rReset = rEs) /\ (HasReset(queue) => HasReset(queue'))
      BY <1>0, <1>5, <2>1, <2>2, OwnAppended DEF Owned
    <2> QED BY <2>1, <2>3, <2>4, DrawsInPicture DEF Owned
  <1>8. ASSUME RenderStep PROVE Owned'
    <2>1. queue # <<>> /\ queue' = Tail(queue) /\ UNCHANGED <<pc, es, rEs, shown, ppu, SkipFrame>>
      BY <1>8 DEF RenderStep, ResetLineTarget, RenderLine, EnterVBlank, FetchSpriteData, SetMode, Take, emulation
    <2>2. /\ OwnEntries(queue', es) /\ (pc = "ahead" => Unused(queue')) /\ (~shown => Undrawn(queue')) /\ pc # "idle"
      BY <1>0, <2>1, OwnRemoved DEF Owned
    <2>3. Before(ppu)' = Before(ppu)
      BY <2>1 DEF Before, Fresh
    <2>4. CASE ResetLineTarget
      <3>1. Head(queue).kind = "reset" /\ rReset' = Head(queue).frame
        BY <2>4 DEF ResetLineTarget, Take
      <3>2. rReset' = rEs'
        BY <1>0, <2>1, <3>1, OwnRemoved DEF Owned, UsesEs
      <3>3. ResetFirst(queue', rReset' = rEs')
        BY <1>0, <2>1, <3>2, OwnRemoved DEF ResetFirst
      <3> QED BY <2>1, <2>2, <3>2, <3>3 DEF Owned
    <2>5. CASE ~ResetLineTarget
      <3>1. Head(queue).kind # "reset" /\ rReset' = rReset
        BY <1>8, <2>5 DEF RenderStep, RenderLine, EnterVBlank, FetchSpriteData, SetMode, Take
      <3>2. ResetFirst(queue', rReset = rEs) /\ (HasReset(queue) => HasReset(queue'))
        BY <1>0, <1>5, <2>1, <3>1, OwnRemoved DEF Owned
      <3> QED BY <2>1, <2>2, <2>3, <3>1, <3>2 DEF Owned
    <2> QED BY <2>4, <2>5
  <1>9. CASE UNCHANGED vars
    BY <1>9 DEF vars, emulation, renderer, Owned, OwnEntries, Unused, Undrawn, ResetFirst, HasReset, Before, Fresh
  <1> QED BY <1>3, <1>4, <1>6, <1>7, <1>8, <1>9 DEF Next

\* The renderer draws into the surface of the frame its commands belong to
\* (PPU_StartFrame, ppu_mtrender.cpp), whatever is still under way when a frame
\* that was run ahead ends and the next one starts.
THEOREM OwnSurface == Spec => []OwnFrame
  <1>1. TypeInv /\ Owned => OwnFrame
    <2> SUFFICES ASSUME TypeInv, Owned, queue # <<>>, UsesEs(Head(queue))
                 PROVE  rEs = Head(queue).frame /\ (Head(queue).kind # "reset" => rReset = rEs)
      BY DEF OwnFrame
    <2>1. rEs = Head(queue).frame
      BY OwnRemoved DEF Owned, TypeInv, QueueOK
    <2>2. Head(queue).kind # "reset" => Draws(Head(queue))
      BY DEF UsesEs, Draws
    <2>3. ResetFirst(queue, rReset = rEs) /\ (rReset = rEs) \in BOOLEAN
      BY DEF Owned
    <2>4. Draws(Head(queue)) => rReset = rEs
      BY <2>3, OwnRemoved DEF TypeInv, QueueOK
    <2> QED BY <2>1, <2>2, <2>4
  <1> QED
    BY <1>1, TypeInitially, TypeInductive, CourseInitially, CourseInductive, OwnedInitially, OwnedInductive,
       PTL DEF Spec

----------------------------------------------------------------------------
(* The sprites of a line.                                                  *)

\* Where a frame of the setting that begins in VBlank starts.
Starting(s) == config.FrameBeginVBlank => (s.VBlank /\ s.scanline \in VBlankLine .. OverscanLine) \/ Fresh(s)
\* More lines than the frame's one field has begun: line 0 was missed.
Late(s, n) == IF s.VBlank THEN n > s.scanline ELSE n > Lines + s.scanline
Timely == running /\ ~Late(ppu, elapsed) /\ (ppu.VBlank => config.FrameBeginVBlank)

\* Until line 1 SkipFrame is what the frame before left.
Timed ==
  /\ Starting(saved) /\ (~running => Starting(ppu))
  /\ running /\ shown =>
       ppu.scanline >= 1 /\ ~Fresh(ppu) /\ (~ppu.VBlank => ~(ppu.scanline = 1 /\ ppu.LinePhase = 0))
  /\ Timely => /\ ppu.VBlank => ppu.scanline - elapsed \in VBlankLine .. OverscanLine
               /\ ~shown => SkipFrame = before
  /\ pc = "ahead" => \A i \in 1 .. Len(queue) : queue[i].frame = es

LEMMA TimedInitially == Init => Timed
  <1> SUFFICES ASSUME Init PROVE Timed
    OBVIOUS
  <1>1. Fresh(PowerOn)
    BY DEF PowerOn, Fresh
  <1>2. config.FrameBeginVBlank => Starting(Earlier(config.FrameBeginVBlank))
    BY LinesAssumption DEF Starting, Earlier
  <1>3. Starting(saved) /\ Starting(ppu)
    BY <1>1, <1>2 DEF Init, Starting
  <1>4. ~running /\ pc = "idle"
    BY DEF Init
  <1> QED BY <1>3, <1>4 DEF Timed, Timely

\* A line begun in time is begun by one that was.
LEMMA StillTimely ==
  ASSUME TypeInv, Course, Timed, HBlankEnd, Timely'
  PROVE  Timely /\ (ppu'.VBlank => ppu'.scanline - elapsed' \in VBlankLine .. OverscanLine)
  <1> USE LinesAssumption
  <1>0. ppu \in State /\ ppu.scanline \in 0 .. Lines /\ elapsed \in Nat
    BY DEF TypeInv, TypeOK, State
  <1>1. /\ running /\ ppu.LinePhase = 3 /\ ppu'.LinePhase = 0 /\ ppu'.scanline = LineAfter(ppu)
        /\ ppu'.VBlank = (LineAfter(ppu) # 0 /\ (ppu.VBlank \/ Begins(ppu)))
        /\ running' = ~(IF config.FrameBeginVBlank THEN Begins(ppu) ELSE LineAfter(ppu) = 0)
        /\ elapsed' = elapsed + 1 /\ UNCHANGED config
    BY HBlankEndDoes
  <1>2. ~ppu.VBlank =>
          IF Fresh(ppu) THEN LineAfter(ppu) = 0 /\ ~Begins(ppu)
          ELSE LineAfter(ppu) = ppu.scanline + 1 /\ ppu.scanline < OverscanLine
    BY NextVisible DEF Course
  <1>3. LineAfter(ppu) \in 0 .. Lines
    BY <1>0, LineAfterIs
  <1>4. CASE ~ppu'.VBlank
    <2>1. elapsed + 1 <= Lines + LineAfter(ppu)
      BY <1>0, <1>1, <1>3, <1>4 DEF Timely, Late
    <2>2. CASE ~ppu.VBlank
      <3>1. elapsed <= Lines + ppu.scanline
        BY <1>0, <1>2, <1>3, <2>1, <2>2
      <3> QED BY <1>0, <1>1, <1>4, <2>2, <3>1 DEF Timely, Late
    <2>3. CASE ppu.VBlank
      <3>1. LineAfter(ppu) = 0
        BY <1>1, <1>4, <2>3
      <3>2. ppu.scanline >= Lines - 1
        BY <1>0, <3>1, LineAfterIs
      <3>3. config.FrameBeginVBlank
        BY <1>1, <3>1 DEF Timely
      <3> QED BY <1>0, <1>1, <1>4, <2>1, <2>3, <3>1, <3>2, <3>3 DEF Timely, Late
    <2> QED BY <2>2, <2>3
  <1>5. CASE ppu'.VBlank
    <2>1. config.FrameBeginVBlank /\ ~Begins(ppu)
      BY <1>1, <1>5 DEF Timely
    <2>2. ppu.VBlank /\ LineAfter(ppu) # 0 /\ elapsed + 1 <= LineAfter(ppu)
      <3>1. ppu.VBlank /\ LineAfter(ppu) # 0
        BY <1>1, <1>5, <2>1
      <3>2. ~(elapsed' > ppu'.scanline)
        BY <1>5 DEF Timely, Late
      <3> QED BY <1>0, <1>1, <1>3, <3>1, <3>2
    <2>3. LineAfter(ppu) = ppu.scanline + 1 \/ (ppu.scanline = Lines /\ LineAfter(ppu) = 1)
      BY <1>0, <2>2, LineAfterIs
    <2>4. elapsed <= ppu.scanline
      BY <1>0, <2>2, <2>3
    <2>5. Timely
      BY <1>0, <1>1, <2>1, <2>2, <2>4 DEF Timely, Late
    <2>6. ppu.scanline - elapsed \in VBlankLine .. OverscanLine
      BY <2>2, <2>5 DEF Timed
    <2>7. LineAfter(ppu) = ppu.scanline + 1
      BY <1>0, <2>2, <2>3, <2>6
    <2> QED BY <1>0, <1>1, <2>5, <2>6, <2>7
  <1> QED BY <1>4, <1>5

LEMMA TimedInductive == TypeInv /\ Course /\ Owned /\ Timed /\ [Next]_vars => Timed'
  <1> SUFFICES ASSUME TypeInv, Course, Owned, Timed, [Next]_vars PROVE Timed'
    OBVIOUS
  <1> USE LinesAssumption
  <1>0. /\ queue \in Seq(Commands) /\ ppu \in State /\ ppu.scanline \in 0 .. Lines /\ elapsed \in Nat
    BY DEF TypeInv, QueueOK, TypeOK, State
  <1>1. ASSUME UNCHANGED <<config, saved, running, ppu, elapsed, shown, SkipFrame, before, es>>,
               pc' = "ahead" => pc = "ahead" /\ (queue' = queue \/ (queue' = Tail(queue) /\ queue # <<>>))
        PROVE  Timed'
    <2>1. UNCHANGED <<Starting(saved), Starting(ppu), Fresh(ppu), Timely>>
      BY <1>1 DEF Starting, Fresh, Timely, Late
    <2>2. ASSUME pc' = "ahead" PROVE \A i \in 1 .. Len(queue') : queue'[i].frame = es'
      <3>1. \A i \in 1 .. Len(queue) : queue[i].frame = es
        BY <1>1, <2>2 DEF Timed
      <3>2. CASE queue' = queue
        BY <1>1, <3>1, <3>2
      <3>3. CASE queue' = Tail(queue) /\ queue # <<>>
        <4>1. Len(queue') = Len(queue) - 1 /\ \A i \in 1 .. Len(queue) - 1 : queue'[i] = queue[i + 1]
          BY <1>0, <3>3, Removed
        <4>2. Len(queue) \in Nat
          BY <1>0
        <4> QED BY <1>1, <3>1, <4>1, <4>2
      <3> QED BY <1>1, <2>2, <3>2, <3>3
    <2> QED BY <1>1, <2>1, <2>2 DEF Timed
  <1>2. ASSUME ~running', UNCHANGED config, Starting(saved)', Starting(ppu)', pc' # "ahead" PROVE Timed'
    BY <1>2 DEF Timed, Timely
  <1>3. ASSUME NEW where \in {"ahead", "shown"}, NEW s, StartFrame(where, s), UNCHANGED ppu, ~running, Starting(saved)',
               where = "ahead" => queue = <<>>
        PROVE  Timed'
    <2>1. /\ pc' = where /\ running' /\ elapsed' = 0 /\ ~shown' /\ before' = SkipFrame
          /\ UNCHANGED <<config, SkipFrame, queue>>
      BY <1>3 DEF StartFrame
    <2>2. Starting(ppu) /\ Between(ppu)
      BY <1>3 DEF Timed, Course
    <2>3. ppu.VBlank /\ config.FrameBeginVBlank => ppu.scanline \in VBlankLine .. OverscanLine
      BY <2>2 DEF Starting, Fresh
    <2>4. Timely' => (ppu.VBlank => ppu.scanline - elapsed' \in VBlankLine .. OverscanLine)
      BY <1>0, <1>3, <2>1, <2>3 DEF Timely
    <2>5. pc' = "ahead" => Len(queue') = 0
      BY <1>3, <2>1
    <2> QED BY <1>3, <2>1, <2>4, <2>5 DEF Timed
  <1>4. CASE EmulateStep
    <2>1. CASE EndReal
      BY <1>1, <2>1 DEF EndReal, renderer
    <2>2. CASE Sync
      <3>1. ~running
        BY <2>2 DEF Sync, Course
      <3>2. /\ UNCHANGED <<config, running, saved>> /\ pc' = "idle" /\ (ppu' = saved \/ ppu' = ppu)
        BY <2>2 DEF Sync, Becomes
      <3>3. Starting(saved)' /\ Starting(ppu)'
        BY <3>1, <3>2 DEF Timed, Starting, Fresh
      <3> QED BY <1>2, <3>1, <3>2, <3>3
    <2>3. ASSUME NEW s \in {0, 1}, Ahead(s) PROVE Timed'
      <3>1. ~running /\ saved' = ppu /\ UNCHANGED <<ppu, config>> /\ StartFrame("shown", s)
        BY <2>3 DEF Ahead, StartFrame
      <3>2. Starting(saved)'
        BY <3>1 DEF Timed, Starting, Fresh
      <3> QED BY <1>3, <3>1, <3>2
    <2> QED BY <1>4, <2>1, <2>2, <2>3 DEF EmulateStep
  <1>5. CASE UserStep
    <2>1. CASE SaveState
      <3>1. ~running /\ saved' = ppu /\ UNCHANGED <<config, running, ppu, pc>> /\ pc = "idle"
        BY <2>1 DEF SaveState, Course
      <3>2. Starting(saved)' /\ Starting(ppu)'
        BY <3>1 DEF Timed, Starting, Fresh
      <3> QED BY <1>2, <3>1, <3>2
    <2>2. CASE LoadState
      <3>1. ~running /\ ppu' = saved /\ UNCHANGED <<config, running, saved, pc>> /\ pc = "idle"
        BY <2>2 DEF LoadState, Becomes, Course
      <3>2. Starting(saved)' /\ Starting(ppu)'
        BY <3>1 DEF Timed, Starting, Fresh
      <3> QED BY <1>2, <3>1, <3>2
    <2>3. CASE Reset
      <3>1. /\ ~running /\ ppu' = [PowerOn EXCEPT !.InterlaceOnSample = ppu.InterlaceOnSample]
            /\ UNCHANGED <<config, running, saved, pc>> /\ pc = "idle"
        BY <2>3 DEF Reset, Becomes, Course
      <3>2. Starting(saved)' /\ Starting(ppu)'
        BY <3>1 DEF Timed, Starting, Fresh, PowerOn
      <3> QED BY <1>2, <3>1, <3>2
    <2>4. ASSUME NEW s \in {0, 1}, Emulate(s) PROVE Timed'
      <3>1. ~running /\ UNCHANGED <<ppu, saved, config>> /\ queue = <<>>
        BY <2>4 DEF Emulate, StartFrame, Course, Owned
      <3>2. Starting(saved)'
        BY <3>1 DEF Timed, Starting, Fresh
      <3>3. StartFrame("ahead", -1) \/ StartFrame("shown", s)
        BY <2>4 DEF Emulate
      <3> QED BY <1>3, <3>1, <3>2, <3>3
    <2> QED BY <1>5, <2>1, <2>2, <2>3, <2>4 DEF UserStep
  <1>6. ASSUME NEW c \in Commands, c.frame = es, NEW d \in Commands, d.frame = es, NEW q, UNCHANGED <<pc, es>>,
               q \in {queue, Append(queue, c)}, queue' \in {q, Append(q, d)}
        PROVE  pc' = "ahead" => \A i \in 1 .. Len(queue') : queue'[i].frame = es'
    <2> SUFFICES ASSUME pc = "ahead" PROVE \A i \in 1 .. Len(queue') : queue'[i].frame = es
      BY <1>6
    <2>1. \A i \in 1 .. Len(queue) : queue[i].frame = es
      BY DEF Timed
    <2>2. q \in Seq(Commands) /\ \A i \in 1 .. Len(q) : q[i].frame = es
      <3>1. CASE q = queue
        BY <1>0, <2>1, <3>1
      <3>2. CASE q = Append(queue, c)
        <4>1. /\ q \in Seq(Commands) /\ Len(q) = Len(queue) + 1 /\ Len(queue) \in Nat /\ q[Len(queue) + 1] = c
              /\ \A i \in 1 .. Len(queue) : q[i] = queue[i]
          BY <1>0, <1>6, <3>2, Appended
        <4> QED BY <1>6, <2>1, <4>1
      <3> QED BY <1>6, <3>1, <3>2
    <2>3. CASE queue' = q
      BY <2>2, <2>3
    <2>4. CASE queue' = Append(q, d)
      BY <1>6, <2>2, <2>4, Appended
    <2> QED BY <1>6, <2>3, <2>4
  <1>7. CASE HBlankEnd
    <2> DEFINE c == Command("vblank", SkipFrame)
    <2>1. /\ running /\ ppu.LinePhase = 3 /\ ppu'.LinePhase = 0 /\ ppu'.scanline = LineAfter(ppu)
          /\ ppu'.VBlank = (LineAfter(ppu) # 0 /\ (ppu.VBlank \/ Begins(ppu)))
          /\ running' = ~(IF config.FrameBeginVBlank THEN Begins(ppu) ELSE LineAfter(ppu) = 0)
          /\ queue' = IF Begins(ppu) THEN Append(queue, c) ELSE queue
          /\ elapsed' = elapsed + 1 /\ c \in Commands
          /\ UNCHANGED <<SkipFrame, shown, config, pc, es, saved, before>>
      BY <1>7, HBlankEndDoes
    <2>2. c.frame = es
      BY DEF Command
    <2> HIDE DEF c
    <2>3. pc' = "ahead" => \A i \in 1 .. Len(queue') : queue'[i].frame = es'
      BY <1>6, <2>1, <2>2
    <2>4. ~Fresh(ppu)'
      BY <2>1 DEF Fresh
    <2>5. ~ppu.VBlank =>
            IF Fresh(ppu) THEN LineAfter(ppu) = 0 /\ ~Begins(ppu)
            ELSE LineAfter(ppu) = ppu.scanline + 1 /\ ppu.scanline < OverscanLine
      BY NextVisible DEF Course
    <2>6. Begins(ppu) => ~ppu.VBlank /\ LineAfter(ppu) >= VBlankLine
      BY NextVisible DEF Course, Begins
    <2>7. LineAfter(ppu) \in 0 .. Lines
      BY <1>0, LineAfterIs
    <2>8. ASSUME ~running' PROVE Starting(ppu)'
      <3>1. config.FrameBeginVBlank => Begins(ppu)
        BY <2>1, <2>8
      <3>2. ASSUME Begins(ppu) PROVE LineAfter(ppu) \in VBlankLine .. OverscanLine /\ ppu'.VBlank
        <4>1. LineAfter(ppu) >= VBlankLine /\ ~ppu.VBlank
          BY <2>6, <3>2
        <4>2. LineAfter(ppu) = ppu.scanline + 1 /\ ppu.scanline < OverscanLine
          BY <2>5, <3>2, <4>1
        <4>3. LineAfter(ppu) \in VBlankLine .. OverscanLine /\ LineAfter(ppu) # 0
          BY <1>0, <4>1, <4>2
        <4> QED BY <2>1, <3>2, <4>3
      <3> QED BY <2>1, <3>1, <3>2 DEF Starting
    <2>9. ASSUME running', shown'
          PROVE  ppu'.scanline >= 1 /\ (~ppu'.VBlank => ~(ppu'.scanline = 1 /\ ppu'.LinePhase = 0))
      <3>1. ppu.scanline >= 1 /\ ~Fresh(ppu)
        BY <2>1, <2>9 DEF Timed
      <3>2. LineAfter(ppu) # 0
        <4>1. CASE ~config.FrameBeginVBlank
          BY <2>1, <2>9, <4>1
        <4>2. CASE config.FrameBeginVBlank
          <5>1. ~ppu.VBlank
            BY <2>1, <2>9, <4>2 DEF Course, Live
          <5> QED BY <1>0, <2>5, <3>1, <5>1
        <4> QED BY <4>1, <4>2
      <3>3. ~ppu'.VBlank => ~ppu.VBlank
        BY <2>1, <3>2
      <3> QED BY <1>0, <2>1, <2>5, <2>7, <3>1, <3>2, <3>3
    <2>10. ASSUME Timely' PROVE Timely /\ (ppu'.VBlank => ppu'.scanline - elapsed' \in VBlankLine .. OverscanLine)
      BY <1>7, <2>10, StillTimely
    <2>11. Starting(saved)'
      BY <2>1 DEF Timed, Starting, Fresh
    <2> QED BY <2>1, <2>3, <2>4, <2>8, <2>9, <2>10, <2>11 DEF Timed
  <1>8. ASSUME NEW n \in 0 .. 3, ppu'.LinePhase = n, ppu.LinePhase # 3 \/ n = 3, n = 0 => ppu.LinePhase = 0,
               running, ppu'.scanline = ppu.scanline, ppu'.VBlank = ppu.VBlank, Fresh(ppu)' => Fresh(ppu),
               UNCHANGED <<running, elapsed, config, pc, es, saved, before>>,
               shown' => shown \/ (ppu.scanline = 1 /\ n # 0), shown => shown',
               SkipFrame' = SkipFrame \/ (Timely => shown'),
               pc' = "ahead" => \A i \in 1 .. Len(queue') : queue'[i].frame = es'
        PROVE  Timed'
    <2>1. Timely' = Timely
      BY <1>8 DEF Timely, Late
    <2>2. Starting(saved)'
      BY <1>8 DEF Timed, Starting, Fresh
    <2>3. ppu.scanline = 1 => ~Fresh(ppu)
      BY DEF Fresh
    <2> QED BY <1>0, <1>8, <2>1, <2>2, <2>3 DEF Timed
  <1>9. CASE LineDrawn
    <2> DEFINE c == Command("reset", 0)
               d == Command("line", ppu.scanline)
    <2>1. /\ running /\ ppu.LinePhase = 0 /\ ppu'.LinePhase = 1 /\ ppu'.scanline = ppu.scanline /\ ppu'.VBlank = ppu.VBlank
          /\ SkipFrame' = Unseen /\ shown' = (shown \/ (ppu.scanline = 1 /\ Visible(ppu)))
          /\ queue' = IF Visible(ppu) /\ ~Unseen
                      THEN Append(IF ppu.scanline = 1 /\ ~Unseen THEN Append(queue, c) ELSE queue, d)
                      ELSE IF ppu.scanline = 1 /\ ~Unseen THEN Append(queue, c) ELSE queue
          /\ c \in Commands /\ (Visible(ppu) => d \in Commands)
          /\ UNCHANGED <<running, elapsed, config, pc, es, saved, before>>
      BY <1>9, LineDrawnDoes
    <2>2. c.frame = es /\ d.frame = es
      BY DEF Command
    <2> HIDE DEF c, d
    <2>3. pc' = "ahead" => \A i \in 1 .. Len(queue') : queue'[i].frame = es'
      <3> DEFINE q == IF ppu.scanline = 1 /\ ~Unseen THEN Append(queue, c) ELSE queue
      <3>1. q \in {queue, Append(queue, c)}
        OBVIOUS
      <3>2. queue' = IF Visible(ppu) /\ ~Unseen THEN Append(q, d) ELSE q
        BY <2>1
      <3> HIDE DEF q
      <3>3. CASE Visible(ppu)
        BY <1>6, <2>1, <2>2, <3>1, <3>2, <3>3
      <3>4. CASE ~Visible(ppu)
        <4>1. queue' = q
          BY <3>2, <3>4
        <4> QED BY <1>6, <2>1, <2>2, <3>1, <4>1
      <3> QED BY <3>3, <3>4
    <2>4. SkipFrame' = SkipFrame \/ (Timely => shown')
      <3>1. ppu.scanline # 1 => Unseen = SkipFrame
        BY DEF Unseen
      <3>2. ASSUME ppu.scanline = 1, Timely PROVE Visible(ppu)
        <4>1. ppu.VBlank => ppu.scanline - elapsed \in VBlankLine .. OverscanLine
          BY <3>2 DEF Timed
        <4> QED BY <1>0, <3>2, <4>1 DEF Visible
      <3> QED BY <2>1, <3>1, <3>2
    <2>5. ~Fresh(ppu)'
      BY <2>1 DEF Fresh
    <2>6. 1 \in 0 .. 3 /\ 1 # 0 /\ 0 # 3
      OBVIOUS
    <2>7. (shown' => shown \/ ppu.scanline = 1) /\ (shown => shown')
      BY <2>1
    <2>8. /\ running /\ ppu.LinePhase = 0 /\ ppu'.LinePhase = 1 /\ ppu'.scanline = ppu.scanline
          /\ ppu'.VBlank = ppu.VBlank /\ UNCHANGED <<running, elapsed, config, pc, es, saved, before>>
      BY <2>1
    <2> QED BY <1>8, <2>3, <2>4, <2>5, <2>6, <2>7, <2>8
  <1>10. CASE MemoryRefresh
    <2>1. /\ running /\ ppu.LinePhase = 1 /\ ppu'.LinePhase = 2 /\ ppu'.scanline = ppu.scanline /\ ppu'.VBlank = ppu.VBlank
          /\ UNCHANGED <<queue, running, SkipFrame, shown, elapsed, config, pc, es, saved, before>>
      BY <1>10, MemoryRefreshDoes
    <2>2. ~Fresh(ppu)' /\ 2 \in 0 .. 3
      BY <2>1 DEF Fresh
    <2>3. pc' = "ahead" => \A i \in 1 .. Len(queue') : queue'[i].frame = es'
      BY <2>1 DEF Timed
    <2> QED BY <1>8, <2>1, <2>2, <2>3
  <1>11. CASE HBlankBegin
    <2> DEFINE c == Command("fetch", ppu.scanline)
    <2>1. /\ running /\ ppu.LinePhase = 2 /\ ppu'.LinePhase = 3 /\ ppu'.scanline = ppu.scanline /\ ppu'.VBlank = ppu.VBlank
          /\ queue' = IF ~ppu.VBlank /\ ~SkipFrame THEN Append(queue, c) ELSE queue
          /\ c \in Commands
          /\ UNCHANGED <<running, SkipFrame, shown, elapsed, config, pc, es, saved, before>>
      BY <1>11, HBlankBeginDoes
    <2>2. c.frame = es
      BY DEF Command
    <2> HIDE DEF c
    <2>3. pc' = "ahead" => \A i \in 1 .. Len(queue') : queue'[i].frame = es'
      BY <1>6, <2>1, <2>2
    <2>4. ~ppu.VBlank => ppu.scanline < OverscanLine
      BY <2>1 DEF Course, InRange, Fresh
    <2>5. ~Fresh(ppu)'
      BY <1>0, <2>1, <2>4 DEF Fresh
    <2>6. 3 \in 0 .. 3
      OBVIOUS
    <2> QED BY <1>8, <2>1, <2>3, <2>5, <2>6
  <1>12. CASE PPU_Update
    BY <1>7, <1>9, <1>10, <1>11, <1>12 DEF PPU_Update
  <1>13. ASSUME NEW i \in BOOLEAN, NEW o \in BOOLEAN, Write_ScreenMode(i, o) PROVE Timed'
    <2> DEFINE c == Command("mode", o)
    <2>1. /\ running /\ ~JustReset /\ ppu' \in State
          /\ ppu'.LinePhase = ppu.LinePhase /\ ppu'.scanline = ppu.scanline /\ ppu'.VBlank = ppu.VBlank
          /\ queue' = Append(queue, c) /\ c \in Commands
          /\ UNCHANGED <<running, SkipFrame, shown, elapsed, config, pc, es, saved, before>>
      BY <1>13, ScreenModeDoes
    <2>2. c.frame = es
      BY DEF Command
    <2> HIDE DEF c
    <2>3. pc' = "ahead" => \A k \in 1 .. Len(queue') : queue'[k].frame = es'
      BY <1>6, <2>1, <2>2
    <2>4. ~Fresh(ppu)'
      BY <2>1 DEF Fresh, JustReset
    <2>5. Timely' = Timely
      BY <2>1 DEF Timely, Late
    <2>6. Starting(saved)'
      BY <2>1 DEF Timed, Starting, Fresh
    <2> QED BY <2>1, <2>3, <2>4, <2>5, <2>6 DEF Timed
  <1>14. CASE RenderStep
    <2>1. queue # <<>> /\ queue' = Tail(queue) /\ UNCHANGED emulation
      BY <1>14 DEF RenderStep, ResetLineTarget, RenderLine, EnterVBlank, FetchSpriteData, SetMode, Take
    <2> QED BY <1>1, <2>1 DEF emulation
  <1>15. CASE UNCHANGED vars
    BY <1>1, <1>15 DEF vars, emulation
  <1> QED BY <1>4, <1>5, <1>12, <1>13, <1>14, <1>15 DEF Next

\* What a fetch of the frame f, and one of another, is to the renderer, which has
\* what was made last: the line it has before the i-th command.
Got(c, f) == IF c.frame = f THEN c.arg ELSE Old
Latest(q, made, f, i, x) ==
  /\ \A j \in 1 .. i - 1 : q[j].kind = "fetch" /\ (\A m \in j + 1 .. i - 1 : q[m].kind # "fetch") => Got(q[j], f) = x
  /\ (\A m \in 1 .. i - 1 : q[m].kind # "fetch") => made = x
Due(n, stale) == IF n = 1 /\ stale THEN Old ELSE n - 1
AllFetched(q, made, f, stale, early) ==
  \A i \in 1 .. Len(q) :
    q[i].kind = "line" /\ (q[i].arg = 1 => early) => Latest(q, made, f, i, Due(q[i].arg, stale))
Early == elapsed <= Lines + 1
Last(x) == Latest(queue, fetched, rEs, Len(queue) + 1, x)

\* Line 0's sprites have been fetched, if they are, and line 1 is not drawn yet.
AfterZero(s) == ~s.VBlank /\ ((s.scanline = 0 /\ s.LinePhase = 3) \/ (s.scanline = 1 /\ s.LinePhase = 0))

Fetched ==
  /\ AllFetched(queue, fetched, rEs, before, Early)
  /\ ~Before(ppu) /\ ~SkipFrame /\ ppu.LinePhase = 0 => Last(ppu.scanline - 1)
  /\ ~Before(ppu) /\ ~SkipFrame /\ ppu.LinePhase = 3 => Last(ppu.scanline)
  /\ Timely /\ ~shown => Last(IF ~before /\ AfterZero(ppu) THEN 0 ELSE Old)

LEMMA FetchAppended ==
  ASSUME NEW q \in Seq(Commands), NEW c \in Commands, NEW made, NEW f, NEW stale, NEW early
  PROVE  LET r == Append(q, c)
         IN /\ AllFetched(q, made, f, stale, early)
               /\ (c.kind = "line" /\ (c.arg = 1 => early) => Latest(q, made, f, Len(q) + 1, Due(c.arg, stale)))
                 => AllFetched(r, made, f, stale, early)
            /\ \A x : c.kind # "fetch" /\ Latest(q, made, f, Len(q) + 1, x) => Latest(r, made, f, Len(r) + 1, x)
            /\ c.kind = "fetch" => Latest(r, made, f, Len(r) + 1, Got(c, f))
  <1> DEFINE r == Append(q, c)
  <1>1. /\ Len(r) = Len(q) + 1 /\ Len(q) \in Nat /\ r[Len(q) + 1] = c
        /\ \A i \in 1 .. Len(q) : r[i] = q[i]
    BY Appended
  <1> HIDE DEF r
  <1>2. ASSUME NEW i \in 1 .. Len(q) + 1, NEW x, Latest(q, made, f, i, x) PROVE Latest(r, made, f, i, x)
    <2>1. \A m \in 1 .. i - 1 : r[m] = q[m]
      BY <1>1
    <2>2. \A j \in 1 .. i - 1 : \A m \in j + 1 .. i - 1 : r[m] = q[m]
      BY <2>1
    <2> QED BY <1>2, <2>1, <2>2 DEF Latest
  <1>3. ASSUME AllFetched(q, made, f, stale, early),
               c.kind = "line" /\ (c.arg = 1 => early) => Latest(q, made, f, Len(q) + 1, Due(c.arg, stale))
        PROVE  AllFetched(r, made, f, stale, early)
    <2> SUFFICES ASSUME NEW i \in 1 .. Len(r), r[i].kind = "line", r[i].arg = 1 => early
                 PROVE  Latest(r, made, f, i, Due(r[i].arg, stale))
      BY DEF AllFetched
    <2>1. CASE i \in 1 .. Len(q)
      <3>1. r[i] = q[i] /\ i \in 1 .. Len(q) + 1
        BY <1>1, <2>1
      <3>2. Latest(q, made, f, i, Due(q[i].arg, stale))
        BY <1>3, <2>1, <3>1 DEF AllFetched
      <3> QED BY <1>2, <3>1, <3>2
    <2>2. CASE i = Len(q) + 1
      BY <1>1, <1>2, <1>3, <2>2
    <2> QED BY <1>1, <2>1, <2>2
  <1>4. ASSUME NEW x, c.kind # "fetch", Latest(q, made, f, Len(q) + 1, x) PROVE Latest(r, made, f, Len(r) + 1, x)
    <2> DEFINE n == Len(q)
    <2>1. n \in Nat /\ Len(r) = n + 1 /\ r[n + 1].kind # "fetch" /\ \A m \in 1 .. n : r[m] = q[m]
      BY <1>1, <1>4
    <2>2. /\ \A j \in 1 .. n : q[j].kind = "fetch" /\ (\A m \in j + 1 .. n : q[m].kind # "fetch") => Got(q[j], f) = x
          /\ (\A m \in 1 .. n : q[m].kind # "fetch") => made = x
      BY <1>1, <1>4 DEF Latest
    <2> HIDE DEF n
    <2>3. ASSUME NEW j \in 1 .. n + 1, r[j].kind = "fetch", \A m \in j + 1 .. n + 1 : r[m].kind # "fetch"
          PROVE  Got(r[j], f) = x
      <3>1. j \in 1 .. n
        BY <2>1, <2>3
      <3>2. \A m \in j + 1 .. n : m \in 1 .. n /\ m \in j + 1 .. n + 1
        BY <2>1, <3>1
      <3>3. \A m \in j + 1 .. n : q[m].kind # "fetch"
        BY <2>1, <2>3, <3>2
      <3> QED BY <2>1, <2>2, <2>3, <3>1, <3>3
    <2>4. (\A m \in 1 .. n + 1 : r[m].kind # "fetch") => made = x
      BY <2>1, <2>2
    <2>5. (Len(r) + 1) - 1 = n + 1
      BY <2>1
    <2> QED BY <2>3, <2>4, <2>5 DEF Latest
  <1>5. ASSUME c.kind = "fetch" PROVE Latest(r, made, f, Len(r) + 1, Got(c, f))
    <2> DEFINE n == Len(q)
    <2>1. n \in Nat /\ (Len(r) + 1) - 1 = n + 1 /\ r[n + 1] = c
      BY <1>1
    <2> HIDE DEF n
    <2>2. ASSUME NEW j \in 1 .. n + 1, \A m \in j + 1 .. n + 1 : r[m].kind # "fetch" PROVE r[j] = c
      <3>1. j # n + 1 => n + 1 \in j + 1 .. n + 1
        BY <2>1
      <3> QED BY <1>5, <2>1, <2>2, <3>1
    <2>3. n + 1 \in 1 .. n + 1
      BY <2>1
    <2> QED BY <1>5, <2>1, <2>2, <2>3 DEF Latest
  <1> QED BY <1>3, <1>4, <1>5 DEF r

LEMMA FetchRemoved ==
  ASSUME NEW q \in Seq(Commands), q # <<>>, NEW made, NEW f, NEW stale, NEW early, NEW next,
         next = IF Head(q).kind = "fetch" THEN Got(Head(q), f) ELSE made
  PROVE  LET r == Tail(q)
         IN /\ AllFetched(q, made, f, stale, early) => AllFetched(r, next, f, stale, early)
            /\ \A x : Latest(q, made, f, Len(q) + 1, x) => Latest(r, next, f, Len(r) + 1, x)
            /\ AllFetched(q, made, f, stale, early) /\ Head(q).kind = "line" /\ (Head(q).arg = 1 => early)
                 => made = Due(Head(q).arg, stale)
  <1> DEFINE r == Tail(q)
  <1>1. /\ Len(r) = Len(q) - 1 /\ Len(q) \in Nat \ {0} /\ Head(q) = q[1]
        /\ \A i \in 1 .. Len(q) - 1 : r[i] = q[i + 1]
    BY Removed
  <1> HIDE DEF r
  <1>2. ASSUME NEW i \in 1 .. Len(r) + 1, NEW x, Latest(q, made, f, i + 1, x) PROVE Latest(r, next, f, i, x)
    <2>1. \A m \in 1 .. i - 1 : r[m] = q[m + 1]
      BY <1>1
    <2>2. /\ \A j \in 1 .. i : q[j].kind = "fetch" /\ (\A m \in j + 1 .. i : q[m].kind # "fetch") => Got(q[j], f) = x
          /\ (\A m \in 1 .. i : q[m].kind # "fetch") => made = x
      <3>1. (i + 1) - 1 = i
        OBVIOUS
      <3> QED BY <1>2, <3>1 DEF Latest
    <2>3. ASSUME NEW j \in 1 .. i - 1, r[j].kind = "fetch", \A m \in j + 1 .. i - 1 : r[m].kind # "fetch"
          PROVE  Got(r[j], f) = x
      <3>1. j + 1 \in 1 .. i /\ r[j] = q[j + 1]
        BY <2>1
      <3>2. ASSUME NEW m \in (j + 1) + 1 .. i PROVE q[m].kind # "fetch"
        <4>1. m - 1 \in j + 1 .. i - 1 /\ m - 1 \in 1 .. i - 1 /\ (m - 1) + 1 = m
          OBVIOUS
        <4>2. r[m - 1] = q[m]
          BY <2>1, <4>1
        <4> QED BY <2>3, <4>1, <4>2
      <3> QED BY <2>2, <2>3, <3>1, <3>2
    <2>4. ASSUME \A m \in 1 .. i - 1 : r[m].kind # "fetch" PROVE next = x
      <3>1. ASSUME NEW m \in 2 .. i PROVE q[m].kind # "fetch"
        <4>1. m - 1 \in 1 .. i - 1 /\ (m - 1) + 1 = m
          OBVIOUS
        <4>2. r[m - 1] = q[m]
          BY <2>1, <4>1
        <4> QED BY <2>4, <4>1, <4>2
      <3>2. CASE q[1].kind = "fetch"
        <4>1. 1 \in 1 .. i /\ \A m \in 1 + 1 .. i : m \in 2 .. i
          OBVIOUS
        <4>2. Got(q[1], f) = x
          BY <2>2, <3>1, <3>2, <4>1
        <4> QED BY <1>1, <3>2, <4>2
      <3>3. CASE q[1].kind # "fetch"
        <4>1. \A m \in 1 .. i : m = 1 \/ m \in 2 .. i
          OBVIOUS
        <4>2. made = x
          BY <2>2, <3>1, <3>3, <4>1
        <4> QED BY <1>1, <3>3, <4>2
      <3> QED BY <3>2, <3>3
    <2> QED BY <2>3, <2>4 DEF Latest
  <1>3. ASSUME AllFetched(q, made, f, stale, early) PROVE AllFetched(r, next, f, stale, early)
    <2> SUFFICES ASSUME NEW i \in 1 .. Len(r), r[i].kind = "line", r[i].arg = 1 => early
                 PROVE  Latest(r, next, f, i, Due(r[i].arg, stale))
      BY DEF AllFetched
    <2>1. i + 1 \in 1 .. Len(q) /\ r[i] = q[i + 1] /\ i \in 1 .. Len(r) + 1
      BY <1>1
    <2>2. Latest(q, made, f, i + 1, Due(r[i].arg, stale))
      BY <1>3, <2>1 DEF AllFetched
    <2> QED BY <1>2, <2>1, <2>2
  <1>4. ASSUME NEW x, Latest(q, made, f, Len(q) + 1, x) PROVE Latest(r, next, f, Len(r) + 1, x)
    <2>1. Len(r) + 1 \in 1 .. Len(r) + 1 /\ (Len(r) + 1) + 1 = Len(q) + 1
      BY <1>1
    <2> QED BY <1>2, <1>4, <2>1
  <1>5. ASSUME AllFetched(q, made, f, stale, early), Head(q).kind = "line", Head(q).arg = 1 => early
        PROVE  made = Due(Head(q).arg, stale)
    <2>1. 1 \in 1 .. Len(q)
      BY <1>1
    <2>2. Latest(q, made, f, 1, Due(q[1].arg, stale))
      BY <1>1, <1>5, <2>1 DEF AllFetched
    <2> QED BY <1>1, <2>2 DEF Latest
  <1> QED BY <1>3, <1>4, <1>5 DEF r

\* What the renderer will have once the commands under way after the step are done.
LastThen(x) == Latest(queue', fetched', rEs', Len(queue') + 1, x)

\* The claim about line 1 is dropped as soon as the frame has more than one field.
LEMMA FetchWeakened ==
  ASSUME NEW q, NEW made, NEW f, NEW stale, NEW early, NEW later, later => early, AllFetched(q, made, f, stale, early)
  PROVE  AllFetched(q, made, f, stale, later)
BY DEF AllFetched

LEMMA FetchedInitially == Init => Fetched
  <1> SUFFICES ASSUME Init PROVE Fetched
    OBVIOUS
  <1>1. Len(queue) = 0 /\ ~running /\ Before(ppu)
    BY DEF Init, Before, Fresh, PowerOn
  <1> QED BY <1>1 DEF Fetched, AllFetched, Timely

LEMMA FetchedInductive == TypeInv /\ Course /\ Owned /\ Timed /\ Fetched /\ [Next]_vars => Fetched'
  <1> SUFFICES ASSUME TypeInv, Course, Owned, Timed, Fetched, [Next]_vars PROVE Fetched'
    OBVIOUS
  <1> USE LinesAssumption
  <1>0. /\ queue \in Seq(Commands) /\ Course' /\ TypeInv' /\ ppu \in State /\ ppu.scanline \in 0 .. Lines
        /\ elapsed \in Nat /\ rEs = es /\ es \in Frames
    BY CourseInductive, TypeInductive DEF TypeInv, QueueOK, TypeOK, State, Owned
  <1>1. ASSUME UNCHANGED <<queue, fetched, rEs, before, elapsed>>, ~running' PROVE Fetched'
    <2>1. Before(ppu)' /\ ~Timely'
      BY <1>0, <1>1 DEF Course, Between, Timely
    <2> QED BY <1>1, <2>1 DEF Fetched, Early
  <1>2. ASSUME UNCHANGED <<queue, fetched, rEs, before, elapsed, ppu, SkipFrame, shown, running, config>>
        PROVE  Fetched'
    BY <1>2 DEF Fetched, Early, Last, LastThen, Before, Fresh, Timely, Late, AfterZero
  <1>3. ASSUME NEW where, NEW s, StartFrame(where, s), UNCHANGED ppu, ~running, queue = <<>> \/ pc = "ahead"
        PROVE  Fetched'
    <2>1. /\ UNCHANGED <<queue, config, SkipFrame>> /\ rEs' = NextFrame(es) /\ fetched' = Old
      BY <1>3 DEF StartFrame
    <2>2. \A i \in 1 .. Len(queue) : queue[i].kind # "line" /\ queue[i].frame # NextFrame(es)
      <3>1. CASE queue = <<>>
        BY <3>1
      <3>2. CASE pc = "ahead"
        <4>1. es # NextFrame(es)
          BY <1>0 DEF NextFrame, Frames
        <4> QED BY <3>2, <4>1 DEF Timed, Owned, Unused, UsesEs
      <3> QED BY <1>3, <3>1, <3>2
    <2>3. Latest(queue, Old, NextFrame(es), Len(queue) + 1, Old)
      <3>1. Len(queue) \in Nat /\ (Len(queue) + 1) - 1 = Len(queue)
        BY <1>0
      <3> QED BY <2>2, <3>1 DEF Latest, Got
    <2>4. Starting(ppu) /\ Between(ppu)
      BY <1>3 DEF Timed, Course
    <2>5. Before(ppu)' /\ ~AfterZero(ppu)'
      BY <1>3, <2>1, <2>4 DEF Between, Starting, AfterZero, Before, AtTop, Fresh
    <2>6. AllFetched(queue, Old, NextFrame(es), before', Early')
      BY <2>2 DEF AllFetched
    <2> QED BY <2>1, <2>3, <2>5, <2>6 DEF Fetched, Last, LastThen
  <1>4. ASSUME EmulateStep PROVE Fetched'
    <2>1. CASE EndReal
      BY <1>2, <2>1 DEF EndReal, renderer
    <2>2. CASE Sync
      BY <1>1, <2>2 DEF Sync, Becomes, Course
    <2>3. ASSUME NEW s \in {0, 1}, Ahead(s) PROVE Fetched'
      BY <1>3, <2>3 DEF Ahead
    <2> QED BY <1>4, <2>1, <2>2, <2>3 DEF EmulateStep
  <1>5. ASSUME UserStep PROVE Fetched'
    <2>1. CASE SaveState
      BY <1>2, <2>1 DEF SaveState, renderer
    <2>2. CASE LoadState
      BY <1>1, <2>2 DEF LoadState, Becomes, Course
    <2>3. CASE Reset
      BY <1>1, <2>3 DEF Reset, Becomes, Course
    <2>4. ASSUME NEW s \in {0, 1}, Emulate(s) PROVE Fetched'
      <3>1. ~running /\ queue = <<>> /\ UNCHANGED ppu /\ (StartFrame("ahead", -1) \/ StartFrame("shown", s))
        BY <2>4 DEF Emulate, Course, Owned
      <3> QED BY <1>3, <3>1
    <2> QED BY <1>5, <2>1, <2>2, <2>3, <2>4 DEF UserStep
  <1>6. CASE HBlankEnd
    <2> DEFINE c == Command("vblank", SkipFrame)
    <2>1. /\ ppu.LinePhase = 3 /\ c \in Commands /\ c.kind = "vblank"
          /\ queue' = IF Begins(ppu) THEN Append(queue, c) ELSE queue
          /\ elapsed' = elapsed + 1 /\ UNCHANGED <<SkipFrame, fetched, rEs, before, shown>>
      BY <1>6, HBlankEndDoes DEF renderer, Command
    <2>2. /\ ppu'.LinePhase = 0 /\ ppu'.scanline = LineAfter(ppu)
          /\ ppu'.VBlank = (LineAfter(ppu) # 0 /\ (ppu.VBlank \/ Begins(ppu)))
      BY <1>6, HBlankEndDoes
    <2> HIDE DEF c
    <2>3. AllFetched(queue', fetched', rEs', before', Early') /\ \A x : Last(x) => LastThen(x)
      <3>1. Early' => Early
        BY <1>0, <2>1 DEF Early
      <3>2. AllFetched(queue', fetched, rEs, before, Early) /\ \A x : Last(x) => LastThen(x)
        BY <1>0, <2>1, FetchAppended DEF Fetched, Last, LastThen
      <3> QED BY <2>1, <3>1, <3>2, FetchWeakened
    <2>4. ASSUME ~Before(ppu)', ~SkipFrame PROVE LastThen(LineAfter(ppu) - 1)
      <3>1. ~ppu.VBlank /\ ~Begins(ppu) /\ LineAfter(ppu) \notin {0, 1}
        BY <2>2, <2>4 DEF Before
      <3>2. LineAfter(ppu) = ppu.scanline + 1 /\ ~Fresh(ppu)
        BY <3>1, NextVisible DEF Course
      <3>3. ppu.scanline # 0 /\ ~Before(ppu) /\ LineAfter(ppu) - 1 = ppu.scanline
        BY <1>0, <2>1, <3>1, <3>2 DEF Before
      <3>4. Last(ppu.scanline)
        BY <2>1, <2>4, <3>3 DEF Fetched
      <3> QED BY <2>3, <3>3, <3>4
    <2>5. ASSUME Timely', ~shown' PROVE LastThen(IF ~before' /\ AfterZero(ppu)' THEN 0 ELSE Old)
      <3>1. Timely /\ ~shown
        BY <1>6, <2>1, <2>5, StillTimely
      <3>2. AfterZero(ppu)' = AfterZero(ppu)
        <4>1. ASSUME AfterZero(ppu) PROVE AfterZero(ppu)'
          <5>1. ~ppu.VBlank /\ ppu.scanline = 0 /\ ~Fresh(ppu)
            BY <2>1, <4>1 DEF AfterZero, Fresh
          <5>2. LineAfter(ppu) = 1
            BY <5>1, NextVisible DEF Course
          <5>3. ~Begins(ppu)
            BY <5>1, <5>2, NextVisible DEF Course
          <5> QED BY <2>2, <5>1, <5>2, <5>3 DEF AfterZero
        <4>2. ASSUME AfterZero(ppu)' PROVE AfterZero(ppu)
          <5>1. LineAfter(ppu) = 1 /\ ~ppu.VBlank
            <6>1. ~ppu'.VBlank /\ ppu'.scanline = 1
              BY <2>2, <4>2 DEF AfterZero
            <6>2. LineAfter(ppu) = 1
              BY <2>2, <6>1
            <6>3. ~(LineAfter(ppu) # 0 /\ (ppu.VBlank \/ Begins(ppu)))
              BY <2>2, <6>1
            <6> QED BY <6>2, <6>3
          <5>2. ppu.scanline = 0
            BY <1>0, <5>1, NextVisible DEF Course
          <5> QED BY <2>1, <5>1, <5>2 DEF AfterZero
        <4> QED BY <4>1, <4>2 DEF AfterZero
      <3> QED BY <2>1, <2>3, <3>1, <3>2 DEF Fetched
    <2> QED BY <2>1, <2>2, <2>3, <2>4, <2>5 DEF Fetched, Last, LastThen
  <1>7. CASE LineDrawn
    <2> DEFINE reset == Command("reset", 0)
               line  == Command("line", ppu.scanline)
               first == ppu.scanline = 1 /\ ~Unseen
               with  == IF first THEN Append(queue, reset) ELSE queue
    <2>1. /\ running /\ ppu.LinePhase = 0 /\ ppu'.LinePhase = 1
          /\ shown' = (shown \/ (ppu.scanline = 1 /\ Visible(ppu)))
          /\ queue' = IF Visible(ppu) /\ ~Unseen THEN Append(with, line) ELSE with
          /\ reset \in Commands /\ (Visible(ppu) => line \in Commands)
          /\ ppu'.scanline = ppu.scanline /\ ppu'.VBlank = ppu.VBlank
          /\ UNCHANGED <<fetched, rEs, before, elapsed, running, config>>
      BY <1>7, LineDrawnDoes DEF renderer
    <2>2. reset.kind = "reset" /\ line.kind = "line" /\ line.arg = ppu.scanline
      BY DEF Command
    <2>3. with \in Seq(Commands)
      BY <1>0, <2>1, Appended
    <2> HIDE DEF reset, line
    <2>4. /\ AllFetched(with, fetched, rEs, before, Early)
          /\ \A x : Last(x) => Latest(with, fetched, rEs, Len(with) + 1, x)
      BY <1>0, <2>1, <2>2, FetchAppended DEF Fetched, Last, LastThen
    <2>5. ASSUME Visible(ppu), ~Unseen, ppu.scanline = 1 => Early PROVE Last(Due(ppu.scanline, before))
      <3>1. CASE ppu.scanline # 1
        <4>1. ~Before(ppu) /\ ~SkipFrame
          BY <2>1, <2>5, <3>1, DrawsInPicture DEF Unseen
        <4>2. Last(ppu.scanline - 1)
          BY <2>1, <4>1 DEF Fetched
        <4> QED BY <3>1, <4>2 DEF Due
      <3>2. CASE ppu.scanline = 1
        <4>1. ~ppu.VBlank /\ elapsed <= Lines + 1
          BY <2>5, <3>2 DEF Visible, Early
        <4>2. Timely
          BY <1>0, <2>1, <3>2, <4>1 DEF Timely, Late
        <4>3. ~shown /\ AfterZero(ppu)
          BY <2>1, <3>2, <4>1 DEF Timed, AfterZero
        <4>4. Last(IF ~before THEN 0 ELSE Old)
          BY <4>2, <4>3 DEF Fetched
        <4>5. Due(1, before) = IF ~before THEN 0 ELSE Old
          BY DEF Due
        <4> QED BY <3>2, <4>4, <4>5
      <3> QED BY <3>1, <3>2
    <2> HIDE DEF with
    <2>6. AllFetched(queue', fetched, rEs, before, Early)
      <3>1. CASE Visible(ppu) /\ ~Unseen
        <4>2. line.kind = "line" /\ (line.arg = 1 => Early) =>
                Latest(with, fetched, rEs, Len(with) + 1, Due(line.arg, before))
          BY <2>2, <2>4, <2>5, <3>1
        <4>3. line \in Commands /\ queue' = Append(with, line)
          BY <2>1, <3>1
        <4> HIDE DEF Early
        <4> QED BY <2>3, <2>4, <4>2, <4>3, FetchAppended
      <3>2. CASE ~(Visible(ppu) /\ ~Unseen)
        BY <2>1, <2>4, <3>2
      <3> QED BY <3>1, <3>2
    <2>7. \A x : Last(x) => LastThen(x)
      <3> SUFFICES ASSUME NEW x, Last(x) PROVE Latest(queue', fetched, rEs, Len(queue') + 1, x)
        BY <2>1 DEF Last, LastThen
      <3>1. Latest(with, fetched, rEs, Len(with) + 1, x)
        BY <2>4
      <3>2. CASE Visible(ppu) /\ ~Unseen
        <4>1. line \in Commands /\ queue' = Append(with, line) /\ line.kind # "fetch"
          BY <2>1, <2>2, <3>2
        <4> QED BY <2>3, <3>1, <4>1, FetchAppended
      <3>3. CASE ~(Visible(ppu) /\ ~Unseen)
        BY <2>1, <3>1, <3>3
      <3> QED BY <3>2, <3>3
    <2>8. ASSUME Timely', ~shown' PROVE LastThen(Old) /\ ~AfterZero(ppu)'
      <3>1. Timely /\ ~shown
        <4>1. ppu'.scanline = ppu.scanline /\ ppu'.VBlank = ppu.VBlank /\ UNCHANGED <<elapsed, running, config>>
          BY <2>1
        <4>2. Timely
          BY <2>8, <4>1 DEF Timely, Late
        <4>3. ~shown
          BY <2>1, <2>8
        <4> QED BY <4>2, <4>3
      <3>2. ppu.scanline # 1
        <4>1. ppu.scanline = 1 => ppu.VBlank
          <5>1. ~(ppu.scanline = 1 /\ Visible(ppu))
            BY <2>1, <2>8
          <5> QED BY <5>1 DEF Visible
        <4>2. ppu.VBlank => ppu.scanline - elapsed \in VBlankLine .. OverscanLine
          BY <3>1 DEF Timed
        <4> QED BY <1>0, <4>1, <4>2
      <3>3. ~AfterZero(ppu) /\ ~AfterZero(ppu)'
        BY <2>1, <3>2 DEF AfterZero
      <3>4. Last(Old)
        BY <3>1, <3>3 DEF Fetched
      <3> QED BY <2>7, <3>3, <3>4
    <2>9. Early' = Early
      BY <2>1 DEF Early
    <2> QED BY <2>1, <2>6, <2>8, <2>9 DEF Fetched, Last, LastThen
  <1>8. CASE MemoryRefresh
    <2>1. /\ ppu.LinePhase = 1 /\ ppu'.LinePhase = 2 /\ ppu'.scanline = ppu.scanline /\ ppu'.VBlank = ppu.VBlank
          /\ UNCHANGED <<queue, running, SkipFrame, shown, elapsed, config, fetched, rEs, before>>
      BY <1>8, MemoryRefreshDoes DEF renderer
    <2>2. Timely' = Timely /\ ~AfterZero(ppu) /\ ~AfterZero(ppu)'
      BY <2>1 DEF Timely, Late, AfterZero
    <2> QED BY <2>1, <2>2 DEF Fetched, Last, LastThen, Early
  <1>9. CASE HBlankBegin
    <2> DEFINE c == Command("fetch", ppu.scanline)
    <2>1. /\ ppu.LinePhase = 2 /\ c \in Commands /\ c.kind = "fetch" /\ Got(c, rEs) = ppu.scanline
          /\ UNCHANGED <<fetched, rEs, before, SkipFrame, elapsed, shown, running, config>>
          /\ queue' = IF ~ppu.VBlank /\ ~SkipFrame THEN Append(queue, c) ELSE queue
          /\ ppu'.LinePhase = 3 /\ ppu'.scanline = ppu.scanline /\ ppu'.VBlank = ppu.VBlank /\ running
      BY <1>0, <1>9, HBlankBeginDoes DEF renderer, Command, Got
    <2> HIDE DEF c
    <2>2. AllFetched(queue', fetched', rEs', before', Early')
      <3>1. AllFetched(queue', fetched, rEs, before, Early)
        BY <1>0, <2>1, FetchAppended DEF Fetched
      <3> QED BY <2>1, <3>1 DEF Early
    <2>3. ~Before(ppu)' => ~ppu.VBlank
      BY <2>1 DEF Before
    <2>4. ~ppu.VBlank /\ ~SkipFrame => LastThen(ppu.scanline)
      BY <1>0, <2>1, FetchAppended DEF Last, LastThen
    <2>5. ASSUME Timely', ~shown' PROVE LastThen(IF ~before' /\ AfterZero(ppu)' THEN 0 ELSE Old)
      <3>1. Timely /\ ~shown /\ SkipFrame = before /\ before' = before
        BY <2>1, <2>5 DEF Timely, Late, Timed
      <3>2. CASE ~ppu.VBlank /\ ~SkipFrame
        <4>1. ppu.scanline = 0
          <5>1. Before(ppu)
            BY <2>1, <3>1, <3>2 DEF Course, TypeInv, TypeOK
          <5> QED BY <2>1, <3>2, <5>1 DEF Before, Fresh
        <4>2. AfterZero(ppu)' /\ ~before
          BY <2>1, <3>1, <3>2, <4>1 DEF AfterZero
        <4>3. LastThen(0)
          BY <2>4, <3>2, <4>1
        <4> QED BY <3>1, <4>2, <4>3
      <3>3. CASE ppu.VBlank \/ SkipFrame
        <4>1. ~AfterZero(ppu) /\ (AfterZero(ppu)' => before')
          BY <2>1, <3>1, <3>3 DEF AfterZero
        <4>2. Last(Old)
          BY <3>1, <4>1 DEF Fetched
        <4>3. LastThen(Old)
          BY <2>1, <3>3, <4>2 DEF Last, LastThen
        <4> QED BY <4>1, <4>3
      <3> QED BY <3>2, <3>3
    <2> QED BY <2>1, <2>2, <2>3, <2>4, <2>5 DEF Fetched, Last, LastThen
  <1>10. CASE PPU_Update
    BY <1>6, <1>7, <1>8, <1>9, <1>10 DEF PPU_Update
  <1>11. ASSUME NEW i \in BOOLEAN, NEW o \in BOOLEAN, Write_ScreenMode(i, o) PROVE Fetched'
    <2> DEFINE c == Command("mode", o)
    <2>1. /\ c \in Commands /\ c.kind = "mode" /\ queue' = Append(queue, c)
          /\ UNCHANGED <<SkipFrame, fetched, rEs, before, elapsed, shown, running, config>>
          /\ ppu'.LinePhase = ppu.LinePhase /\ ppu'.scanline = ppu.scanline /\ ppu'.VBlank = ppu.VBlank
      BY <1>11, ScreenModeDoes DEF renderer, Command
    <2>2. /\ Before(ppu) => Before(ppu)'
          /\ Timely' = Timely /\ AfterZero(ppu)' = AfterZero(ppu) /\ Early' = Early
      BY <1>11, <2>1, ScreenModeDoes DEF Before, Fresh, JustReset, Timely, Late, AfterZero, Early
    <2> HIDE DEF c
    <2>3. AllFetched(queue', fetched, rEs, before, Early) /\ \A x : Last(x) => LastThen(x)
      BY <1>0, <2>1, FetchAppended DEF Fetched, Last, LastThen
    <2>4. AllFetched(queue', fetched', rEs', before', Early')
      BY <2>1, <2>2, <2>3
    <2> QED BY <2>1, <2>2, <2>3, <2>4 DEF Fetched, Last, LastThen
  <1>12. ASSUME RenderStep PROVE Fetched'
    <2>1. queue # <<>> /\ queue' = Tail(queue) /\ UNCHANGED <<rEs, before, SkipFrame, elapsed, shown, running, config, ppu>>
      BY <1>12 DEF RenderStep, ResetLineTarget, RenderLine, EnterVBlank, FetchSpriteData, SetMode, Take, emulation
    <2>2. fetched' = IF Head(queue).kind = "fetch" THEN Got(Head(queue), rEs) ELSE fetched
      BY <1>12 DEF RenderStep, ResetLineTarget, RenderLine, EnterVBlank, FetchSpriteData, SetMode, Take, Arg, Got
    <2>3. AllFetched(queue', fetched', rEs, before, Early) /\ \A x : Last(x) => LastThen(x)
      BY <1>0, <2>1, <2>2, FetchRemoved DEF Fetched, Last, LastThen
    <2>4. Before(ppu)' = Before(ppu) /\ Early' = Early /\ Timely' = Timely /\ AfterZero(ppu)' = AfterZero(ppu)
      BY <2>1 DEF Before, Fresh, Early, Timely, Late, AfterZero
    <2>5. AllFetched(queue', fetched', rEs', before', Early')
      BY <2>1, <2>3, <2>4
    <2> QED BY <2>1, <2>3, <2>4, <2>5 DEF Fetched, Last, LastThen
  <1>13. CASE UNCHANGED vars
    BY <1>2, <1>13 DEF vars, emulation, renderer
  <1> QED BY <1>4, <1>5, <1>10, <1>11, <1>12, <1>13 DEF Next

\* Each line is drawn with the sprites fetched in the line before it in the same frame
\* (PPU_Update's HBlank and FetchSpriteData), whatever frames were skipped, run ahead,
\* loaded or reset before; line 1, as long as the frame has one field, unless the frame
\* before was not drawn, and then it is never so: no fetch of this frame has been made.
THEOREM SpritesAreFetched == Spec => []SpritesFetched
  <1>1. TypeInv /\ Fetched => SpritesFetched
    <2> SUFFICES ASSUME TypeInv, Fetched, queue # <<>>, Head(queue).kind = "line", Arg = 1 => elapsed <= Lines + 1
                 PROVE  fetched = IF Arg = 1 /\ before THEN Old ELSE Arg - 1
      BY DEF SpritesFetched
    <2>1. AllFetched(queue, fetched, rEs, before, Early) /\ queue \in Seq(Commands)
      BY DEF Fetched, TypeInv, QueueOK
    <2>2. PICK next : next = IF Head(queue).kind = "fetch" THEN Got(Head(queue), rEs) ELSE fetched
      OBVIOUS
    <2>3. Head(queue).arg = 1 => Early
      BY DEF Arg, Early
    <2>4. fetched = Due(Head(queue).arg, before)
      BY <2>1, <2>2, <2>3, FetchRemoved
    <2> QED BY <2>4 DEF Arg, Due
  <1> QED
    BY <1>1, TypeInitially, TypeInductive, CourseInitially, CourseInductive, OwnedInitially, OwnedInductive,
       TimedInitially, TimedInductive, FetchedInitially, FetchedInductive, PTL DEF Spec

----------------------------------------------------------------------------
(* The picture.                                                            *)

Fills(q) == \E i \in 1 .. Len(q) : q[i].kind = "vblank" /\ ~q[i].arg
\* Lines come in order, and after the filling of the rest nothing is drawn.
Ordered(q) ==
  \A i, j \in 1 .. Len(q) : i < j =>
    /\ q[i].kind = "line" /\ q[j].kind = "line" => q[i].arg < q[j].arg
    /\ q[i].kind = "vblank" /\ ~q[i].arg => ~UsesEs(q[j])
\* Of n lines sent, k have been taken.
Remaining(q, k, n) ==
  /\ \A i \in 1 .. Len(q) : q[i].kind = "line" => q[i].arg \in k + 1 .. n
  /\ \A x \in k + 1 .. n : \E i \in 1 .. Len(q) : q[i].kind = "line" /\ q[i].arg = x
\* The last reset is still to come, and nothing is drawn before it.
ResetAhead(q) ==
  \E p \in 1 .. Len(q) :
    /\ q[p].kind = "reset"
    /\ \A i \in 1 .. Len(q) : (Draws(q[i]) => i > p) /\ (q[i].kind = "reset" => i <= p)

\* k lines are drawn from row b on; the last row takes all that are too many.
RowsDrawn(target, pic, b, k) ==
  /\ target = SmallerOf(b + k, OverscanLine)
  /\ \A r \in Rows : r >= b /\ r < b + k /\ r < OverscanLine - 1 => pic[r] = r - b + 1
  /\ config.PAL => \A r \in Rows : r < b => pic[r] = Blank
Whole(pic) ==
  \A r \in DisplayRect :
    /\ pic[r] # Old
    /\ r - 1 \in DisplayRect /\ pic[r] > 1 => pic[r - 1] = pic[r] - 1

\* How far the renderer is with a frame of which n lines were sent, and, if it
\* is over, the command to fill the rest.
Stage(q, target, pic, n, over) ==
  \/ ResetAhead(q) /\ Remaining(q, 0, n) /\ (over => Fills(q))
  \/ /\ ~HasReset(q) /\ (over => Fills(q))
     /\ \E b \in {0, Offset}, k \in 0 .. n : RowsDrawn(target, pic, b, k) /\ Remaining(q, k, n)
  \/ Unused(q) /\ over /\ Whole(pic)

LinesSent == ppu.scanline - (IF ppu.LinePhase = 0 THEN 1 ELSE 0)
Painting == pc \in {"shown", "sync"} /\ shown /\ ~SkipFrame /\ Live
Painted ==
  Painting =>
    /\ Ordered(queue)
    /\ running /\ ~ppu.VBlank => Stage(queue, LineTarget, picture, LinesSent, FALSE) /\ ~Fills(queue)
    /\ ~running \/ ppu.VBlank =>
         \E n \in VBlankLine - 1 .. OverscanLine - 1 : Stage(queue, LineTarget, picture, n, TRUE)

LEMMA PaintAppended ==
  ASSUME NEW q \in Seq(Commands), NEW c \in Commands, NEW r, r = Append(q, c)
  PROVE  /\ Ordered(q) /\ (~UsesEs(c) \/ (c.kind = "vblank" /\ ~Fills(q))) => Ordered(r)
         /\ \A k, n \in Nat :
              Ordered(q) /\ ~Fills(q) /\ Remaining(q, k, n) /\ k <= n /\ c.kind = "line" /\ c.arg = n + 1
                => Ordered(r) /\ Remaining(r, k, n + 1)
         /\ \A k, n \in Nat : Remaining(q, k, n) /\ c.kind # "line" => Remaining(r, k, n)
         /\ c.kind # "reset" /\ ResetAhead(q) => ResetAhead(r)
         /\ c.kind # "reset" /\ ~HasReset(q) => ~HasReset(r)
         /\ Fills(r) <=> Fills(q) \/ (c.kind = "vblank" /\ ~c.arg)
         /\ Undrawn(q) /\ c.kind = "reset" =>
              Ordered(r) /\ ResetAhead(r) /\ Remaining(r, 0, 0) /\ ~Fills(r)
  <1>1. /\ Len(r) = Len(q) + 1 /\ Len(q) \in Nat /\ r[Len(q) + 1] = c
        /\ \A i \in 1 .. Len(q) : r[i] = q[i] /\ q[i] \in Commands
    BY Appended
  <1>2. \A i \in 1 .. Len(r) : i \in 1 .. Len(q) \/ i = Len(q) + 1
    BY <1>1
  <1>3. \A i \in 1 .. Len(q) : i \in 1 .. Len(r) /\ i < Len(q) + 1
    BY <1>1
  <1>4. Len(q) + 1 \in 1 .. Len(r)
    BY <1>1
  <1>5. ASSUME Ordered(q), ~UsesEs(c) \/ (c.kind = "vblank" /\ ~Fills(q)) PROVE Ordered(r)
    <2> SUFFICES ASSUME NEW i \in 1 .. Len(r), NEW j \in 1 .. Len(r), i < j
                 PROVE  /\ r[i].kind = "line" /\ r[j].kind = "line" => r[i].arg < r[j].arg
                        /\ r[i].kind = "vblank" /\ ~r[i].arg => ~UsesEs(r[j])
      BY DEF Ordered
    <2>1. i \in 1 .. Len(q)
      BY <1>1
    <2>2. CASE j \in 1 .. Len(q)
      BY <1>1, <1>5, <2>1, <2>2 DEF Ordered
    <2>3. CASE j = Len(q) + 1
      BY <1>1, <1>5, <2>1, <2>3 DEF Fills, UsesEs
    <2> QED BY <1>2, <2>2, <2>3
  <1>6. ASSUME NEW k \in Nat, NEW n \in Nat, Ordered(q), ~Fills(q), Remaining(q, k, n), k <= n,
               c.kind = "line", c.arg = n + 1
        PROVE  Ordered(r) /\ Remaining(r, k, n + 1)
    <2>1. Ordered(r)
      <3> SUFFICES ASSUME NEW i \in 1 .. Len(r), NEW j \in 1 .. Len(r), i < j
                   PROVE  /\ r[i].kind = "line" /\ r[j].kind = "line" => r[i].arg < r[j].arg
                          /\ r[i].kind = "vblank" /\ ~r[i].arg => ~UsesEs(r[j])
        BY DEF Ordered
      <3>1. i \in 1 .. Len(q)
        BY <1>1
      <3>2. CASE j \in 1 .. Len(q)
        BY <1>1, <1>6, <3>1, <3>2 DEF Ordered
      <3>3. CASE j = Len(q) + 1
        <4>1. r[j] = c /\ r[i] = q[i]
          BY <1>1, <3>1, <3>3
        <4>2. q[i].kind = "line" => q[i].arg \in k + 1 .. n
          BY <1>6, <3>1 DEF Remaining
        <4>3. ~(q[i].kind = "vblank" /\ ~q[i].arg)
          BY <1>6, <3>1 DEF Fills
        <4> QED BY <1>6, <4>1, <4>2, <4>3
      <3> QED BY <1>2, <3>2, <3>3
    <2>2. \A i \in 1 .. Len(r) : r[i].kind = "line" => r[i].arg \in k + 1 .. n + 1
      <3> SUFFICES ASSUME NEW i \in 1 .. Len(r), r[i].kind = "line" PROVE r[i].arg \in k + 1 .. n + 1
        OBVIOUS
      <3>1. CASE i \in 1 .. Len(q)
        BY <1>1, <1>6, <3>1 DEF Remaining
      <3>2. CASE i = Len(q) + 1
        BY <1>1, <1>6, <3>2
      <3> QED BY <1>2, <3>1, <3>2
    <2>3. \A x \in k + 1 .. n + 1 : \E i \in 1 .. Len(r) : r[i].kind = "line" /\ r[i].arg = x
      <3> SUFFICES ASSUME NEW x \in k + 1 .. n + 1 PROVE \E i \in 1 .. Len(r) : r[i].kind = "line" /\ r[i].arg = x
        OBVIOUS
      <3>1. CASE x = n + 1
        BY <1>1, <1>4, <1>6, <3>1
      <3>2. CASE x # n + 1
        <4>1. x \in k + 1 .. n
          BY <3>2
        <4> QED BY <1>1, <1>3, <1>6, <4>1 DEF Remaining
      <3> QED BY <3>1, <3>2
    <2> QED BY <2>1, <2>2, <2>3 DEF Remaining
  <1>7. ASSUME NEW k \in Nat, NEW n \in Nat, Remaining(q, k, n), c.kind # "line" PROVE Remaining(r, k, n)
    BY <1>1, <1>2, <1>3, <1>7 DEF Remaining
  <1>8. ASSUME c.kind # "reset", ResetAhead(q) PROVE ResetAhead(r)
    <2>1. PICK p \in 1 .. Len(q) :
             /\ q[p].kind = "reset"
             /\ \A i \in 1 .. Len(q) : (Draws(q[i]) => i > p) /\ (q[i].kind = "reset" => i <= p)
      BY <1>8 DEF ResetAhead
    <2>2. \A i \in 1 .. Len(r) : (Draws(r[i]) => i > p) /\ (r[i].kind = "reset" => i <= p)
      BY <1>1, <1>2, <1>3, <1>8, <2>1
    <2> QED BY <1>1, <1>3, <2>1, <2>2 DEF ResetAhead
  <1>9. c.kind # "reset" /\ ~HasReset(q) => ~HasReset(r)
    BY <1>1, <1>2 DEF HasReset
  <1>10. Fills(r) <=> Fills(q) \/ (c.kind = "vblank" /\ ~c.arg)
    BY <1>1, <1>2, <1>3, <1>4 DEF Fills
  <1>11. ASSUME Undrawn(q), c.kind = "reset"
         PROVE  Ordered(r) /\ ResetAhead(r) /\ Remaining(r, 0, 0) /\ ~Fills(r)
    <2>1. \A i \in 1 .. Len(r) : ~Draws(r[i])
      BY <1>1, <1>2, <1>11 DEF Undrawn, Draws
    <2>2. ResetAhead(r)
      <3>1. \A i \in 1 .. Len(r) : i <= Len(q) + 1
        BY <1>1
      <3> QED BY <1>1, <1>4, <1>11, <2>1, <3>1 DEF ResetAhead
    <2> QED BY <2>1, <2>2 DEF Ordered, Remaining, Fills, Draws
  <1>12. /\ Ordered(q) /\ (~UsesEs(c) \/ (c.kind = "vblank" /\ ~Fills(q))) => Ordered(r)
         /\ c.kind # "reset" /\ ResetAhead(q) => ResetAhead(r)
    BY <1>5, <1>8
  <1> QED BY <1>6, <1>7, <1>9, <1>10, <1>11, <1>12

LEMMA PaintRemoved ==
  ASSUME NEW q \in Seq(Commands), q # <<>>, NEW h, h = Head(q), NEW r, r = Tail(q)
  PROVE  /\ Ordered(q) => Ordered(r)
         /\ ResetAhead(q) => ~Draws(h) /\ (ResetAhead(r) \/ (h.kind = "reset" /\ ~HasReset(r)))
         /\ ~HasReset(q) => ~HasReset(r) /\ h.kind # "reset"
         /\ \A k, n \in Nat : Remaining(q, k, n) /\ h.kind # "line" => Remaining(r, k, n)
         /\ \A k, n \in Nat : Ordered(q) /\ Remaining(q, k, n) /\ h.kind = "line"
                                => h.arg = k + 1 /\ k + 1 <= n /\ Remaining(r, k + 1, n)
         /\ Fills(q) => Fills(r) \/ (h.kind = "vblank" /\ ~h.arg)
         /\ Fills(r) => Fills(q)
         /\ h.kind = "vblank" /\ ~h.arg => Fills(q)
         /\ Ordered(q) /\ h.kind = "vblank" /\ ~h.arg => Unused(r)
  <1>1. /\ Len(r) = Len(q) - 1 /\ Len(q) \in Nat \ {0} /\ h = q[1]
        /\ \A i \in 1 .. Len(q) - 1 : r[i] = q[i + 1]
        /\ \A i \in 1 .. Len(q) : q[i] \in Commands
    BY Removed
  <1>2. \A i \in 1 .. Len(r) : i + 1 \in 1 .. Len(q) /\ r[i] = q[i + 1] /\ 1 < i + 1
    BY <1>1
  <1>3. \A i \in 1 .. Len(q) : i = 1 \/ (i - 1 \in 1 .. Len(r) /\ r[i - 1] = q[i])
    BY <1>1
  <1>4. 1 \in 1 .. Len(q)
    BY <1>1
  <1>5. ASSUME Ordered(q) PROVE Ordered(r)
    <2> SUFFICES ASSUME NEW i \in 1 .. Len(r), NEW j \in 1 .. Len(r), i < j
                 PROVE  /\ r[i].kind = "line" /\ r[j].kind = "line" => r[i].arg < r[j].arg
                        /\ r[i].kind = "vblank" /\ ~r[i].arg => ~UsesEs(r[j])
      BY DEF Ordered
    <2>1. i + 1 < j + 1
      OBVIOUS
    <2> QED BY <1>2, <1>5, <2>1 DEF Ordered
  <1>6. ASSUME ResetAhead(q) PROVE ~Draws(h) /\ (ResetAhead(r) \/ (h.kind = "reset" /\ ~HasReset(r)))
    <2>1. PICK p \in 1 .. Len(q) :
             /\ q[p].kind = "reset"
             /\ \A i \in 1 .. Len(q) : (Draws(q[i]) => i > p) /\ (q[i].kind = "reset" => i <= p)
      BY <1>6 DEF ResetAhead
    <2>2. ~Draws(h)
      BY <1>1, <1>4, <2>1
    <2>3. CASE p = 1
      <3>1. ~HasReset(r)
        BY <1>2, <2>1, <2>3 DEF HasReset
      <3> QED BY <1>1, <2>1, <2>2, <2>3, <3>1
    <2>4. CASE p # 1
      <3>1. p - 1 \in 1 .. Len(r) /\ r[p - 1].kind = "reset"
        BY <1>3, <2>1, <2>4
      <3>2. ASSUME NEW i \in 1 .. Len(r) PROVE (Draws(r[i]) => i > p - 1) /\ (r[i].kind = "reset" => i <= p - 1)
        <4>1. /\ Draws(r[i]) => i + 1 > p
              /\ r[i].kind = "reset" => i + 1 <= p
          BY <1>2, <2>1
        <4> QED BY <4>1
      <3> QED BY <2>2, <3>1, <3>2 DEF ResetAhead
    <2> QED BY <2>3, <2>4
  <1>7. ~HasReset(q) => ~HasReset(r) /\ h.kind # "reset"
    BY <1>1, <1>2, <1>4 DEF HasReset
  <1>8. ASSUME NEW k \in Nat, NEW n \in Nat, Remaining(q, k, n), h.kind # "line" PROVE Remaining(r, k, n)
    <2>1. ASSUME NEW x \in k + 1 .. n PROVE \E i \in 1 .. Len(r) : r[i].kind = "line" /\ r[i].arg = x
      <3>1. PICK i \in 1 .. Len(q) : q[i].kind = "line" /\ q[i].arg = x
        BY <1>8 DEF Remaining
      <3>2. i # 1
        BY <1>1, <1>8, <3>1
      <3> QED BY <1>3, <3>1, <3>2
    <2> QED BY <1>2, <1>8, <2>1 DEF Remaining
  <1>9. ASSUME NEW k \in Nat, NEW n \in Nat, Ordered(q), Remaining(q, k, n), h.kind = "line"
        PROVE  h.arg = k + 1 /\ k + 1 <= n /\ Remaining(r, k + 1, n)
    <2>1. h.arg \in k + 1 .. n
      BY <1>1, <1>4, <1>9 DEF Remaining
    <2>2. \A i \in 1 .. Len(r) : r[i].kind = "line" => h.arg < r[i].arg /\ r[i].arg \in k + 1 .. n
      BY <1>1, <1>2, <1>4, <1>9 DEF Ordered, Remaining
    <2>3. \A x \in k + 1 .. n : x = h.arg \/ \E i \in 1 .. Len(r) : r[i].kind = "line" /\ r[i].arg = x
      <3> SUFFICES ASSUME NEW x \in k + 1 .. n, x # h.arg
                   PROVE  \E i \in 1 .. Len(r) : r[i].kind = "line" /\ r[i].arg = x
        OBVIOUS
      <3>1. PICK i \in 1 .. Len(q) : q[i].kind = "line" /\ q[i].arg = x
        BY <1>9 DEF Remaining
      <3>2. i # 1
        BY <1>1, <3>1
      <3> QED BY <1>3, <3>1, <3>2
    <2>4. h.arg = k + 1
      <3> SUFFICES ASSUME h.arg # k + 1 PROVE FALSE
        OBVIOUS
      <3>1. k + 1 \in k + 1 .. n /\ k + 1 < h.arg
        BY <2>1
      <3>2. PICK i \in 1 .. Len(r) : r[i].kind = "line" /\ r[i].arg = k + 1
        BY <2>3, <3>1
      <3> QED BY <2>1, <2>2, <3>1, <3>2
    <2>5. \A i \in 1 .. Len(r) : r[i].kind = "line" => r[i].arg \in (k + 1) + 1 .. n
      BY <2>2, <2>4
    <2>6. \A x \in (k + 1) + 1 .. n : x \in k + 1 .. n /\ x # h.arg
      BY <2>4
    <2>7. Remaining(r, k + 1, n)
      BY <2>3, <2>5, <2>6 DEF Remaining
    <2> QED BY <2>1, <2>4, <2>7
  <1>10. Fills(q) => Fills(r) \/ (h.kind = "vblank" /\ ~h.arg)
    <2> SUFFICES ASSUME NEW i \in 1 .. Len(q), q[i].kind = "vblank", ~q[i].arg
                 PROVE  Fills(r) \/ (h.kind = "vblank" /\ ~h.arg)
      BY DEF Fills
    <2> QED BY <1>1, <1>3 DEF Fills
  <1>11. (Fills(r) => Fills(q)) /\ (h.kind = "vblank" /\ ~h.arg => Fills(q))
    BY <1>1, <1>2, <1>4 DEF Fills
  <1>12. Ordered(q) /\ h.kind = "vblank" /\ ~h.arg => Unused(r)
    BY <1>1, <1>2, <1>4 DEF Ordered, Unused
  <1> QED BY <1>5, <1>6, <1>7, <1>8, <1>9, <1>10, <1>11, <1>12

\* When the rest is filled, all rows that are shown have been drawn.
LEMMA FillsTheRest ==
  ASSUME TypeInv, NEW b \in {0, Offset}, NEW n \in VBlankLine - 1 .. OverscanLine - 1,
         RowsDrawn(LineTarget, picture, b, n), EnterVBlank, ~Arg
  PROVE  Whole(picture')
  <1> DEFINE bound == IF config.PAL THEN OverscanLine - 1 ELSE Offset + VBlankLine - 1
  <1>1. \A r \in Rows : picture'[r] = IF r \in LineTarget .. bound - 1 THEN Blank ELSE picture[r]
    BY DEF EnterVBlank, Zeroed
  <1>2. /\ LineTarget = IF b + n < OverscanLine THEN b + n ELSE OverscanLine
        /\ \A r \in Rows : r >= b /\ r < b + n /\ r < OverscanLine - 1 => picture[r] = r - b + 1
        /\ config.PAL => \A r \in Rows : r < b => picture[r] = Blank
    BY DEF RowsDrawn, SmallerOf
  <1>3. /\ {OverscanLine, Offset, VBlankLine} \subseteq Nat /\ 1 < VBlankLine /\ VBlankLine + Offset <= OverscanLine
        /\ Rows = 0 .. OverscanLine - 1 /\ b \in Nat /\ b <= Offset /\ n \in Nat /\ n >= VBlankLine - 1
    BY LinesAssumption DEF Rows
  <1>4. /\ bound = IF config.PAL THEN OverscanLine - 1 ELSE Offset + VBlankLine - 1
        /\ DisplayRect = IF config.PAL THEN 0 .. OverscanLine - 2 ELSE Offset .. Offset + VBlankLine - 2
    BY DEF DisplayRect
  <1> HIDE DEF bound
  <1>5. ASSUME NEW r \in DisplayRect
        PROVE  /\ r \in Rows /\ r < OverscanLine - 1
               /\ r < b => picture'[r] = Blank
               /\ r >= b /\ r < b + n => picture'[r] = r - b + 1
               /\ r >= b + n => picture'[r] = Blank
    <2>1. r \in Int /\ r >= 0 /\ r < OverscanLine - 1 /\ r < bound
      BY <1>3, <1>4
    <2>2. r \in Rows
      BY <1>3, <2>1
    <2>3. ASSUME r < b PROVE picture'[r] = Blank
      <3>1. config.PAL
        BY <1>3, <1>4, <2>1, <2>3
      <3> QED BY <1>1, <1>2, <2>2, <2>3, <3>1
    <2>4. ASSUME r >= b, r < b + n PROVE picture'[r] = r - b + 1
      <3>1. r < LineTarget
        BY <1>2, <1>3, <2>1, <2>4
      <3>2. r \notin LineTarget .. bound - 1
        BY <1>2, <1>3, <1>4, <3>1, <2>1
      <3> QED BY <1>1, <1>2, <2>1, <2>2, <2>4, <3>2
    <2>5. ASSUME r >= b + n PROVE picture'[r] = Blank
      <3>1. LineTarget = b + n
        <4>1. b + n < OverscanLine
          BY <1>3, <2>1, <2>5
        <4> QED BY <1>2, <4>1
      <3>2. bound \in Int
        BY <1>3, <1>4
      <3>3. r \in LineTarget .. bound - 1
        BY <1>3, <2>1, <2>5, <3>1, <3>2
      <3> QED BY <1>1, <2>2, <3>3
    <2> QED BY <2>1, <2>2, <2>3, <2>4, <2>5
  <1>6. DisplayRect \subseteq Int
    BY <1>3, <1>4
  <1>7. ASSUME NEW r \in DisplayRect PROVE picture'[r] # Old
    <2>1. r \in Int /\ (r < b \/ (r >= b /\ r < b + n) \/ r >= b + n)
      BY <1>3, <1>6
    <2>2. r >= b => r - b + 1 # Old
      BY <1>3, <2>1 DEF Old
    <2> QED BY <1>5, <2>1, <2>2 DEF Old, Blank
  <1>8. ASSUME NEW r \in DisplayRect, r - 1 \in DisplayRect, picture'[r] > 1 PROVE picture'[r - 1] = picture'[r] - 1
    <2>1. r \in Int
      BY <1>6
    <2>2. r >= b /\ r < b + n /\ picture'[r] = r - b + 1
      BY <1>3, <1>5, <1>8, <2>1 DEF Blank
    <2>3. r - 1 >= b /\ r - 1 < b + n
      BY <1>3, <1>8, <2>1, <2>2
    <2>4. picture'[r - 1] = (r - 1) - b + 1
      BY <1>5, <1>8, <2>3
    <2> QED BY <1>3, <2>1, <2>2, <2>4
  <1> QED BY <1>7, <1>8 DEF Whole

\* A line goes into the next row.
LEMMA DrawsARow ==
  ASSUME TypeInv, NEW b \in {0, Offset}, NEW k \in Nat, RowsDrawn(LineTarget, picture, b, k), RenderLine, Arg = k + 1
  PROVE  RowsDrawn(LineTarget', picture', b, k + 1)
  <1> DEFINE row == SmallerOf(LineTarget, OverscanLine - 1)
  <1>1. picture' = [picture EXCEPT ![row] = k + 1] /\ LineTarget' = row + 1
    BY DEF RenderLine
  <1>2. /\ LineTarget = IF b + k < OverscanLine THEN b + k ELSE OverscanLine
        /\ \A r \in Rows : r >= b /\ r < b + k /\ r < OverscanLine - 1 => picture[r] = r - b + 1
        /\ config.PAL => \A r \in Rows : r < b => picture[r] = Blank
    BY DEF RowsDrawn, SmallerOf
  <1>3. /\ OverscanLine \in Nat /\ OverscanLine > 1 /\ Rows = 0 .. OverscanLine - 1
        /\ b \in Nat /\ b <= OverscanLine - 1
    BY LinesAssumption DEF Rows
  <1>4. row = IF b + k < OverscanLine THEN b + k ELSE OverscanLine - 1
    BY <1>2, <1>3 DEF SmallerOf
  <1> HIDE DEF row
  <1>5. DOMAIN picture = Rows /\ row \in Rows
    BY <1>3, <1>4 DEF TypeInv, TypeOK
  <1>6. \A r \in Rows : picture'[r] = IF r = row THEN k + 1 ELSE picture[r]
    BY <1>1, <1>5
  <1>7. LineTarget' = SmallerOf(b + (k + 1), OverscanLine)
    BY <1>1, <1>3, <1>4 DEF SmallerOf
  <1>8. ASSUME NEW r \in Rows, r >= b, r < b + (k + 1), r < OverscanLine - 1 PROVE picture'[r] = r - b + 1
    <2>1. r \in Int
      BY <1>3
    <2>2. CASE r = row
      <3>1. r = b + k
        BY <1>3, <1>4, <1>8, <2>1, <2>2
      <3> QED BY <1>3, <1>6, <2>2, <3>1
    <2>3. CASE r # row
      <3>1. r < b + k
        BY <1>3, <1>4, <1>8, <2>1, <2>3
      <3> QED BY <1>2, <1>6, <1>8, <2>3, <3>1
    <2> QED BY <2>2, <2>3
  <1>9. config.PAL => \A r \in Rows : r < b => picture'[r] = Blank
    <2>1. \A r \in Rows : r < b => r # row
      BY <1>3, <1>4
    <2> QED BY <1>2, <1>6, <2>1
  <1> QED BY <1>7, <1>8, <1>9 DEF RowsDrawn

\* What the emulation thread adds to the queue leaves the renderer's stage, or
\* brings the frame forward.
LEMMA StageAppended ==
  ASSUME NEW q \in Seq(Commands), NEW c \in Commands, NEW r, r = Append(q, c),
         NEW target, NEW pic, NEW n \in Nat, NEW over \in BOOLEAN,
         Ordered(q), Stage(q, target, pic, n, over)
  PROVE  /\ ~UsesEs(c) => Ordered(r) /\ Stage(r, target, pic, n, over) /\ (Fills(r) => Fills(q))
         /\ c.kind = "line" /\ c.arg = n + 1 /\ ~over /\ ~Fills(q) =>
              Ordered(r) /\ Stage(r, target, pic, n + 1, FALSE) /\ ~Fills(r)
         /\ c.kind = "vblank" /\ ~c.arg /\ ~over /\ ~Fills(q) => Ordered(r) /\ Stage(r, target, pic, n, TRUE)
  <1>1. ASSUME ~UsesEs(c) PROVE Ordered(r) /\ Stage(r, target, pic, n, over) /\ (Fills(r) => Fills(q))
    <2>1. c.kind # "line" /\ c.kind # "reset" /\ ~(c.kind = "vblank" /\ ~c.arg)
      BY <1>1 DEF UsesEs
    <2>2. Ordered(r) /\ (Fills(r) <=> Fills(q))
      BY <1>1, <2>1, PaintAppended
    <2>3. \A k \in Nat : Remaining(q, k, n) => Remaining(r, k, n)
      BY <2>1, PaintAppended
    <2>4. /\ ResetAhead(q) => ResetAhead(r)
          /\ ~HasReset(q) => ~HasReset(r)
          /\ Unused(q) => Unused(r)
      BY <1>1, <2>1, PaintAppended, OwnAppended
    <2>5. \A k \in 0 .. n : k \in Nat
      OBVIOUS
    <2> QED BY <2>2, <2>3, <2>4, <2>5 DEF Stage
  <1>2. ASSUME c.kind \in {"line", "vblank"}, ~over
        PROVE  /\ ResetAhead(q) => ResetAhead(r)
               /\ ~HasReset(q) => ~HasReset(r)
               /\ \/ ResetAhead(q) /\ Remaining(q, 0, n)
                  \/ /\ ~HasReset(q)
                     /\ \E b \in {0, Offset}, k \in 0 .. n : RowsDrawn(target, pic, b, k) /\ Remaining(q, k, n)
    BY <1>2, PaintAppended DEF Stage
  <1>3. ASSUME c.kind = "line", c.arg = n + 1, ~over, ~Fills(q)
        PROVE  Ordered(r) /\ Stage(r, target, pic, n + 1, FALSE) /\ ~Fills(r)
    <2>1. ASSUME NEW k \in 0 .. n, Remaining(q, k, n) PROVE Ordered(r) /\ Remaining(r, k, n + 1)
      <3>1. k \in Nat /\ k <= n
        OBVIOUS
      <3> QED BY <1>3, <2>1, <3>1, PaintAppended
    <2>2. ~Fills(r)
      BY <1>3, PaintAppended
    <2>3. \A k \in 0 .. n : k \in 0 .. n + 1
      OBVIOUS
    <2>4. 0 \in 0 .. n
      OBVIOUS
    <2> QED BY <1>2, <1>3, <2>1, <2>2, <2>3, <2>4 DEF Stage
  <1>4. ASSUME c.kind = "vblank", ~c.arg, ~over, ~Fills(q) PROVE Ordered(r) /\ Stage(r, target, pic, n, TRUE)
    <2>1. Ordered(r) /\ Fills(r) /\ \A k \in Nat : Remaining(q, k, n) => Remaining(r, k, n)
      BY <1>4, PaintAppended
    <2>2. \A k \in 0 .. n : k \in Nat
      OBVIOUS
    <2> QED BY <1>2, <1>4, <2>1, <2>2 DEF Stage
  <1> QED BY <1>1, <1>3, <1>4

\* What the renderer does with the first command.
LEMMA StageAdvances ==
  ASSUME TypeInv, RenderStep, NEW n \in 1 .. OverscanLine - 1, NEW over \in BOOLEAN, over => n >= VBlankLine - 1,
         Ordered(queue), Stage(queue, LineTarget, picture, n, over), ~over => ~Fills(queue)
  PROVE  /\ Ordered(queue') /\ Stage(queue', LineTarget', picture', n, over)
         /\ ~over => ~Fills(queue')
  <1> DEFINE h == Head(queue)
  <1>1. queue # <<>> /\ queue' = Tail(queue) /\ queue \in Seq(Commands) /\ h \in Commands
    <2>1. queue # <<>> /\ queue' = Tail(queue)
      BY DEF RenderStep, ResetLineTarget, RenderLine, EnterVBlank, FetchSpriteData, SetMode, Take
    <2> QED BY <2>1, Removed DEF TypeInv, QueueOK
  <1>2. Ordered(queue') /\ (~over => ~Fills(queue'))
    BY <1>1, PaintRemoved
  <1>3. n \in Nat /\ OverscanLine \in Nat /\ Offset \in Nat /\ Offset < OverscanLine /\ OverscanLine > 1
    BY LinesAssumption
  <1>4. \A k \in 0 .. n : k \in Nat
    BY <1>3
  <1>5. CASE ResetLineTarget
    <2>1. h.kind = "reset" /\ UsesEs(h) /\ ~(h.kind = "vblank" /\ ~h.arg) /\ h.kind # "line"
      BY <1>5 DEF ResetLineTarget, Take, UsesEs
    <2>2. ~Unused(queue) /\ HasReset(queue)
      BY <1>1, <2>1, Removed DEF Unused, HasReset
    <2>3. ResetAhead(queue) /\ Remaining(queue, 0, n) /\ (over => Fills(queue))
      BY <2>2 DEF Stage
    <2>4. Remaining(queue', 0, n) /\ (over => Fills(queue')) /\ (ResetAhead(queue') \/ ~HasReset(queue'))
      BY <1>1, <1>3, <2>1, <2>3, PaintRemoved
    <2>5. CASE ResetAhead(queue')
      BY <1>2, <2>4, <2>5 DEF Stage
    <2>6. CASE ~HasReset(queue')
      <3> DEFINE b == IF rOverscan THEN 0 ELSE Offset
      <3>1. b \in {0, Offset} /\ LineTarget' = b /\ b \in Nat /\ b <= OverscanLine
        BY <1>3, <1>5 DEF ResetLineTarget
      <3>2. picture' = IF config.PAL THEN Zeroed(0, b) ELSE picture
        BY <1>5, <3>1 DEF ResetLineTarget
      <3> HIDE DEF b
      <3>3. LineTarget' = SmallerOf(b + 0, OverscanLine)
        BY <1>3, <3>1 DEF SmallerOf
      <3>4. \A r \in Rows : r >= b => ~(r < b + 0)
        BY <1>3, <3>1 DEF Rows
      <3>5. config.PAL => \A r \in Rows : r < b => picture'[r] = Blank
        <4> SUFFICES ASSUME config.PAL, NEW r \in Rows, r < b PROVE picture'[r] = Blank
          OBVIOUS
        <4>1. r \in 0 .. b - 1
          BY <1>3, <3>1 DEF Rows
        <4> QED BY <3>2, <4>1 DEF Zeroed
      <3>6. RowsDrawn(LineTarget', picture', b, 0)
        BY <3>3, <3>4, <3>5 DEF RowsDrawn
      <3>7. \E c \in {0, Offset}, m \in 0 .. n : RowsDrawn(LineTarget', picture', c, m) /\ Remaining(queue', m, n)
        <4>1. 0 \in 0 .. n
          BY <1>3
        <4> QED BY <2>4, <3>1, <3>6, <4>1
      <3> QED BY <1>2, <2>4, <2>6, <3>7 DEF Stage
    <2> QED BY <1>2, <2>4, <2>5, <2>6
  <1>6. CASE RenderLine
    <2>1. h.kind = "line" /\ UsesEs(h) /\ Draws(h) /\ h.kind # "vblank" /\ Arg = h.arg
      BY <1>6 DEF RenderLine, Take, UsesEs, Draws, Arg
    <2>2. ~Unused(queue) /\ ~ResetAhead(queue)
      BY <1>1, <2>1, Removed, PaintRemoved DEF Unused
    <2>3. ~HasReset(queue) /\ (over => Fills(queue))
      BY <2>2 DEF Stage
    <2>4. PICK b \in {0, Offset}, k \in 0 .. n : RowsDrawn(LineTarget, picture, b, k) /\ Remaining(queue, k, n)
      BY <2>2 DEF Stage
    <2>5. h.arg = k + 1 /\ k + 1 <= n /\ Remaining(queue', k + 1, n)
      BY <1>1, <1>3, <1>4, <2>1, <2>4, PaintRemoved
    <2>6. RowsDrawn(LineTarget', picture', b, k + 1)
      BY <1>4, <1>6, <2>1, <2>4, <2>5, DrawsARow
    <2>7. ~HasReset(queue') /\ (over => Fills(queue'))
      BY <1>1, <2>1, <2>3, PaintRemoved
    <2>8. k + 1 \in 0 .. n
      BY <1>3, <2>5
    <2>9. \E c \in {0, Offset}, m \in 0 .. n : RowsDrawn(LineTarget', picture', c, m) /\ Remaining(queue', m, n)
      BY <2>5, <2>6, <2>8
    <2> QED BY <1>2, <2>7, <2>9 DEF Stage
  <1>7. CASE EnterVBlank /\ ~Arg
    <2>1. h.kind = "vblank" /\ ~h.arg /\ UsesEs(h) /\ Draws(h) /\ h.kind # "line" /\ Arg = h.arg
      BY <1>7 DEF EnterVBlank, Take, UsesEs, Draws, Arg
    <2>2. ~Unused(queue) /\ ~ResetAhead(queue)
      BY <1>1, <2>1, Removed, PaintRemoved DEF Unused
    <2>3. PICK b \in {0, Offset}, k \in 0 .. n : RowsDrawn(LineTarget, picture, b, k) /\ Remaining(queue, k, n)
      BY <2>2 DEF Stage
    <2>4. over /\ Unused(queue')
      BY <1>1, <2>1, PaintRemoved
    <2>5. Remaining(queue', k, n)
      BY <1>1, <1>3, <1>4, <2>1, <2>3, PaintRemoved
    <2>6. k = n
      <3>1. \A x \in k + 1 .. n : FALSE
        BY <2>4, <2>5 DEF Remaining, Unused, UsesEs
      <3> QED BY <1>3, <3>1
    <2>7. n \in VBlankLine - 1 .. OverscanLine - 1
      BY <2>4, LinesAssumption
    <2>8. Whole(picture')
      BY <1>7, <2>3, <2>6, <2>7, FillsTheRest
    <2>9. Stage(queue', LineTarget', picture', n, over)
      BY <2>4, <2>8 DEF Stage
    <2> QED BY <1>2, <2>9
  <1>8. CASE (EnterVBlank /\ Arg) \/ FetchSpriteData \/ SetMode
    <2>1. /\ h.kind \in {"vblank", "fetch", "mode"} /\ (h.kind = "vblank" => h.arg)
          /\ LineTarget' = LineTarget /\ picture' = picture
      BY <1>8 DEF EnterVBlank, FetchSpriteData, SetMode, Take, Arg
    <2>2. \A k \in 0 .. n : Remaining(queue, k, n) => Remaining(queue', k, n)
      BY <1>1, <1>3, <1>4, <2>1, PaintRemoved
    <2>3. (Fills(queue) => Fills(queue')) /\ (ResetAhead(queue) => ResetAhead(queue'))
          /\ (~HasReset(queue) => ~HasReset(queue')) /\ (Unused(queue) => Unused(queue'))
      BY <1>1, <2>1, PaintRemoved, OwnRemoved
    <2>4. 0 \in 0 .. n
      BY <1>3
    <2> QED BY <1>2, <2>1, <2>2, <2>3, <2>4 DEF Stage
  <1>9. EnterVBlank => Arg \in BOOLEAN
    BY <1>1 DEF EnterVBlank, Take, Arg, Commands, ArgOK
  <1> QED BY <1>5, <1>6, <1>7, <1>8, <1>9 DEF RenderStep

LEMMA PaintedInitially == Init => Painted
  BY DEF Init, Painted, Painting

LEMMA PaintedInductive == TypeInv /\ Course /\ Owned /\ Painted /\ [Next]_vars => Painted'
  <1> SUFFICES ASSUME TypeInv, Course, Owned, Painted, [Next]_vars PROVE Painted'
    OBVIOUS
  <1>0. /\ queue \in Seq(Commands) /\ ppu \in State /\ elapsed \in Nat /\ Lines \in Nat
        /\ ppu.scanline \in 0 .. Lines /\ ppu.VBlank \in BOOLEAN
        /\ SkipFrame \in BOOLEAN /\ shown \in BOOLEAN /\ running \in BOOLEAN
    BY LinesAssumption DEF TypeInv, QueueOK, TypeOK, State
  <1>1. ASSUME Painting, running, ~ppu.VBlank
        PROVE  /\ ppu.scanline < OverscanLine /\ ppu.scanline >= 1 /\ ~Fresh(ppu) /\ ~Before(ppu)
               /\ LinesSent \in 1 .. OverscanLine - 1
    <2>1. ppu.scanline >= 1 /\ ~Fresh(ppu) /\ (ppu.scanline = 1 => ppu.LinePhase # 0)
      BY <1>1 DEF Course, Painting
    <2>2. ppu.scanline < OverscanLine
      BY <1>1, <2>1 DEF Course, InRange
    <2>3. ~Before(ppu)
      BY <1>1, <2>1 DEF Before
    <2>4. LinesSent \in 1 .. OverscanLine - 1
      BY <1>0, <2>1, <2>2, LinesAssumption DEF LinesSent
    <2> QED BY <2>1, <2>2, <2>3, <2>4
  <1>3. ASSUME pc' \notin {"shown", "sync"} \/ ~shown' PROVE Painted'
    BY <1>3 DEF Painted, Painting
  <1>4. ASSUME EmulateStep PROVE Painted'
    <2>1. CASE EndReal
      BY <2>1 DEF EndReal, renderer, Painted, Painting, Live, LinesSent, Stage, RowsDrawn, Whole, DisplayRect
    <2>2. CASE Sync
      BY <1>3, <2>2 DEF Sync
    <2>3. ASSUME NEW s \in {0, 1}, Ahead(s) PROVE Painted'
      BY <1>3, <2>3 DEF Ahead, StartFrame
    <2> QED BY <1>4, <2>1, <2>2, <2>3 DEF EmulateStep
  <1>5. ASSUME UserStep PROVE Painted'
    <2>1. CASE SaveState \/ LoadState \/ Reset
      BY <1>3, <2>1 DEF SaveState, LoadState, Reset
    <2>2. ASSUME NEW s \in {0, 1}, Emulate(s) PROVE Painted'
      BY <1>3, <2>2 DEF Emulate, StartFrame
    <2> QED BY <1>5, <2>1, <2>2 DEF UserStep
  <1>6. ASSUME PPU_Update PROVE Painted'
    <2>1. CASE HBlankEnd
      <3> SUFFICES ASSUME Painting' PROVE Painted'
        BY DEF Painted
      <3> DEFINE c == Command("vblank", SkipFrame)
      <3>1. /\ ppu.LinePhase = 3 /\ c \in Commands /\ c.kind = "vblank" /\ c.arg = SkipFrame
            /\ queue' = IF Begins(ppu) THEN Append(queue, c) ELSE queue
            /\ UNCHANGED <<SkipFrame, shown, config, pc, LineTarget, picture>>
            /\ Begins(ppu) \in BOOLEAN
        BY <2>1, HBlankEndDoes DEF renderer, Command
      <3>2. /\ ppu'.LinePhase = 0 /\ ppu'.scanline = LineAfter(ppu)
            /\ ppu'.VBlank = (LineAfter(ppu) # 0 /\ (ppu.VBlank \/ Begins(ppu)))
            /\ running /\ running' = ~(IF config.FrameBeginVBlank THEN Begins(ppu) ELSE LineAfter(ppu) = 0)
            /\ elapsed' = elapsed + 1
        BY <2>1, HBlankEndDoes
      <3> HIDE DEF c
      <3>3. Painting
        <4>1. Live
          BY <1>0, <3>1, <3>2 DEF Painting, Live
        <4> QED BY <3>1, <4>1 DEF Painting
      <3>4. Ordered(queue) /\ ~SkipFrame
        BY <3>3 DEF Painted, Painting
      <3>5. CASE ~ppu.VBlank
        <4>1. /\ ppu.scanline < OverscanLine /\ ppu.scanline >= 1 /\ ~Fresh(ppu)
              /\ LinesSent = ppu.scanline /\ LinesSent \in 1 .. OverscanLine - 1
          BY <1>0, <1>1, <3>1, <3>2, <3>3, <3>5 DEF LinesSent
        <4>2. Stage(queue, LineTarget, picture, LinesSent, FALSE) /\ ~Fills(queue)
          BY <3>2, <3>3, <3>5 DEF Painted
        <4>3. LineAfter(ppu) = ppu.scanline + 1 /\ (Begins(ppu) => LineAfter(ppu) >= VBlankLine)
          BY <3>5, <4>1, NextVisible DEF Course
        <4>4. LineAfter(ppu) # 0 /\ LineAfter(ppu) - 1 = ppu.scanline
          BY <1>0, <4>3
        <4>5. CASE ~Begins(ppu)
          <5>1. running' /\ ~ppu'.VBlank /\ queue' = queue
            BY <3>1, <3>2, <3>5, <4>4, <4>5
          <5>2. LinesSent' = LinesSent
            BY <3>2, <4>1, <4>4 DEF LinesSent
          <5> QED BY <3>1, <3>4, <4>2, <5>1, <5>2 DEF Painted, Stage, RowsDrawn, Whole, DisplayRect
        <4>6. CASE Begins(ppu)
          <5>1. ppu'.VBlank /\ queue' = Append(queue, c)
            BY <3>1, <3>2, <4>4, <4>6
          <5>2. ppu.scanline \in VBlankLine - 1 .. OverscanLine - 1
            BY <1>0, <4>1, <4>3, <4>6, LinesAssumption
          <5>3. Ordered(queue') /\ Stage(queue', LineTarget, picture, ppu.scanline, TRUE)
            <6>1. ppu.scanline \in Nat
              BY <1>0
            <6>2. c.kind = "vblank" /\ ~c.arg
              BY <3>1, <3>4
            <6>3. Stage(queue, LineTarget, picture, ppu.scanline, FALSE)
              BY <4>1, <4>2
            <6> QED BY <1>0, <3>1, <3>4, <4>2, <5>1, <6>1, <6>2, <6>3, StageAppended
          <5>4. \E n \in VBlankLine - 1 .. OverscanLine - 1 : Stage(queue', LineTarget, picture, n, TRUE)
            BY <5>2, <5>3
          <5> QED BY <3>1, <5>1, <5>3, <5>4 DEF Painted, Stage, RowsDrawn, Whole, DisplayRect
        <4> QED BY <4>5, <4>6
      <3>6. CASE ppu.VBlank
        <4>1. ~Begins(ppu) /\ queue' = queue
          BY <3>1, <3>6 DEF Begins
        <4>2. \E n \in VBlankLine - 1 .. OverscanLine - 1 : Stage(queue, LineTarget, picture, n, TRUE)
          BY <3>3, <3>6 DEF Painted
        <4>3. ~config.FrameBeginVBlank
          BY <3>2, <3>3, <3>6 DEF Painting, Course
        <4>4. ~running' \/ ppu'.VBlank
          BY <3>2, <3>6, <4>3
        <4> QED BY <1>0, <3>1, <3>4, <4>1, <4>2, <4>4, <3>2 DEF Painted, Stage, RowsDrawn, Whole, DisplayRect
      <3> QED BY <1>0, <3>5, <3>6
    <2>2. CASE LineDrawn
      <3> SUFFICES ASSUME Painting' PROVE Painted'
        BY DEF Painted
      <3> DEFINE reset == Command("reset", 0)
                 line  == Command("line", ppu.scanline)
                 first == ppu.scanline = 1 /\ ~Unseen
                 with  == IF first THEN Append(queue, reset) ELSE queue
      <3>1. /\ running /\ running' /\ ppu.LinePhase = 0 /\ ppu'.LinePhase = 1
            /\ ppu'.scanline = ppu.scanline /\ ppu'.VBlank = ppu.VBlank
            /\ SkipFrame' = Unseen
            /\ queue' = IF Visible(ppu) /\ ~Unseen THEN Append(with, line) ELSE with
            /\ shown' = (shown \/ (ppu.scanline = 1 /\ Visible(ppu)))
            /\ reset \in Commands /\ (Visible(ppu) => line \in Commands)
            /\ UNCHANGED <<pc, elapsed, config, LineTarget, picture>>
        BY <2>2, LineDrawnDoes DEF renderer
      <3>2. reset.kind = "reset" /\ line.kind = "line" /\ line.arg = ppu.scanline
        BY DEF Command
      <3> HIDE DEF reset, line
      <3>3. ~Unseen /\ Live /\ pc \in {"shown", "sync"} /\ shown'
        BY <3>1 DEF Painting, Live
      <3>4. LinesSent' = ppu.scanline
        BY <1>0, <3>1 DEF LinesSent
      <3>5. CASE ppu.scanline = 1
        <4>1. ~shown
          BY <3>1, <3>3, <3>5 DEF Course
        <4>2. Visible(ppu) /\ ~ppu.VBlank
          BY <3>1, <3>3, <4>1 DEF Visible
        <4>3. Undrawn(queue)
          BY <4>1 DEF Owned
        <4>4. with = Append(queue, reset) /\ queue' = Append(with, line) /\ line \in Commands
          BY <3>1, <3>3, <3>5, <4>2
        <4>5. with \in Seq(Commands)
          BY <1>0, <3>1, <4>4, Appended
        <4> HIDE DEF with
        <4>6. Ordered(with) /\ ResetAhead(with) /\ Remaining(with, 0, 0) /\ ~Fills(with)
          BY <1>0, <3>1, <3>2, <4>3, <4>4, PaintAppended
        <4>7. Stage(with, LineTarget, picture, 0, FALSE)
          BY <4>6 DEF Stage
        <4>8. Ordered(queue') /\ Stage(queue', LineTarget, picture, 0 + 1, FALSE) /\ ~Fills(queue')
          <5>1. line.arg = 0 + 1
            BY <3>2, <3>5
          <5> QED BY <3>2, <4>4, <4>5, <4>6, <4>7, <5>1, StageAppended
        <4> QED BY <3>1, <3>4, <3>5, <4>2, <4>8 DEF Painted, Stage, RowsDrawn, Whole, DisplayRect
      <3>6. CASE ppu.scanline # 1
        <4>1. Painting
          BY <3>1, <3>3, <3>6 DEF Painting, Unseen
        <4>2. Ordered(queue) /\ with = queue
          BY <3>6, <4>1 DEF Painted
        <4>3. CASE ~ppu.VBlank
          <5>1. /\ Visible(ppu) /\ LinesSent = ppu.scanline - 1 /\ LinesSent \in 1 .. OverscanLine - 1
            <6>1. LinesSent \in 1 .. OverscanLine - 1 /\ ppu.scanline >= 1 /\ ppu.scanline < OverscanLine
              BY <1>1, <3>1, <4>1, <4>3
            <6>2. LinesSent = ppu.scanline - 1
              BY <3>1 DEF LinesSent
            <6>3. ppu.scanline \in 1 .. OverscanLine - 1
              BY <1>0, <6>1, LinesAssumption
            <6> QED BY <4>3, <6>1, <6>2, <6>3 DEF Visible
          <5>2. Stage(queue, LineTarget, picture, ppu.scanline - 1, FALSE) /\ ~Fills(queue)
            BY <3>1, <4>1, <4>3, <5>1 DEF Painted
          <5>3. queue' = Append(queue, line) /\ line \in Commands
            BY <3>1, <3>3, <4>2, <5>1
          <5>4. ppu.scanline - 1 \in Nat /\ line.arg = (ppu.scanline - 1) + 1
            BY <1>0, <3>2, <5>1
          <5>5. Ordered(queue') /\ Stage(queue', LineTarget, picture, (ppu.scanline - 1) + 1, FALSE) /\ ~Fills(queue')
            <6> DEFINE n == ppu.scanline - 1
            <6>1. n \in Nat /\ line.arg = n + 1 /\ Stage(queue, LineTarget, picture, n, FALSE)
              BY <5>2, <5>4
            <6> HIDE DEF n
            <6>2. Ordered(queue') /\ Stage(queue', LineTarget, picture, n + 1, FALSE) /\ ~Fills(queue')
              BY <1>0, <3>2, <4>2, <5>2, <5>3, <6>1, StageAppended
            <6> QED BY <6>2 DEF n
          <5>6. (ppu.scanline - 1) + 1 = ppu.scanline
            BY <1>0
          <5> QED BY <3>1, <3>4, <4>3, <5>5, <5>6 DEF Painted, Stage, RowsDrawn, Whole, DisplayRect
        <4>4. CASE ppu.VBlank
          <5>1. ~Visible(ppu) /\ queue' = queue
            BY <3>1, <4>2, <4>4 DEF Visible
          <5>2. \E n \in VBlankLine - 1 .. OverscanLine - 1 : Stage(queue, LineTarget, picture, n, TRUE)
            BY <4>1, <4>4 DEF Painted
          <5> QED BY <3>1, <4>2, <4>4, <5>1, <5>2 DEF Painted, Stage, RowsDrawn, Whole, DisplayRect
        <4> QED BY <1>0, <4>3, <4>4
      <3> QED BY <3>5, <3>6
    <2>3. CASE MemoryRefresh
      <3>1. LinesSent' = LinesSent
        BY <1>0, <2>3, MemoryRefreshDoes DEF LinesSent
      <3>2. Painting' = Painting
        BY <2>3, MemoryRefreshDoes DEF Painting, Live
      <3> QED BY <2>3, <3>1, <3>2, MemoryRefreshDoes DEF renderer, Painted, Stage, RowsDrawn, Whole, DisplayRect
    <2>4. CASE HBlankBegin
      <3> DEFINE c == Command("fetch", ppu.scanline)
      <3>1. /\ c \in Commands /\ c.kind = "fetch"
            /\ UNCHANGED <<running, SkipFrame, shown, config, elapsed, pc, LineTarget, picture>>
            /\ queue' = IF ~ppu.VBlank /\ ~SkipFrame THEN Append(queue, c) ELSE queue
            /\ ppu.LinePhase = 2 /\ ppu'.LinePhase = 3 /\ ppu'.scanline = ppu.scanline /\ ppu'.VBlank = ppu.VBlank
        BY <2>4, HBlankBeginDoes DEF renderer, Command
      <3> HIDE DEF c
      <3>2. Painting' = Painting /\ LinesSent' = LinesSent /\ ~UsesEs(c)
        BY <3>1 DEF Painting, Live, LinesSent, UsesEs
      <3> SUFFICES ASSUME Painting PROVE Painted'
        BY <3>2 DEF Painted
      <3>3. CASE queue' = queue
        BY <3>1, <3>2, <3>3 DEF Painted, Stage, RowsDrawn, Whole, DisplayRect
      <3>4. CASE ~ppu.VBlank /\ queue' = Append(queue, c)
        <4>1. running /\ LinesSent \in Nat
          <5>1. running
            BY <2>4, HBlankBeginDoes
          <5> QED BY <1>1, <3>4, <5>1, LinesAssumption
        <4>2. Ordered(queue) /\ Stage(queue, LineTarget, picture, LinesSent, FALSE) /\ ~Fills(queue)
          BY <3>4, <4>1 DEF Painted
        <4>3. Ordered(queue') /\ Stage(queue', LineTarget, picture, LinesSent, FALSE) /\ ~Fills(queue')
          BY <1>0, <3>1, <3>2, <3>4, <4>1, <4>2, StageAppended
        <4> QED BY <3>1, <3>2, <3>4, <4>1, <4>3 DEF Painted, Stage, RowsDrawn, Whole, DisplayRect
      <3> QED BY <3>1, <3>3, <3>4
    <2> QED BY <1>6, <2>1, <2>2, <2>3, <2>4 DEF PPU_Update
  <1>7. ASSUME NEW i \in BOOLEAN, NEW o \in BOOLEAN, Write_ScreenMode(i, o) PROVE Painted'
    <2> DEFINE c == Command("mode", o)
    <2>1. /\ c \in Commands /\ c.kind = "mode" /\ queue' = Append(queue, c) /\ running
          /\ UNCHANGED <<running, SkipFrame, shown, config, elapsed, pc, LineTarget, picture>>
          /\ ppu'.LinePhase = ppu.LinePhase /\ ppu'.scanline = ppu.scanline /\ ppu'.VBlank = ppu.VBlank
      BY <1>7, ScreenModeDoes DEF renderer, Command
    <2> HIDE DEF c
    <2>2. Painting' = Painting /\ LinesSent' = LinesSent /\ ~UsesEs(c)
      BY <2>1 DEF Painting, Live, LinesSent, UsesEs
    <2> SUFFICES ASSUME Painting PROVE Painted'
      BY <2>2 DEF Painted
    <2>3. Ordered(queue)
      BY DEF Painted
    <2>4. CASE ~ppu.VBlank
      <3>1. LinesSent \in Nat
        BY <1>1, <2>1, <2>4, LinesAssumption
      <3>2. Stage(queue, LineTarget, picture, LinesSent, FALSE) /\ ~Fills(queue)
        BY <2>1, <2>4 DEF Painted
      <3>3. Ordered(queue') /\ Stage(queue', LineTarget, picture, LinesSent, FALSE) /\ ~Fills(queue')
        BY <1>0, <2>1, <2>2, <2>3, <3>1, <3>2, StageAppended
      <3> QED BY <2>1, <2>2, <2>4, <3>3 DEF Painted, Stage, RowsDrawn, Whole, DisplayRect
    <2>5. CASE ppu.VBlank
      <3>1. PICK n \in VBlankLine - 1 .. OverscanLine - 1 : Stage(queue, LineTarget, picture, n, TRUE)
        BY <2>5 DEF Painted
      <3>2. n \in Nat
        BY LinesAssumption
      <3>3. Ordered(queue') /\ Stage(queue', LineTarget, picture, n, TRUE)
        BY <1>0, <2>1, <2>2, <2>3, <3>1, <3>2, StageAppended
      <3>4. \E m \in VBlankLine - 1 .. OverscanLine - 1 : Stage(queue', LineTarget, picture, m, TRUE)
        BY <3>3
      <3> QED BY <2>1, <2>5, <3>3, <3>4 DEF Painted, Stage, RowsDrawn, Whole, DisplayRect
    <2> QED BY <1>0, <2>4, <2>5
  <1>8. ASSUME RenderStep PROVE Painted'
    <2>1. UNCHANGED <<config, pc, running, SkipFrame, shown, elapsed, ppu>>
      BY <1>8 DEF RenderStep, ResetLineTarget, RenderLine, EnterVBlank, FetchSpriteData, SetMode, Take, emulation
    <2>2. Painting' = Painting /\ LinesSent' = LinesSent
      BY <2>1 DEF Painting, Live, LinesSent
    <2> SUFFICES ASSUME Painting PROVE Painted'
      BY <2>2 DEF Painted
    <2>3. Ordered(queue)
      BY DEF Painted
    <2>4. CASE running /\ ~ppu.VBlank
      <3>1. LinesSent \in 1 .. OverscanLine - 1
        BY <1>1, <2>4
      <3>2. Stage(queue, LineTarget, picture, LinesSent, FALSE) /\ ~Fills(queue)
        BY <2>4 DEF Painted
      <3>3. Ordered(queue') /\ Stage(queue', LineTarget', picture', LinesSent, FALSE) /\ ~Fills(queue')
        BY <1>8, <2>3, <3>1, <3>2, StageAdvances
      <3> QED BY <2>1, <2>2, <2>4, <3>3 DEF Painted, Stage, RowsDrawn, Whole, DisplayRect
    <2>5. CASE ~(running /\ ~ppu.VBlank)
      <3>1. PICK n \in VBlankLine - 1 .. OverscanLine - 1 : Stage(queue, LineTarget, picture, n, TRUE)
        BY <1>0, <2>5 DEF Painted
      <3>2. n \in 1 .. OverscanLine - 1 /\ n >= VBlankLine - 1
        BY LinesAssumption
      <3>3. Ordered(queue') /\ Stage(queue', LineTarget', picture', n, TRUE)
        BY <1>8, <2>3, <3>1, <3>2, StageAdvances
      <3>4. \E m \in VBlankLine - 1 .. OverscanLine - 1 : Stage(queue', LineTarget', picture', m, TRUE)
        BY <3>3
      <3> QED BY <1>0, <2>1, <2>5, <3>3, <3>4 DEF Painted, Stage, RowsDrawn, Whole, DisplayRect
    <2> QED BY <2>4, <2>5
  <1>9. CASE UNCHANGED vars
    BY <1>9 DEF vars, emulation, renderer, Painted, Painting, Live, LinesSent, Stage, RowsDrawn, Whole, DisplayRect
  <1> QED BY <1>4, <1>5, <1>6, <1>7, <1>8, <1>9 DEF Next

\* A frame that is not skipped is handed over with every row drawn, in order,
\* whatever the game does to the screen mode meanwhile (RenderLine and
\* EnterVBlank, ppu_render_common.inc).
THEOREM PictureIsWhole == Spec => []PictureWhole
  <1>1. TypeInv /\ Course /\ Painted => PictureWhole
    <2> SUFFICES ASSUME TypeInv, Course, Painted, pc = "sync", queue = <<>>, shown, ~SkipFrame, elapsed <= Lines + 1
                 PROVE  Whole(picture)
      BY DEF PictureWhole, Whole
    <2>1. ~running
      BY DEF Course
    <2>2. Painting
      BY <2>1 DEF Painting, Live
    <2>3. PICK n \in VBlankLine - 1 .. OverscanLine - 1 : Stage(queue, LineTarget, picture, n, TRUE)
      BY <2>1, <2>2 DEF Painted
    <2>4. \A i \in 1 .. Len(queue) : FALSE
      OBVIOUS
    <2> QED BY <2>3, <2>4 DEF Stage, ResetAhead, Fills
  <1> QED
    BY <1>1, TypeInitially, TypeInductive, CourseInitially, CourseInductive, OwnedInitially, OwnedInductive,
       PaintedInitially, PaintedInductive, PTL DEF Spec

============================================================================
