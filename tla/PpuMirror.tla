----------------------------- MODULE PpuMirror -----------------------------
(***************************************************************************)
(* The two copies of the PPU's memories and registers: the emulation        *)
(* thread's (ppu_common.inc), which the game reads back, and the render     *)
(* thread's (ppu_mtrender.cpp), which the picture is drawn from.            *)
(*                                                                         *)
(* A register access changes the first copy and goes into the queue; the    *)
(* renderer changes its copy in its own way when it comes to it.  Both      *)
(* handlers are translated here, each from its own source, for a            *)
(* representative of every kind of register: those that only hold a value,  *)
(* those that latch the previous one, and the ports of OAM, VRAM and CGRAM  *)
(* with their moving addresses.                                             *)
(*                                                                         *)
(* Left out, since only the renderer uses it: MosaicYOffset, which both    *)
(* handlers of $2106 set to 0 when the size changes, but the renderer      *)
(* alone advances, line by line; and the renderer's Status[1], of which    *)
(* the game reads the other copy.                                          *)
(***************************************************************************)
EXTENDS Integers, Sequences

CONSTANTS
  V,             \* the values a byte is taken from
  MaxQueue,      \* bound on commands under way
  MaxWrites      \* bound on register accesses

VARIABLES
  ppu,           \* the emulation thread's copy
  renderer,      \* the renderer's
  queue,         \* commands under way, each with the ppu after it (history)
  between,       \* between two frames
  saved,         \* a save state
  paletteRead,   \* history: the game has read CGRAM
  writes

vars == <<ppu, renderer, queue, between, saved, paletteRead, writes>>

\* OAM: a table of words and a high table above it; VRAM and CGRAM: words of
\* a low and a high byte.  AddrInc is VMAIN's step, Trans its translation.
OamLow == 0 .. 3
OamEnd == 8
Words  == 0 .. 3
Colors == 0 .. 1

PowerOn ==
  [blank |-> FALSE, plain |-> 0, BGOFSPrev |-> 0, BGHOFS |-> <<0, 0>>, M7Prev |-> 0,
   M7HOFS |-> <<0, 0>>, M7A |-> <<0, 0>>,
   OAMADDL |-> 0, OAMADDH |-> 0, OAM_Addr |-> 0, OAM_Buffer |-> 0,
   OAM |-> [a \in OamLow |-> 0], OAMHI |-> [a \in 0 .. 1 |-> 0],
   IncMode |-> FALSE, AddrInc |-> 0, Trans |-> FALSE, VRAM_Addr |-> 0,
   VRAM |-> [a \in Words |-> [lo |-> 0, hi |-> 0]],
   CGRAM_Addr |-> 0, CGRAM_Toggle |-> FALSE, CGRAM_Buffer |-> 0,
   CGRAM |-> [a \in Colors |-> [lo |-> 0, hi |-> 0]]]

Init ==
  /\ ppu = PowerOn /\ renderer = PowerOn /\ saved = PowerOn
  /\ queue = <<>> /\ between = TRUE /\ paletteRead = FALSE /\ writes = 0

\* GetVAddr, in both: bits of the address may be rotated.
VAddr(s) == IF s.Trans THEN (s.VRAM_Addr % 2) * 2 + s.VRAM_Addr \div 2 ELSE s.VRAM_Addr

----------------------------------------------------------------------------
(* The emulation thread.  Each access changes ppu and sends a command.      *)

Access(next, commands) ==
  /\ ~between
  /\ writes < MaxWrites /\ writes' = writes + 1
  /\ ppu' = next
  /\ queue' = queue \o [i \in 1 .. Len(commands) |-> [commands[i] EXCEPT !.after = next]]
  /\ Len(queue') <= MaxQueue
  /\ UNCHANGED <<renderer, between, saved>>
Cmd(a, v) == <<[a |-> a, v |-> v, after |-> ppu]>>

Reload == ((ppu.OAMADDL + 2 * ppu.OAMADDH) * 2) % OamEnd

\* Write_2100: leaving forced blank reloads the sprite address.
Write_2100(b) ==
  /\ Access([ppu EXCEPT !.blank = b, !.OAM_Addr = IF ppu.blank /\ ~b THEN Reload ELSE @],
            Cmd("2100", b))
  /\ UNCHANGED paletteRead

\* The registers that hold what was written last, $2106's Mosaic among them.
Write_plain(v) == Access([ppu EXCEPT !.plain = v], Cmd("plain", v)) /\ UNCHANGED paletteRead

\* Write_BGHOFS<true>, Write_M7Matrix: the byte before counts, too.
Write_BGHOFS(v) ==
  /\ Access([ppu EXCEPT !.BGHOFS = <<ppu.BGOFSPrev, v>>, !.BGOFSPrev = v,
                        !.M7HOFS = <<ppu.M7Prev, v>>, !.M7Prev = v],
            Cmd("BGHOFS", v))
  /\ UNCHANGED paletteRead
Write_M7Matrix(v) ==
  /\ Access([ppu EXCEPT !.M7A = <<ppu.M7Prev, v>>, !.M7Prev = v], Cmd("M7A", v))
  /\ UNCHANGED paletteRead

\* Write_OAMADDL, Write_OAMADDH.
Write_OAMADD(half, v) ==
  /\ Access(IF half = "L" THEN [ppu EXCEPT !.OAMADDL = v, !.OAM_Addr = ((v + 2 * ppu.OAMADDH) * 2) % OamEnd]
            ELSE [ppu EXCEPT !.OAMADDH = v, !.OAM_Addr = ((ppu.OAMADDL + 2 * v) * 2) % OamEnd],
            Cmd(IF half = "L" THEN "OAMADDL" ELSE "OAMADDH", v))
  /\ UNCHANGED paletteRead

\* Write_OAMDATA, in line 112 (for Uniracers) and in others.
Write_OAMDATA(v, line112) ==
  LET a == ppu.OAM_Addr
      stored == IF a \notin OamLow THEN [ppu EXCEPT !.OAMHI[a % 2] = v]
                ELSE IF a % 2 = 1 THEN [ppu EXCEPT !.OAM[a - 1] = ppu.OAM_Buffer, !.OAM[a] = v]
                ELSE ppu
      buffered == IF a % 2 = 0 THEN [stored EXCEPT !.OAM_Buffer = v] ELSE stored
  IN /\ IF line112 /\ ~ppu.blank
        THEN Access([ppu EXCEPT !.OAMHI[0] = v], Cmd("uniracers", v))
        ELSE Access([buffered EXCEPT !.OAM_Addr = (a + 1) % OamEnd], Cmd("OAMDATA", v))
     /\ UNCHANGED paletteRead
Read_OAMDATAREAD ==
  /\ Access([ppu EXCEPT !.OAM_Addr = (@ + 1) % OamEnd], Cmd("OAMDATAREAD", 0))
  /\ UNCHANGED paletteRead

Write_2115(mode, inc, trans) ==
  /\ Access([ppu EXCEPT !.IncMode = mode, !.AddrInc = inc, !.Trans = trans],
            Cmd("2115", <<mode, inc, trans>>))
  /\ UNCHANGED paletteRead
\* Write_2116, Write_2117.
Write_VMADD(half, v) ==
  /\ Access([ppu EXCEPT !.VRAM_Addr = IF half = "L" THEN (@ \div 2) * 2 + (v % 2) ELSE (@ % 2) + 2 * (v % 2)],
            Cmd(IF half = "L" THEN "VMADDL" ELSE "VMADDH", v))
  /\ UNCHANGED paletteRead

\* Write_2118 and Write_2119; HDMA is kept out of the visible picture.
Bumped(s) == [s EXCEPT !.VRAM_Addr = (@ + s.AddrInc) % 4]
Write_2118(v, hdma) ==
  LET stored == [ppu EXCEPT !.VRAM[VAddr(ppu)].lo = v]
  IN /\ IF hdma /\ ~ppu.blank THEN Access(ppu, <<>>)
        ELSE Access(IF ppu.IncMode THEN stored ELSE Bumped(stored), Cmd("2118", v))
     /\ UNCHANGED paletteRead
Write_2119(v, hdma) ==
  LET stored == [ppu EXCEPT !.VRAM[VAddr(ppu)].hi = v]
  IN /\ IF hdma /\ ~ppu.blank THEN Access(ppu, <<>>)
        ELSE Access(IF ppu.IncMode THEN Bumped(stored) ELSE stored, Cmd("2119", v))
     /\ UNCHANGED paletteRead

\* Fault: the renderer is told of every read.
Read_VRAMAlways(high) ==
  /\ Access(IF ppu.IncMode = high THEN Bumped(ppu) ELSE ppu, Cmd("VMDATAREAD", 0))
  /\ UNCHANGED paletteRead

\* Read_2139, Read_213A: the renderer is told of the reads that move the address.
Read_VRAM(high) ==
  /\ IF ppu.IncMode = high THEN Access(Bumped(ppu), Cmd("VMDATAREAD", 0)) ELSE Access(ppu, <<>>)
  /\ UNCHANGED paletteRead

Write_CGADD(v) ==
  /\ Access([ppu EXCEPT !.CGRAM_Addr = v % 2, !.CGRAM_Toggle = FALSE], Cmd("CGADD", v))
  /\ UNCHANGED paletteRead

\* Write_CGDATA, Read_CGDATAREAD: low byte, then high byte; of the read the
\* renderer is not told.
Write_CGDATA(v) ==
  /\ Access(IF ppu.CGRAM_Toggle
            THEN [ppu EXCEPT !.CGRAM[ppu.CGRAM_Addr] = [lo |-> ppu.CGRAM_Buffer, hi |-> v],
                             !.CGRAM_Addr = (@ + 1) % 2, !.CGRAM_Toggle = FALSE]
            ELSE [ppu EXCEPT !.CGRAM_Buffer = v, !.CGRAM_Toggle = TRUE],
            Cmd("CGDATA", v))
  /\ UNCHANGED paletteRead
Read_CGDATAREAD ==
  /\ Access([ppu EXCEPT !.CGRAM_Addr = IF ppu.CGRAM_Toggle THEN (@ + 1) % 2 ELSE @,
                        !.CGRAM_Toggle = ~@], <<>>)
  /\ paletteRead' = TRUE

\* PPU_Update: a line is to be rendered, VBlank begins.
DrawLine == Access(ppu, Cmd("line", 0)) /\ UNCHANGED paletteRead
VBlank ==
  /\ Access([ppu EXCEPT !.OAM_Addr = IF ppu.blank THEN @ ELSE Reload], Cmd("vblank", 0))
  /\ UNCHANGED paletteRead

\* EmulateReal and PPU_SyncMT.
StartFrame == between /\ between' = FALSE /\ UNCHANGED <<ppu, renderer, queue, saved, paletteRead, writes>>

SyncMT ==
  /\ ~between /\ queue = <<>>
  /\ between' = TRUE
  /\ UNCHANGED <<ppu, renderer, queue, saved, paletteRead, writes>>

\* PPU_StateAction, PPU_Reset: the renderer's copy is overwritten.
SaveState == between /\ saved' = ppu /\ UNCHANGED <<ppu, renderer, queue, between, paletteRead, writes>>
CopyStateToRenderer(s) ==
  /\ between
  /\ ppu' = s /\ renderer' = s /\ paletteRead' = FALSE
  /\ UNCHANGED <<queue, between, saved, writes>>
LoadState == CopyStateToRenderer(saved)
\* A reset without power-off keeps the memories.
Reset(power) ==
  CopyStateToRenderer(IF power THEN PowerOn
                      ELSE [PowerOn EXCEPT !.OAM = ppu.OAM, !.OAMHI = ppu.OAMHI, !.VRAM = ppu.VRAM, !.CGRAM = ppu.CGRAM])

----------------------------------------------------------------------------
(* The renderer: Write and DoCommand of ppu_mtrender.cpp.                  *)

RReload(s) == (2 * s.OAMADDL + 4 * s.OAMADDH) % OamEnd
RStored(s, v) ==
  IF s.OAM_Addr >= 4 THEN [s EXCEPT !.OAMHI[s.OAM_Addr % 2] = v]
  ELSE IF s.OAM_Addr \in {1, 3} THEN [s EXCEPT !.OAM[s.OAM_Addr - 1] = s.OAM_Buffer, !.OAM[s.OAM_Addr] = v]
  ELSE s
RVram(s, byte, v, moves) ==
  LET t == IF byte = "lo" THEN [s EXCEPT !.VRAM[VAddr(s)].lo = v] ELSE [s EXCEPT !.VRAM[VAddr(s)].hi = v]
  IN IF moves THEN [t EXCEPT !.VRAM_Addr = (@ + s.AddrInc) % 4] ELSE t

Executed(s, a, v) ==
  CASE a = "2100" -> [s EXCEPT !.OAM_Addr = IF s.blank /\ ~v THEN RReload(s) ELSE @, !.blank = v]
    [] a = "plain" -> [s EXCEPT !.plain = v]
    [] a = "BGHOFS" -> [s EXCEPT !.BGHOFS = <<s.BGOFSPrev, v>>, !.BGOFSPrev = v,
                                 !.M7HOFS = <<s.M7Prev, v>>, !.M7Prev = v]
    [] a = "M7A" -> [s EXCEPT !.M7A = <<s.M7Prev, v>>, !.M7Prev = v]
    [] a = "OAMADDL" -> [s EXCEPT !.OAMADDL = v, !.OAM_Addr = RReload([s EXCEPT !.OAMADDL = v])]
    [] a = "OAMADDH" -> [s EXCEPT !.OAMADDH = v, !.OAM_Addr = RReload([s EXCEPT !.OAMADDH = v])]
    [] a = "OAMDATA" -> [RStored(s, v) EXCEPT !.OAM_Buffer = IF s.OAM_Addr % 2 = 0 THEN v ELSE @,
                                              !.OAM_Addr = (@ + 1) % OamEnd]
    [] a = "uniracers" -> [s EXCEPT !.OAMHI[0] = v]
    [] a = "OAMDATAREAD" -> [s EXCEPT !.OAM_Addr = (@ + 1) % OamEnd]
    [] a = "2115" -> [s EXCEPT !.IncMode = v[1], !.AddrInc = v[2], !.Trans = v[3]]
    [] a = "VMADDL" -> [s EXCEPT !.VRAM_Addr = (@ - (@ % 2)) + (v % 2)]
    [] a = "VMADDH" -> [s EXCEPT !.VRAM_Addr = (@ % 2) + 2 * (v % 2)]
    [] a = "2118" -> RVram(s, "lo", v, ~s.IncMode)
    [] a = "2119" -> RVram(s, "hi", v, s.IncMode)
    [] a = "VMDATAREAD" -> [s EXCEPT !.VRAM_Addr = (@ + s.AddrInc) % 4]
    [] a = "CGADD" -> [s EXCEPT !.CGRAM_Addr = v % 2, !.CGRAM_Toggle = FALSE]
    [] a = "CGDATA" /\ s.CGRAM_Toggle ->
         [s EXCEPT !.CGRAM[s.CGRAM_Addr] = [lo |-> s.CGRAM_Buffer, hi |-> v],
                   !.CGRAM_Addr = (@ + 1) % 2, !.CGRAM_Toggle = FALSE]
    [] a = "CGDATA" /\ ~s.CGRAM_Toggle -> [s EXCEPT !.CGRAM_Buffer = v, !.CGRAM_Toggle = TRUE]
    [] a = "vblank" -> [s EXCEPT !.OAM_Addr = IF s.blank THEN @ ELSE RReload(s)]
    [] OTHER -> s       \* "line": it is drawn

Exec ==
  /\ queue # <<>>
  /\ renderer' = Executed(renderer, Head(queue).a, Head(queue).v)
  /\ queue' = Tail(queue)
  /\ UNCHANGED <<ppu, between, saved, paletteRead, writes>>

----------------------------------------------------------------------------
RegisterAccess ==
  \/ \E b \in BOOLEAN : Write_2100(b)
  \/ \E v \in V : \/ Write_plain(v) \/ Write_BGHOFS(v) \/ Write_M7Matrix(v)
                  \/ Write_CGADD(v) \/ Write_CGDATA(v)
                  \/ \E half \in {"L", "H"} : Write_OAMADD(half, v) \/ Write_VMADD(half, v)
                  \/ \E b \in BOOLEAN : Write_OAMDATA(v, b) \/ Write_2118(v, b) \/ Write_2119(v, b)
  \/ \E mode, trans \in BOOLEAN : \E inc \in {1, 2} : Write_2115(mode, inc, trans)
  \/ Read_OAMDATAREAD \/ Read_CGDATAREAD \/ \E high \in BOOLEAN : Read_VRAM(high)

Next ==
  \/ RegisterAccess \/ DrawLine \/ VBlank \/ StartFrame \/ SyncMT \/ Exec
  \/ SaveState \/ LoadState \/ \E power \in BOOLEAN : Reset(power)

Spec == Init /\ [][Next]_vars

----------------------------------------------------------------------------
\* All but the palette and its port; the palette and its port.
Picture(s) == [s EXCEPT !.CGRAM_Addr = 0, !.CGRAM_Toggle = FALSE, !.CGRAM_Buffer = 0,
                        !.CGRAM = [a \in Colors |-> [lo |-> 0, hi |-> 0]]]
Palette(s) == <<s.CGRAM_Addr, s.CGRAM_Toggle, s.CGRAM_Buffer, s.CGRAM>>

\* When the renderer comes to a line, its registers and memories are what the
\* game had made of the emulation thread's when that line came up: all accesses
\* before it have had their effect there, in both handlers, and none after.
DrawnAsWritten ==
  queue # <<>> /\ Head(queue).a = "line" => Picture(renderer) = Picture(Head(queue).after)

\* Once the renderer has caught up, the copies agree, so that what a save state
\* holds of the emulation thread's copy is what the next frame is drawn from.
Agree == queue = <<>> => Picture(renderer) = Picture(ppu)

\* The palettes agree, too, as long as the game does not read CGRAM.
PalettesAgree == queue = <<>> /\ ~paletteRead => Palette(renderer) = Palette(ppu)

\* The two renderer settings differ in performance only: the colours are the same.
SameColors == queue = <<>> => renderer.CGRAM = ppu.CGRAM
============================================================================
