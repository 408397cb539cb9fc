-------------------------------- MODULE Board --------------------------------
(***************************************************************************)
(* A cartridge's board (cart.cpp): what its image and header make of it,   *)
(* and where the bus shows its ROM and RAM, with the maps of the chips     *)
(* (cart/sa1.cpp, cart/sdd1.cpp, cart/superfx.cpp).  An address is a bank  *)
(* and a half of it; ROM is in pages of 32 KiB, RAM in blocks of 8 KiB.    *)
(***************************************************************************)
EXTENDS Integers, Sequences

CONSTANTS
  Sizes,       \* pages of the image
  Placements,  \* what is found at the header's four places
  Banks,       \* values of the chips' bank registers
  Writes       \* bound on the banks written and the states loaded

VARIABLE board

Pages == 256            \* 8 MiB
Meg   == 32
None  == <<"open", 0>>
Rom(p) == <<"rom", p>>
Ram(b) == <<"ram", b>>

\* Fault: the beginning of the image is repeated, not its last piece.
MirrorOfStart(size) ==
  LET fill[i \in 0 .. 8] ==
        IF i = 0 THEN [rom |-> [p \in 1 .. size |-> p - 1], s |-> size]
        ELSE LET t == fill[i - 1]  piece == 2 ^ (i - 1)
             IN  IF t.s >= Pages \/ (t.s \div piece) % 2 = 0 THEN t
                 ELSE [rom |-> t.rom \o SubSeq(t.rom, 1, piece), s |-> t.s + piece]
  IN  fill[8].rom

\* An image is doubled up from its end: the piece its lowest bit stands for, then
\* the next, until the 8 MiB are full.
Mirror(size) ==
  LET fill[i \in 0 .. 8] ==
        IF i = 0 THEN [rom |-> [p \in 1 .. size |-> p - 1], s |-> size]
        ELSE LET t == fill[i - 1]  piece == 2 ^ (i - 1)
             IN  IF t.s >= Pages \/ (t.s \div piece) % 2 = 0 THEN t
                 ELSE [rom |-> t.rom \o SubSeq(t.rom, t.s - piece + 1, t.s), s |-> t.s + piece]
  IN  fill[8].rom

\* The header's places: 0 and 1 in the first two pages, 2 and 3 4 MiB on.
Place(s) == (s % 2) + (IF s >= 2 THEN 128 ELSE 0)
Guess(b) == IF b.size > 128 /\ b.head[3].vector THEN "ExHiROM"
            ELSE IF ~b.head[0].vector /\ b.head[1].vector THEN "HiROM" ELSE "LoROM"
Speedmap(b, s, h) ==
  CASE h.map = "lo"      -> IF h.board = "special" THEN "LoROMSpecial" ELSE "LoROM"
    [] h.map = "hi"      -> "HiROM"
    [] h.map = "exlo"    -> "ExLoROM"
    [] h.map = "exhi"    -> "ExHiROM"
    [] h.map = "unknown" -> (IF b.size > 128 /\ s >= 2 THEN <<"ExLoROM", "ExHiROM">>
                                                       ELSE <<"LoROM", "HiROM">>)[(s % 2) + 1]
\* A vector into the other half shows that the map is wrong.
Corrected(b, layout) ==
  CASE layout = "HiROM" /\ ~b.head[1].vector /\ b.head[0].vector -> "LoROM"
    [] layout = "LoROM" /\ ~b.head[0].vector /\ b.head[1].vector -> "HiROM"
    [] OTHER -> layout

\* A header with the right checksum ends the search; the first that only looks
\* like one stands until then.
Usable(b, s) == LET h == b.head[s]
                IN  h.vector /\ h.sizes /\ (h.sum \/ (h.plain /\ b.found = "none"))
\* The games whose save RAM is to be seen at 8000, too; their images leave room.
Mirrors(h, layout, chip, size) ==
  h.board = "mirror" /\ layout = "LoROM" /\ chip = "none" /\ size <= 112 /\ h.ram > 0
\* What says DSP-2 in another map than LoROM is a DSP-1.
Take(b, s) ==
  LET h == b.head[s]
      layout == Corrected(b, Speedmap(b, s, h))
      chip == CASE h.chip = "none" -> b.chip
                [] h.chip = "dsp2" /\ layout # "LoROM" -> "dsp1"
                [] OTHER -> h.chip
  IN  [b EXCEPT !.found = IF h.sum THEN "sure" ELSE "plain", !.at = s, !.ram = h.ram, !.chip = chip,
                !.layout = IF Mirrors(h, layout, chip, b.size) THEN "Mirror8000" ELSE layout]
Header(b) ==
  LET try[s \in 0 .. 4] ==
        IF s = 0 THEN b
        ELSE LET t == try[s - 1] IN IF t.found # "sure" /\ Usable(t, s - 1) THEN Take(t, s - 1) ELSE t
  IN  try[4]
Least(b) == IF b.chip = "superfx" /\ b.ram = 0 THEN [b EXCEPT !.ram = 4] ELSE b

----------------------------------------------------------------------------
\* CartRead_LoROM, CartRead_HiROM and the save RAM's two ways.
LoROM(b, bank, off) == Rom(b.rom[(bank % 128) + off + 1])
HiROM(b, bank, half, off) == Rom(b.rom[2 * (bank % 64) + half + off + 1])
LoRAM(b, bank, blk) == Ram(((bank * 4) + blk) % b.ram)
HiRAM(b, bank)      == Ram((bank % 32) % b.ram)
LoSave(bank) == bank \in 112 .. 125 \/ bank >= 240

\* The map of a board without a chip of its own ROM map.  area is "save" for
\* 6000-7FFF; half 0 is what the area is in.
SaveAt(b, bank, half) ==
  b.ram > 0 /\ LoSave(bank) /\ (half = 0 \/ b.layout = "Mirror8000")
Plain(b, bank, half) ==
  CASE bank \in {126, 127} -> None
    [] b.layout \in {"LoROM", "ExLoROM", "Mirror8000"} /\ bank \notin {126, 127} ->
         IF SaveAt(b, bank, half) THEN LoRAM(b, bank, 0)
         ELSE IF half = 0 THEN None
         ELSE LoROM(b, bank, IF b.layout = "ExLoROM" /\ bank < 192 THEN 128 ELSE 0)
    [] b.layout = "LoROMSpecial" /\ bank \notin {126, 127} ->
         IF SaveAt(b, bank, half) THEN LoRAM(b, bank, 0)
         ELSE IF half = 1 /\ (bank < 64 \/ bank \in 160 .. 191) THEN LoROM(b, bank, 0)
         ELSE IF half = 1 /\ bank \in 128 .. 159 THEN LoROM(b, bank, 64)
         ELSE IF bank \in 192 .. 223 THEN LoROM(b, bank, 32) ELSE None
    [] OTHER ->
         IF half = 1 \/ bank % 128 \in 64 .. 125 \/ bank >= 254
         THEN HiROM(b, bank, half, IF b.layout = "ExHiROM" /\ bank < 192 THEN 128 ELSE 0)
         ELSE IF b.ram > 0 /\ bank % 128 \in 32 .. 63 THEN HiRAM(b, bank) ELSE None

\* RecalcROMPtr of the SA-1 and the S-DD1, by the banks' four regions; the S-DD1's
\* upper banks show what its lower ones do.
LoPtr(b, w) == IF b.bank[w] >= 128 THEN (b.bank[w] % 8) * Meg ELSE w * Meg
HiPtr(b, w) == (b.bank[w] % 8) * Meg
RecalcROMPtr(b) == [b EXCEPT !.lo = [w \in 0 .. 3 |-> LoPtr(b, w)],
                             !.hi = [w \in 0 .. 3 |-> HiPtr(b, w)]]
Region(b, bank) == (IF b.chip = "sa1" /\ bank >= 128 THEN 2 ELSE 0) + ((bank \div 32) % 2)
Low(bank)    == bank \in (0 .. 63) \cup (128 .. 191)
Banked(b, bank, half) ==
  CASE Low(bank) /\ half = 1 ->
         Rom(b.rom[b.lo[Region(b, bank)] + (bank % 32) + 1])
    [] bank >= 192 -> Rom(b.rom[b.hi[(bank \div 16) % 4] + 2 * (bank % 16) + half + 1])
    [] OTHER -> None
SA1(b, bank, half) ==
  CASE b.ram > 0 /\ bank \in 64 .. 79 -> Ram((bank * 8 + 4 * half) % b.ram)
    [] b.ram > 0 /\ Low(bank) /\ half = 0 -> Ram(b.bwram % b.ram)
    [] OTHER -> Banked(b, bank, half)
\* DMA_ReadROM of the SA-1 and ReadROM of the S-DD1, which has only the upper
\* banks, find the region by themselves.
DmaReads(b, bank) == b.chip = "sa1" \/ bank >= 192
DmaView(b, bank, half) ==
  IF bank >= 192 THEN Rom(b.rom[b.hi[IF b.chip = "sa1" THEN ((bank \div 16) % 8) - 4 ELSE (bank \div 16) % 4] + 2 * (bank % 16) + half + 1])
  ELSE Rom(b.rom[b.lo[(2 * (bank \div 128)) + ((bank \div 32) % 2)] + (bank % 32) + 1])
SDD1(b, bank, half) ==
  CASE b.ram > 0 /\ bank \in 112 .. 115 -> Ram((bank * 8 + 4 * half) % b.ram)
    [] b.ram > 0 /\ Low(bank) /\ half = 0 -> Ram(0)
    [] OTHER -> Banked(b, bank, half)

\* The SuperFX's map, and its own in ProgMemMap.
SuperFX(b, bank, half) ==
  CASE bank < 64 /\ half = 1 -> LoROM(b, bank, 0)
    [] bank \in 64 .. 95 -> HiROM(b, bank, half, 0)
    [] bank \in {112, 113} -> Ram(((bank % 2) * 8 + 4 * half) % b.ram)
    [] bank \in 128 .. 191 /\ half = 1 -> LoROM(b, bank % 64, 64)
    [] bank >= 192 -> HiROM(b, bank, half, 64)
    [] Low(bank) /\ half = 0 -> Ram(0)
    [] OTHER -> None
ProgMemMap(b, bank, half) ==
  CASE bank < 64 -> Rom(b.rom[bank + 1])
    [] bank \in 64 .. 95 -> Rom(b.rom[2 * (bank % 32) + half + 1])
    [] OTHER -> Ram((bank * 8 + 4 * half) % b.ram)

\* The ports of the DSP-1, the DSP-2 and the CX4 take the place of ROM or of nothing.
Port(b, bank, half) ==
  CASE b.chip = "dsp1" /\ b.layout = "HiROM" -> half = 0 /\ bank \in (0 .. 15) \cup (128 .. 143)
    [] b.chip = "dsp1" /\ b.layout # "HiROM" /\ b.size >= 48 ->
         half = 0 /\ bank \in (96 .. 111) \cup (224 .. 239)
    [] b.chip = "dsp1" /\ b.layout # "HiROM" /\ b.size < 48 ->
         half = 1 /\ bank \in (48 .. 63) \cup (176 .. 191)
    [] b.chip = "cx4" -> half = 0 /\ Low(bank)
    [] b.chip = "dsp2" -> half = 1 /\ bank \in 32 .. 63
    [] OTHER -> FALSE

View(b, bank, half) ==
  CASE b.chip = "superfx" -> SuperFX(b, bank, half)
    [] b.chip = "sdd1" -> SDD1(b, bank, half)
    [] b.chip = "sa1" /\ (bank \in 64 .. 125 \/ SA1(b, bank, half) # None) -> SA1(b, bank, half)
    [] Port(b, bank, half) -> <<"port", 0>>
    [] OTHER -> Plain(b, bank, half)

----------------------------------------------------------------------------
\* An image; the headers at the places that show the same page are the same.
Image(size, h) ==
  LET rom  == Mirror(size)
      From(s) == CHOOSE t \in 0 .. s : /\ rom[Place(t) + 1] = rom[Place(s) + 1]
                                       /\ \A u \in 0 .. t - 1 : rom[Place(u) + 1] # rom[Place(s) + 1]
  IN  [size |-> size, rom |-> rom, head |-> [s \in 0 .. 3 |-> h[From(s)]], in |-> FALSE,
       found |-> "none", at |-> 0, layout |-> "none", ram |-> 0, chip |-> "none",
       bank |-> [w \in 0 .. 3 |-> w], lo |-> <<>>, hi |-> <<>>, bwram |-> 0, writes |-> 0]
Init == \E size \in Sizes, h \in Placements : board = Image(size, h)

\* CART_Init and the chip's Reset.
Insert ==
  /\ ~board.in
  /\ board' = RecalcROMPtr(Least(Header([board EXCEPT !.in = TRUE, !.layout = Guess(board)])))

HasBanks == board.in /\ board.chip \in {"sa1", "sdd1"}
Write(b) == HasBanks /\ board.writes < Writes /\ board' = [b EXCEPT !.writes = @ + 1]
WriteBank ==
  \E w \in 0 .. 3, v \in Banks :
    LET b == [board EXCEPT !.bank[w] = v]
    IN  Write([b EXCEPT !.lo[w] = LoPtr(b, w), !.hi[w] = HiPtr(b, w)])
WriteBWRAMBank == \E v \in Banks : board.chip = "sa1" /\ Write([board EXCEPT !.bwram = v % 32])
\* A state carries the banks and not the pointers.
LoadState == \E v \in Banks : Write(RecalcROMPtr([board EXCEPT !.bank = [w \in 0 .. 3 |-> v]]))

Next == Insert \/ WriteBank \/ WriteBWRAMBank \/ LoadState
Spec == Init /\ [][Next]_board

----------------------------------------------------------------------------
Bus == (0 .. 255) \X (0 .. 1)

\* Address lines beyond an image that is no power of two repeat its last piece.
Source[p \in Nat, size \in Nat] ==
  LET top == CHOOSE t \in {2 ^ k : k \in 0 .. 8} : t <= size /\ size < 2 * t
  IN  IF size = top THEN p % top
      ELSE LET q == p % (2 * top) IN IF q < top THEN q ELSE top + Source[q - top, size - top]
Mirrored == \A p \in 0 .. Pages - 1 : board.rom[p + 1] = Source[p, board.size]

\* A header that names the map it stands in is the one whose vectors the CPU
\* takes at reset.
Honest(h) == h.map = <<"lo", "hi", "exlo", "exhi">>[board.at + 1]
Boots == board.found # "none" /\ Honest(board.head[board.at]) /\ board.chip \notin {"superfx", "sa1", "sdd1"}
           => View(board, 0, 1) = Rom(board.rom[Place(board.at) + 1])

\* All of an image is on the bus, whatever ports and save RAM are as well: but
\* for the two pages under work RAM, and the first 2 MiB of an ExLoROM.
Hidden == CASE board.layout = "ExLoROM" -> (0 .. 63) \cup {254, 255}
            [] board.layout = "ExHiROM" -> {252, 254}
            [] OTHER -> IF board.size > 128 THEN 128 .. 255 ELSE {}
Shown == board.chip \notin {"sa1", "sdd1", "superfx"} =>
           {Rom(p) : p \in (0 .. board.size - 1) \ Hidden} \subseteq {View(board, a[1], a[2]) : a \in Bus}

\* Work RAM's banks are left to it; the chips, their DMA and the main CPU see the
\* same ROM, through pointers that follow the banks.
OneMemory ==
  /\ \A half \in 0 .. 1, bank \in 126 .. 127 : View(board, bank, half) = None
  /\ board.chip = "superfx" =>
       \A bank \in 0 .. 95, half \in 0 .. 1 :
         (bank >= 64 \/ half = 1) => ProgMemMap(board, bank, half) = SuperFX(board, bank, half)
  /\ HasBanks =>
       \A a \in Bus : Banked(board, a[1], a[2]) # None =>
         /\ DmaReads(board, a[1]) => DmaView(board, a[1], a[2]) = View(board, a[1], a[2])
         /\ View(board, a[1], a[2])
              = LET w == IF a[1] >= 192 THEN (a[1] - 192) \div 16
                         ELSE (IF board.chip = "sa1" THEN 2 * (a[1] \div 128) ELSE 0) + ((a[1] \div 32) % 2)
                    v == board.bank[w]
                IN  IF a[1] >= 192 THEN Rom(board.rom[(v % 8) * Meg + 2 * (a[1] % 16) + a[2] + 1])
                    ELSE Rom(board.rom[(IF v < 128 THEN w ELSE v % 8) * Meg + (a[1] % 32) + 1])
BoardSound == board.in => Mirrored /\ Boots /\ Shown /\ OneMemory
=============================================================================
