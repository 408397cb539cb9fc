----------------------------- MODULE Sa1Tiles -------------------------------
(***************************************************************************)
(* The character conversion of the SA-1 (cart/sa1.cpp): the SA-1 draws     *)
(* pixels through the bitmap view of BW-RAM while the main CPU's DMA reads *)
(* the picture as tiles.  A read of a tile's first byte converts the whole *)
(* tile into one of two buffers in I-RAM; reads take their bytes there.    *)
(*                                                                         *)
(* A byte is the set of its bits that are set.                             *)
(***************************************************************************)
EXTENDS Integers

CONSTANTS Depths,      \* DMACharConvParam & 3 (1: 4 bits, 2: 2 bits a pixel)
          Widths,      \* log2 of the picture's width in tiles
          Dests,       \* values of DMADestAddr
          Points,      \* pixels drawn
          Reads        \* bound on the bytes read by one conversion

VARIABLE cc            \* the picture, its conversion and what was read

IRAMSize == 2048

Bit(v, k)   == (v \div 2 ^ k) % 2 = 1
Bits(depth) == 8 \div 2 ^ depth
TileBytes(depth) == 64 \div 2 ^ depth

\* The bitmap view: BWRAMBitmapFormat is set for 2 bits a pixel.
PixelByte(depth, a)  == a \div (8 \div Bits(depth))
PixelShift(depth, a) == Bits(depth) * (a % (8 \div Bits(depth)))
ReadBWBitmap(m, depth, a) ==
  {i \in 0 .. Bits(depth) - 1 : i + PixelShift(depth, a) \in m[PixelByte(depth, a)]}
WriteBWBitmap(m, depth, a, v) ==
  LET shift == PixelShift(depth, a)
      field == shift .. shift + Bits(depth) - 1
  IN  [m EXCEPT ![PixelByte(depth, a)] = (@ \ field) \cup {i + shift : i \in v}]

\* A pixel's place in the picture, whose lines are 8 << vw pixels long.
Place(vw, x, y) == y * 8 * 2 ^ vw + x

\* DMA_RunCharConvIter: the eight rows of a tile, each through WriteCharConvBMReg,
\* which turns a row's pixels into a byte for each plane.
SourcePixel(c, x, y) ==
  LET place == Place(c.vw, x + 8 * c.tileX, y + 8 * c.tileY)
      at    == place \div 2 ^ c.depth
      shift == (x % 2 ^ c.depth) * 2 ^ (3 - c.depth)
  IN  {i \in 0 .. Bits(c.depth) - 1 : i + shift \in c.ram[at]}

RowAt(c, row)  == c.dest + 2 * (row % 8) + (IF row >= 8 THEN 2 ^ (6 - c.depth) ELSE 0)
PlaneAt(c, row, i) == (RowAt(c, row) + (i % 2) + 16 * (i \div 2)) % IRAMSize
PlaneByte(c, y, i) == {7 - x : x \in {x \in 0 .. 7 : i \in SourcePixel(c, x, y)}}

Converted(c) ==
  LET Cells == (0 .. 7) \X (0 .. Bits(c.depth) - 1)
      Cell(a) == {p \in Cells : PlaneAt(c, (c.convY + p[1]) % 16, p[2]) = a}
      nextX == (c.tileX + 1) % 2 ^ c.vw
  IN  [c EXCEPT !.iram = [a \in DOMAIN c.iram |->
                    IF Cell(a) = {} THEN c.iram[a]
                    ELSE LET p == CHOOSE p \in Cell(a) : TRUE IN PlaneByte(c, p[1], p[2])],
                !.convY = (c.convY + 8) % 16, !.tileX = nextX,
                !.tileY = IF nextX = 0 THEN @ + 1 ELSE @,
                !.seen = c.ram]

----------------------------------------------------------------------------
\* A picture every pixel of which differs from its neighbours.
Picture(depth, vw) ==
  LET tiles == Reads \div TileBytes(depth) + 2
      Color(a) == (a + (a \div (8 * 2 ^ vw))) % 2 ^ Bits(depth)
  IN  [b \in 0 .. tiles * 8 * Bits(depth) - 1 |->
         {i \in 0 .. 7 : Bit(Color(b * (8 \div Bits(depth)) + i \div Bits(depth)),
                             i % Bits(depth))}]

Init == \E depth \in Depths, vw \in Widths, dest \in Dests :
  cc = [depth |-> depth, vw |-> vw, dest |-> dest, ram |-> Picture(depth, vw),
        seen |-> Picture(depth, vw),
        iram |-> [a \in {(dest + i) % IRAMSize : i \in 0 .. 2 * TileBytes(depth) - 1} |-> {}],
        active |-> FALSE, tileX |-> 0, tileY |-> 0, convY |-> 0, counter |-> 0, got |-> {}]

\* Writing $2236 with conversion selected; the end bit of $2231 gives BW-RAM back.
StartConversion == cc' = [cc EXCEPT !.active = TRUE, !.convY = 0, !.tileX = 0, !.tileY = 0,
                                    !.counter = 0, !.got = {}]
EndConversion   == cc' = [cc EXCEPT !.active = FALSE]

\* DMA_ReadCCVBWRAM, which a read of banks $40..$4F by the main CPU becomes.
Read == /\ cc.active /\ cc.counter < Reads
        /\ LET c == IF cc.counter % TileBytes(cc.depth) = 0 THEN Converted(cc) ELSE cc
           IN  cc' = [c EXCEPT !.counter = @ + 1,
                        !.got = c.iram[(c.dest + (c.counter % (2 * TileBytes(c.depth)))) % IRAMSize]]

\* SA1CPU_WriteBWRAM_Bitmap, with writing enabled.
Draw == /\ \E p \in Points : \E color \in {{}, {0, Bits(cc.depth) - 1}} :
             LET a == Place(cc.vw, p[1], p[2])
             IN  /\ ReadBWBitmap(cc.ram, cc.depth, a) # color
                 /\ cc' = [cc EXCEPT !.ram = WriteBWBitmap(@, cc.depth, a, color)]

Next == StartConversion \/ EndConversion \/ Read \/ Draw
Spec == Init /\ [][Next]_cc

----------------------------------------------------------------------------
\* The bytes read are the picture's tiles, plane by plane, as it was when the
\* tile's first byte was read: whatever is drawn, and wherever the buffers are.
TilesReadAsDrawn ==
  cc.counter > 0 =>
    LET k    == cc.counter - 1
        tile == k \div TileBytes(cc.depth)
        r    == k % TileBytes(cc.depth)
        y    == (r % 16) \div 2 + 8 * (tile \div 2 ^ cc.vw)
        Pixel(x) == ReadBWBitmap(cc.seen, cc.depth,
                                 Place(cc.vw, x + 8 * (tile % 2 ^ cc.vw), y))
    IN  cc.got = {7 - x : x \in {x \in 0 .. 7 : 2 * (r \div 16) + (r % 2) \in Pixel(x)}}
============================================================================
