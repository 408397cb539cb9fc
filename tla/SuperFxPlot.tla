---------------------------- MODULE SuperFxPlot ----------------------------
(***************************************************************************)
(* The pixels of the SuperFX processor (cart/superfx.cpp): PLOT gathers    *)
(* the pixels of one row of a tile in the pixel cache, and FlushPixelCache *)
(* merges them into the bit planes of the screen in RAM that SCBR, SCMR    *)
(* and POR select at that moment.                                          *)
(*                                                                         *)
(* RAM is modelled byte by byte at its real addresses, a byte being the    *)
(* set of its bits that are set; only the few coordinates of Xs and Ys are *)
(* plotted.  seen is what the program has drawn so far, for the property.  *)
(***************************************************************************)
EXTENDS Integers, FiniteSets

CONSTANTS Width,       \* pixels of a row of a tile (8)
          Xs, Ys,      \* the coordinates plotted
          Colors,      \* values of ColorData
          Screens,     \* settings of the screen: records [scbr, bpp, high, obj]
          PORs         \* settings of POR: records [opaque, dither, low]

VARIABLES px,          \* the pixel cache: TagX, TagY, data and opaque
          ram,         \* bytes of RAM
          port,        \* the screen and the POR settings in force
          seen         \* the pixels drawn on each screen

Bit(v, k) == (v \div 2 ^ k) % 2
Odd(v)    == v % 2 = 1

\* SCMR & 3 as the depth in planes, and what it does to addresses and masks.
Planes(bpp)     == CASE bpp = 0 -> 2 [] bpp = 1 -> 4 [] OTHER -> 8
tnoshtab(bpp)   == CASE bpp = 0 -> 16 [] bpp = 1 -> 32 [] OTHER -> 64
masktab(bpp)    == CASE bpp = 0 -> 4 [] bpp = 1 -> 16 [] OTHER -> 256

\* The tile of a pixel; obj is the OBJ layout, high the height setting of SCMR.
CalcTNO(s, x, y) ==
  IF s.high = 3 \/ s.obj
  THEN (y \div 128) * 512 + (x \div 128) * 256 + ((y \div 8) % 16) * 16 + ((x \div Width) % 16)
  ELSE (x \div Width) * (CASE s.high = 0 -> 16 [] s.high = 1 -> 20 [] s.high = 2 -> 24)
         + y \div 8

\* The address of the first byte of a row of a tile, and of the byte of a plane.
Row(s, x, y)  == (CalcTNO(s, x, y) % 1024) * tnoshtab(s.bpp) + s.scbr * 1024 + (y % 8) * 2
Byte(row, k)  == row + 16 * (k \div 2) + (k % 2)
RamOf         == UNION {{Byte(Row(s, x, y), k) : k \in 0 .. Planes(s.bpp) - 1} :
                          s \in Screens, x \in Xs, y \in Ys}

Pixels   == Xs \X Ys
Fine(x)  == Width - 1 - (x % Width)
TagOf(x) == x - (x % Width)

\* The color RAM holds for a pixel of a screen.
InRAM(m, s, x, y) ==
  LET Plane(k) == IF Fine(x) \in m[Byte(Row(s, x, y), k)] THEN 2 ^ k ELSE 0
      Sum[k \in 0 .. 8] == IF k = 0 THEN 0 ELSE Sum[k - 1] + Plane(k - 1)
  IN  Sum[Planes(s.bpp)]

\* FlushPixelCache: the opaque pixels replace their bits in every plane.
FlushedRAM(m, s, c) ==
  LET row == Row(s, c.x, c.y)
      New(k) == (m[Byte(row, k)] \ c.opaque) \cup {i \in c.opaque : Bit(c.data[i], k) = 1}
  IN  [a \in DOMAIN m |->
         IF \E k \in 0 .. Planes(s.bpp) - 1 : a = Byte(row, k)
         THEN New(CHOOSE k \in 0 .. Planes(s.bpp) - 1 : a = Byte(row, k))
         ELSE m[a]]
Flushed(c) == [c EXCEPT !.opaque = {}]

\* The color PLOT draws at a pixel, and whether it shows.
Drawn(color, x, y) ==
  IF Odd(x + y) /\ port.por.dither /\ port.screen.bpp < 2 THEN color \div 16 ELSE color
Shows(color) ==
  \/ port.por.opaque
  \/ LET c == color % masktab(port.screen.bpp) IN (IF port.por.low THEN c % 16 ELSE c) # 0

Depth(s, color) == color % (2 ^ Planes(s.bpp))

----------------------------------------------------------------------------
Blank == [s \in Screens |-> [p \in Pixels |-> 0]]

Init ==
  /\ px = [x |-> 0, y |-> 0, data |-> [i \in 0 .. Width - 1 |-> 0], opaque |-> {}]
  /\ ram = [a \in RamOf |-> {}]
  /\ port \in [screen : Screens, por : PORs]
  /\ seen = Blank

\* PLOT: a pixel of another row flushes the cache first, a full row afterwards.
Plot(x, y, color) ==
  LET other == px.x # TagOf(x) \/ px.y # y
      m     == IF other THEN FlushedRAM(ram, port.screen, px) ELSE ram
      c     == IF other THEN [Flushed(px) EXCEPT !.x = TagOf(x), !.y = y] ELSE px
      drawn == Drawn(color, x, y)
      shows == Shows(drawn)
      new   == [c EXCEPT !.data[Fine(x)] = drawn,
                         !.opaque = IF shows THEN @ \cup {Fine(x)} ELSE @]
      full  == new.opaque = 0 .. Width - 1
  IN  /\ px' = IF full THEN Flushed(new) ELSE new
      /\ ram' = IF full THEN FlushedRAM(m, port.screen, new) ELSE m
      /\ seen' = IF Fine(x) \in new.opaque
                 THEN [seen EXCEPT ![port.screen][<<x, y>>] = Depth(port.screen, drawn)]
                 ELSE seen
      /\ UNCHANGED port

PLOT == \E p \in Pixels, color \in Colors : Plot(p[1], p[2], color)

\* RPIX flushes before it reads the pixel back from RAM.
RPIX == /\ ram' = IF px.opaque = {} THEN ram ELSE FlushedRAM(ram, port.screen, px)
        /\ px' = Flushed(px)
        /\ UNCHANGED <<port, seen>>

\* CMODE, and the main CPU writing SCBR or SCMR: nothing is flushed, so the
\* pixels still in the cache go to the screen selected when they are flushed.
Cached(p) == TagOf(p[1]) = px.x /\ p[2] = px.y /\ Fine(p[1]) \in px.opaque
CMODE == \E por \in PORs : port' = [port EXCEPT !.por = por] /\ UNCHANGED <<px, ram, seen>>
SetScreen ==
  \E s \in Screens \ {port.screen} :
    /\ port' = [port EXCEPT !.screen = s]
    /\ seen' = [seen EXCEPT
         ![port.screen] = [p \in Pixels |->
            IF Cached(p) THEN InRAM(ram, port.screen, p[1], p[2]) ELSE @[p]],
         ![s] = [p \in Pixels |->
            IF Cached(p) THEN Depth(s, px.data[Fine(p[1])]) ELSE @[p]]]
    /\ UNCHANGED <<px, ram>>

Next == PLOT \/ RPIX \/ CMODE \/ SetScreen
Spec == Init /\ [][Next]_<<px, ram, port, seen>>

----------------------------------------------------------------------------
\* Every pixel drawn is where it was drawn: in the pixel cache or merged into
\* the planes of its screen, and no flush disturbs the pixels around it.
PixelsLand ==
  \A s \in Screens, p \in Pixels :
    seen[s][p] = IF s = port.screen /\ Cached(p)
                 THEN Depth(s, px.data[Fine(p[1])])
                 ELSE InRAM(ram, s, p[1], p[2])
============================================================================
