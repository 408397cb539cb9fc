-------------------------------- MODULE Sdd1 --------------------------------
(***************************************************************************)
(* The S-DD1 (cart/sdd1.cpp): banks of ROM, and a decompressor that a DMA  *)
(* channel with a fixed source address drives, a byte for every read of    *)
(* that address.  The compressed stream is a pattern of bytes, repeated.   *)
(***************************************************************************)
EXTENDS Words, Sequences

CONSTANTS Patterns,     \* bytes of the stream after its first
          Headers,      \* the first byte: depth, contexts, and four bits more
          Setups,       \* <<mode, address, count>> written to the channels
          Meg,          \* bytes of a megabyte of ROM
          Reads,        \* bound on the bytes read from a stream
          Changes       \* bound on the registers written and the states loaded

VARIABLE sdd            \* the chip, what it has read and its bytes

None     == 4 * Meg     \* no address: ~0U
Channels == {0, 1}      \* of the eight

----------------------------------------------------------------------------
\* The adaptive estimator's states: 0x18 that settle, 8 that start, and one.
Lower(x, y) == IF x < y THEN x ELSE y
Event(i) ==
  [n |-> CASE i < 16 -> i \div 4 [] i \in 16 .. 23 -> 4 + ((i \div 2) % 4)
           [] i \in 24 .. 31 -> i - 24 [] i = 32 -> 0,
   flips |-> i % 32 = 0,
   next |-> CASE i < 24 -> <<Lower(23, i + 1), IF i = 0 THEN 0 ELSE i - 1>>
              [] i \in 24 .. 31 -> <<IF i = 31 THEN 23 ELSE i + 1,
                                     <<0, 1, 3, 7, 11, 15, 17, 21>>[i - 23]>>
              [] i = 32 -> <<24, 24>>]

\* rev_inv_table: the bits of a byte under its top one, inverted, in reverse.
RevInv(b) == IF b < 128 THEN 255
             ELSE LET sum[k \in 0 .. 7] == IF k = 0 THEN 0
                        ELSE sum[k - 1] + 2 ^ (k - 1) * (1 - BitOf(b, 7 - k))
                  IN  sum[7]

----------------------------------------------------------------------------
\* RecalcROMPtr: the megabyte each quarter of banks 00-3F and of C0-FF shows.
LoBank(b, r) == IF b >= 128 THEN b % 8 ELSE r
RecalcROMPtr(s) == [s EXCEPT !.lo = [r \in 0 .. 3 |-> LoBank(s.bank[r], r)],
                             !.hi = [r \in 0 .. 3 |-> s.bank[r] % 8]]
Byte(rom, mb, off) == IF off = 0 THEN rom.header
                      ELSE rom.pattern[((mb + off) % Len(rom.pattern)) + 1]
ReadROM(s, a) == Byte(s.rom, s.hi[(a \div Meg) % 4], a % Meg)

\* ReadyInputBits, AdvanceInputBits, GetInputBits and PeekInputByte: the sixteen
\* bits of the input register that are looked at.
Ready(s, n) ==
  IF s.have >= n THEN s
  ELSE [s EXCEPT !.in = @ + ReadROM(s, s.addr) * 2 ^ (8 - s.have), !.addr = @ + 1, !.have = @ + 8]
Advance(s, n) == [s EXCEPT !.in = Shl(16, @, n), !.have = @ - n, !.used = @ + n]
Bits(s, n)    == Ready(s, n).in \div 2 ^ (16 - n)

Took(s, n) == Advance(Ready(s, n), n)
Shaped(s, depth) == [s EXCEPT !.depth = depth, !.planes = <<2, 8, 4, 8>>[depth + 1],
                              !.mask = <<15, 63, 31, 63>>[depth + 1]]
Selected(s, sel) ==
  [Took(s, 2) EXCEPT !.prevMask = <<IF sel = 3 THEN 3 ELSE 1, <<14, 12, 6, 12>>[sel + 1]>>]
SelectedBy(s) == Selected(s, Bits(s, 2))
Described(s)  == SelectedBy(Shaped(Took(s, 2), Bits(s, 2)))
InitDecomp(s, a) ==
  Described([s EXCEPT !.addr = a, !.in = 0, !.have = 0, !.pos = 0, !.used = 0,
                      !.mps = [c \in 0 .. 31 |-> 0], !.pred = [c \in 0 .. 31 |-> 32],
                      !.prev = [p \in 0 .. 7 |-> 0],
                      !.run = [g \in 0 .. 7 |-> 0], !.end = [g \in 0 .. 7 |-> 0]])

\* A bit of a plane: the run of the context's generator goes on, or a code is
\* read for a new one; the end of a run moves the context's estimate.
Context(s, p) == Ior(5, Ior(5, And(5, s.prev[p], s.prevMask[1]), And(5, s.prev[p] \div 32, s.prevMask[2])),
                     16 * (p % 2))
Coded(s, g, code) ==
  Advance([s EXCEPT !.end[g] = code \div 128, !.run[g] = 1 + (RevInv(code) % 2 ^ g)],
          1 + (IF code >= 128 THEN g ELSE 0))
CodeAt(s, g) == Coded(s, g, Mod(8, s.in \div 256))
NewRun(s, g) == CodeAt(Ready(s, 8), g)
Bitten(s, p, c, e, ends, flip) ==
  [s EXCEPT !.run[e.n] = @ - 1,
            !.mps[c] = IF flip = 1 /\ e.flips THEN 1 - @ ELSE @,
            !.pred[c] = IF ends THEN e.next[flip + 1] ELSE @,
            !.prev[p] = Mod(9, 2 * @ + ((s.mps[c] + flip) % 2))]
Running(s, p, c, e) ==
  Bitten(s, p, c, e, s.run[e.n] = 1, IF s.run[e.n] = 1 THEN s.end[e.n] ELSE 0)
Started(s, e) == IF s.run[e.n] = 0 THEN NewRun(s, e.n) ELSE s
Estimated(s, p, c, e) == Running(Started(s, e), p, c, e)
InContext(s, p, c) == Estimated(s, p, c, Event(s.pred[c]))
DecompBit(s, p) == InContext(s, p, Context(s, p))

\* DoDecomp: a tile, two planes at a time, or a row of 64 pixels of eight bits.
Eight(s, Step(_, _)) ==
  LET f[k \in 0 .. 8] == IF k = 0 THEN s
        ELSE LET t == f[k - 1] IN IF t.planes = 0 THEN t ELSE Step(t, k - 1)
  IN  f[8]
Kept(s, p, y) == [s EXCEPT !.buf[8 * p + 2 * y] = Mod(8, s.prev[p]),
                           !.buf[8 * p + 2 * y + 1] = Mod(8, s.prev[p + 1])]
Planar(s, p) ==
  Eight(s, LAMBDA t, y :
    Kept(Eight(t, LAMBDA v, x : DecompBit(DecompBit(v, p), p + 1)), p, y))
Pixel(t) == LET sum[p \in 0 .. 8] == IF p = 0 THEN 0 ELSE sum[p - 1] + 2 ^ (p - 1) * (t.prev[p - 1] % 2)
            IN  sum[8]
Seen(s, n) == [s EXCEPT !.buf[n] = Pixel(s)]
Pixels(s) == Eight(s, LAMBDA t, y : Eight(t, LAMBDA v, x : Seen(Eight(v, DecompBit), 8 * y + x)))
DoDecomp(s) == IF s.depth = 3 THEN Pixels(s)
               ELSE Eight(s, LAMBDA t, p : IF p < s.planes /\ p % 2 = 0 THEN Planar(t, p) ELSE t)

\* Fault: a whole DMA leaves its channel armed.
HandOutArmed(s) ==
  [s EXCEPT !.out = s.buf[s.pos], !.pos = And(6, @ + 1, s.mask), !.count = @ - 1, !.read = @ + 1]

\* DecompByte: the last byte of the transfer takes the trigger with it.
HandOut(s) ==
  [s EXCEPT !.out = s.buf[s.pos], !.pos = And(6, @ + 1, s.mask), !.count = @ - 1,
            !.trigger = IF s.count = 1 THEN None ELSE @, !.read = @ + 1]
DecompByte(s) ==
  HandOut(IF s.pos = 0 THEN DoDecomp(s) ELSE s)

----------------------------------------------------------------------------
Reset(rom) ==
  RecalcROMPtr(
    [rom |-> rom, bank |-> [r \in 0 .. 3 |-> r], lo |-> <<>>, hi |-> <<>>,
     enable |-> <<{}, {}>>, regs |-> [c \in Channels |-> <<255, None, 65535>>],
     trigger |-> 0, count |-> 0, depth |-> 0, planes |-> 0, mask |-> 0, prevMask |-> <<0, 0>>,
     addr |-> 0, in |-> 0, have |-> 0, used |-> 0, pos |-> 0,
     mps |-> [c \in 0 .. 31 |-> 0], pred |-> [c \in 0 .. 31 |-> 32], prev |-> [p \in 0 .. 7 |-> 0],
     run |-> [g \in 0 .. 7 |-> 0], end |-> [g \in 0 .. 7 |-> 0],
     buf |-> [k \in 0 .. 63 |-> 0],
     \* history: the byte read last, how many of which transfer, and from where
     out |-> 0, read |-> 0, of |-> 0, from |-> 0, moved |-> FALSE, changes |-> 0])

Init == \E h \in Headers, p \in Patterns : sdd = Reset([header |-> h, pattern |-> p])

Change(s) == sdd.changes < Changes /\ sdd' = [s EXCEPT !.changes = @ + 1]

\* SDD1_Write_43xx, a channel's mode, source and count at a time.
WriteChannel == \E c \in Channels, x \in Setups : Change([sdd EXCEPT !.regs[c] = x])
WriteEnable0 == \E e \in SUBSET Channels : Change([sdd EXCEPT !.enable[1] = e])

\* $4801: the first channel enabled twice whose source is fixed.
Fixed(m)    == (m \div 8) % 2 = 1 /\ m < 128
Chosen(s)   == {c \in s.enable[1] \cap s.enable[2] : Fixed(s.regs[c][1])}
StartOf(s, x) ==
  InitDecomp([s EXCEPT !.trigger = x[2], !.count = x[3], !.of = x[3],
                       !.from = x[2], !.read = 0, !.moved = FALSE], x[2])
Enabled(s) == IF Chosen(s) = {} THEN s
              ELSE StartOf(s, s.regs[CHOOSE c \in Chosen(s) : \A d \in Chosen(s) : c <= d])
WriteEnable1 ==
  \E e \in SUBSET Channels :
    Change(Enabled([sdd EXCEPT !.enable[2] = e, !.trigger = None]))

\* The DMA's reads, of the trigger's address again and again.
ReadHiROM == sdd.trigger \notin {None, 0} /\ sdd.read < Reads /\ sdd' = DecompByte(sdd)

\* Other banks, written or in a state that was saved: its pointers are not in it.
WriteBank == \E r \in 0 .. 3 : Change(RecalcROMPtr([sdd EXCEPT !.bank[r] = 131, !.moved = TRUE]))
LoadState == \E b \in {1, 130} :
               Change(RecalcROMPtr([sdd EXCEPT !.bank = [r \in 0 .. 3 |-> b], !.moved = TRUE]))

Next == WriteChannel \/ WriteEnable0 \/ WriteEnable1 \/ ReadHiROM \/ WriteBank \/ LoadState
Spec == Init /\ [][Next]_sdd

----------------------------------------------------------------------------
\* The stream's bits, and a run as the commented form of the decoder reads it.
StreamBit(k)   == BitOf(ReadROM(sdd, sdd.from + (k \div 8)), 7 - (k % 8))
Plain(g) == IF StreamBit(sdd.used) = 0 THEN <<1, 2 ^ g>>
            ELSE LET sum[k \in 0 .. g] == IF k = 0 THEN 0
                       ELSE sum[k - 1] + 2 ^ (k - 1) * (1 - StreamBit(sdd.used + k))
                 IN  <<1 + g, 1 + sum[g]>>
Live == sdd.planes # 0

\* The register holds the bits of the stream that come next; a run read from its
\* top byte through the table is the one read a bit at a time; every run fits its
\* generator; the bytes of the tile are handed out in turn, for as long as the
\* transfer lasts and no longer; and every bank's pointers are its register's.
StreamInStep ==
  Live /\ ~sdd.moved =>
    /\ sdd.addr = sdd.from + ((sdd.used + sdd.have) \div 8) /\ (sdd.used + sdd.have) % 8 = 0
    /\ sdd.have \in 0 .. 15
    /\ \A k \in 0 .. 15 : BitOf(sdd.in, 15 - k) = IF k < sdd.have THEN StreamBit(sdd.used + k) ELSE 0
    /\ \A g \in 0 .. 7 : LET t == NewRun(sdd, g) IN <<t.used - sdd.used, t.run[g]>> = Plain(g)
RunsFit == \A g \in 0 .. 7 : sdd.run[g] \in 0 .. 2 ^ g
TransferInStep ==
  Live => /\ sdd.mask + 1 = 8 * sdd.planes
          /\ sdd.pos = sdd.read % (sdd.mask + 1)
          /\ sdd.trigger # None => sdd.read < sdd.of
BanksFollow == \A r \in 0 .. 3 : /\ sdd.hi[r] = sdd.bank[r] % 8
                                 /\ sdd.bank[r] < 128 => sdd.lo[r] = r
Decompressed == StreamInStep /\ RunsFit /\ TransferInStep /\ BanksFollow
=============================================================================
