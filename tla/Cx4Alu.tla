------------------------------- MODULE Cx4Alu -------------------------------
(***************************************************************************)
(* The arithmetic, moves and memory accesses of the Cx4 (cart/cx4.cpp), on *)
(* words of three bytes of B bits (8): results and flags as the code       *)
(* computes them in a wider word, beside what they mean in whole numbers.  *)
(***************************************************************************)
EXTENDS Words, Sequences

CONSTANTS B, Values     \* the bits of a byte, the words tried

VARIABLE cpu            \* the registers, the instruction and the registers after it

W    == 3 * B
Mask == 2 ^ W - 1
Room == 3               \* the bytes of data RAM; an address past them has none

\* CART_CX4_Init: which register a number reads and writes, and with what mask.
RMap == [n \in {0, 1, 2, 3, 8, 12, 19, 28, 40, 81, 96, 127} |->
           CASE n = 0 -> "A" [] n = 1 -> "MACH" [] n = 2 -> "MACL" [] n = 3 -> "MBR" [] n = 8 -> "ROMB"
             [] n = 12 -> "RAMB" [] n = 19 -> "MAR" [] n = 28 -> "DPR" [] n = 40 -> "P"
             [] n = 81 -> "IR1" [] n = 96 -> "R0" [] n = 127 -> "R15"]
WMap == [n \in DOMAIN RMap |-> IF n \in {1, 2, 8, 81} THEN "dummy" ELSE RMap[n]]
WMask(n) == CASE n = 3 -> 2 ^ B - 1 [] n = 28 -> 2 ^ (2 * B - 4) - 1 [] n = 40 -> 2 ^ (2 * B - 1) - 1
              [] n \in {1, 2, 8, 81} -> 0 [] OTHER -> Mask
Blank == [n \in {"MACH", "MACL", "MBR", "ROMB", "RAMB", "MAR", "DPR", "P", "R0", "R15", "dummy"} |-> 0]

\* The operand: an immediate byte, or a register's value.
PreShift(ss)  == CASE ss = 0 -> 0 [] ss = 1 -> 1 [] ss = 2 -> B [] ss = 3 -> 2 * B
Operand(c, i) == IF i.imm THEN Mod(B, i.arg) ELSE i.arg
Shifted(c, i) == Shl(W, c.reg.A, PreShift(i.ss))
Accum(c, v)   == [c EXCEPT !.reg.A = v, !.n = Top(W, v), !.z = v = 0]

\* Instr_ADDSUB and Instr_CMP, in a word of W + 2 bits.
Wide(x) == Mod(W + 2, x)
Summed(c, i) ==
  LET a == Shifted(c, i)  b == Operand(c, i)  tmp == a + b
  IN  [Accum(c, Mod(W, tmp)) EXCEPT !.c = BitOf(tmp, W) = 1,
                                    !.v = Top(W, a) = Top(W, b) /\ Top(W, a) # Top(W, tmp)]
Less(c, a, b) ==
  LET tmp == Wide(a - b)
  IN  [r |-> Mod(W, tmp), c |-> BitOf(tmp, W) = 0, v |-> Top(W, a) # Top(W, b) /\ Top(W, a) # Top(W, tmp)]
Difference(c, i) == IF i.swap THEN Less(c, Operand(c, i), Shifted(c, i))
                              ELSE Less(c, Shifted(c, i), Operand(c, i))
ADDSUB(c, i) == IF i.op = "ADD" THEN Summed(c, i)
                ELSE LET d == Difference(c, i) IN [Accum(c, d.r) EXCEPT !.c = d.c, !.v = d.v]
CMP(c, i)    == LET d == Difference(c, i)
                IN  [c EXCEPT !.c = d.c, !.v = d.v, !.n = Top(W, d.r), !.z = d.r = 0]

\* Instr_MUL keeps the product's two halves and no flag.
MUL(c, i) == LET product == Mod(2 * W, Signed(W, c.reg.A) * Signed(W, Operand(c, i)))
             IN  [c EXCEPT !.reg.MACH = product \div 2 ^ W, !.reg.MACL = Mod(W, product)]

\* Instr_BitOps; a shift by more than the word is one by nothing.
By(c, i) == LET n == Operand(c, i) % 32 IN IF n > W THEN 0 ELSE n
BitOps(c, i) ==
  LET tmp == Shifted(c, i)  n == By(c, i)
  IN  Accum(c, CASE i.op = "XNOR" -> Xor(W, tmp, Not(W, Operand(c, i)))
                 [] i.op = "XOR"  -> Xor(W, tmp, Operand(c, i))
                 [] i.op = "AND"  -> And(W, tmp, Operand(c, i))
                 [] i.op = "OR"   -> Ior(W, tmp, Operand(c, i))
                 [] i.op = "SHLR" -> tmp \div 2 ^ n
                 [] i.op = "SHAR" -> Mod(W, Signed(W, tmp) \div 2 ^ n)
                 [] i.op = "ROTR" -> Ior(W, tmp \div 2 ^ n, Shl(W, tmp, W - n))
                 [] i.op = "SHLL" -> Shl(W, tmp, n))

\* Sign extension, of one byte or of two.
EXT(c, i) == Accum(c, Mod(W, Signed(IF i.imm THEN B ELSE 2 * B, c.reg.A)))

\* Moves: of a register to A, to MBR, to a half of P; of A to a register; SWAP; Clear.
Mov(c, i) ==
  [c EXCEPT !.reg[i.to] = IF i.to = "P" THEN Mod(2 * B - 1, Operand(c, i)) ELSE Operand(c, i)]
MovP(c, i) ==
  [c EXCEPT !.reg.P = IF i.swap THEN Mod(B, @) + Mod(B - 1, Operand(c, i)) * 2 ^ B
                                ELSE (@ \div 2 ^ B) * 2 ^ B + Mod(B, Operand(c, i))]
Read(c, n)  == IF RMap[n] = "IR1" THEN Mask ELSE c.reg[RMap[n]]
Store(c, n) == [c EXCEPT !.reg[WMap[n]] = And(W, c.reg.A, WMask(n))]
SWAP(c)  == [c EXCEPT !.reg.A = c.reg.R0, !.reg.R0 = c.reg.A]
Clear(c) == [c EXCEPT !.reg.A = 0, !.reg.RAMB = 0, !.reg.DPR = 0, !.reg.P = 0]

\* Instr_WRRAM and Instr_RDRAM: a byte of RAMB, at A or at DPR and an offset.
Lane(x, k)  == Mod(B, x \div 2 ^ (k * B))
At(c, i)    == Mod(12, IF i.imm THEN c.reg.DPR + Mod(B, i.arg) ELSE c.reg.A)
WRRAM(c, i) == IF At(c, i) >= Room THEN c ELSE [c EXCEPT !.ram[At(c, i)] = Lane(c.reg.RAMB, i.ss)]
RDRAM(c, i) == IF At(c, i) >= Room THEN c
               ELSE [c EXCEPT !.reg.RAMB = @ + (c.ram[At(c, i)] - Lane(@, i.ss)) * 2 ^ (i.ss * B)]

Executed(c, i) ==
  CASE i.op \in {"ADD", "SUB"} -> ADDSUB(c, i)
    [] i.op = "CMP"  -> CMP(c, i)   [] i.op = "MUL" -> MUL(c, i)  [] i.op = "EXT" -> EXT(c, i)
    [] i.op = "MOV"  -> Mov(c, i)   [] i.op = "MOVP" -> MovP(c, i)
    [] i.op = "STORE" -> Store(c, i.reg) [] i.op = "SWAP" -> SWAP(c) [] i.op = "CLEAR" -> Clear(c)
    [] i.op = "WRRAM" -> WRRAM(c, i) [] i.op = "RDRAM" -> RDRAM(c, i)
    [] OTHER -> BitOps(c, i)

Arithmetic == {"ADD", "SUB", "CMP", "MUL", "XNOR", "XOR", "AND", "OR", "SHLR", "SHAR", "ROTR", "SHLL"}
Instruction(op, arg, ss, imm, swap, reg, to) ==
  [op |-> op, arg |-> arg, ss |-> ss, imm |-> imm, swap |-> swap, reg |-> reg, to |-> to]
Instructions ==
  {Instruction(op, arg, ss, imm, swap, 0, "A") :
     op \in Arithmetic, arg \in Values, ss \in 0 .. 3, imm \in BOOLEAN, swap \in BOOLEAN}
  \cup {Instruction(op, arg, ss, imm, FALSE, 0, to) :
          op \in {"EXT", "MOV", "SWAP", "CLEAR", "WRRAM", "RDRAM"}, arg \in Values, ss \in 0 .. 2,
          imm \in BOOLEAN, to \in {"A", "MBR", "MAR", "P"}}
  \cup {Instruction(op, arg, 0, imm, swap, reg, "A") :
          op \in {"MOVP", "STORE"}, arg \in Values, imm \in BOOLEAN, swap \in BOOLEAN, reg \in DOMAIN RMap}
CPU(a, b, f) == [reg |-> [r \in DOMAIN Blank \cup {"A"} |->
                         CASE r = "A" -> a [] r \in {"RAMB", "R0"} -> b [] r = "P" -> Mod(2 * B - 1, b)
                           [] r = "DPR" -> 1 [] OTHER -> 0],
              ram |-> [k \in 0 .. Room - 1 |-> k + 1],
              n |-> f, z |-> f, c |-> f, v |-> f]
Init == \E a, b \in Values, f \in BOOLEAN, i \in Instructions : cpu = <<CPU(a, b, f), i>>
Execute == Len(cpu) = 2 /\ cpu' = <<cpu[1], cpu[2], Executed(cpu[1], cpu[2])>>
Next == Execute
Spec == Init /\ [][Next]_cpu

----------------------------------------------------------------------------
Fits(x) == x \in -(2 ^ (W - 1)) .. 2 ^ (W - 1) - 1
\* What a difference means: a carry where nothing is borrowed, an overflow where
\* the signed difference is no word, and an order from the flags N and V.
Subtracts(x, y, o) == /\ o.c <=> x >= y
                      /\ o.v <=> ~Fits(Signed(W, x) - Signed(W, y))
                      /\ o.z <=> x = y
                      /\ (o.n # o.v) <=> Signed(W, x) < Signed(W, y)

\* What each instruction makes of the registers and of the RAM. A number that both
\* reads and writes a register reads what was stored through it, masked.
ResultMeant(c, i, o) ==
  LET x == IF i.swap THEN Operand(c, i) ELSE Shifted(c, i)
      y == IF i.swap THEN Shifted(c, i) ELSE Operand(c, i)
      a == Shifted(c, i)
      b == Operand(c, i)
      n == By(c, i)
      A == o.reg.A
      m == IF i.imm THEN B ELSE 2 * B           \* the bits EXT keeps
      half == IF i.swap THEN 1 ELSE 0           \* the half of P MOVP writes
  IN  CASE i.op = "ADD" -> /\ A = (x + y) % 2 ^ W /\ (o.c <=> x + y > Mask)
                           /\ o.v <=> ~Fits(Signed(W, x) + Signed(W, y))
        [] i.op = "SUB" -> A = (x - y) % 2 ^ W /\ Subtracts(x, y, o)
        [] i.op = "CMP" -> Subtracts(x, y, o)
        [] i.op = "MUL" -> Signed(W, o.reg.MACH) * 2 ^ W + o.reg.MACL = Times(W, c.reg.A, b)
        [] i.op = "XNOR" -> HasBits(W, A, LAMBDA k : Bit(a, k) = Bit(b, k))
        [] i.op = "XOR"  -> HasBits(W, A, LAMBDA k : Bit(a, k) # Bit(b, k))
        [] i.op = "AND"  -> HasBits(W, A, LAMBDA k : Bit(a, k) /\ Bit(b, k))
        [] i.op = "OR"   -> HasBits(W, A, LAMBDA k : Bit(a, k) \/ Bit(b, k))
        [] i.op = "SHLR" -> HasBits(W, A, LAMBDA k : k + n < W /\ Bit(a, k + n))
        [] i.op = "SHAR" -> HasBits(W, A, LAMBDA k : Bit(a, IF k + n < W THEN k + n ELSE W - 1))
        [] i.op = "ROTR" -> HasBits(W, A, LAMBDA k : Bit(a, (k + n) % W))
        [] i.op = "SHLL" -> HasBits(W, A, LAMBDA k : k >= n /\ Bit(a, k - n))
        [] i.op = "EXT"  -> HasBits(W, A, LAMBDA k : Bit(c.reg.A, IF k < m THEN k ELSE m - 1))
        [] i.op = "MOV"  -> HasBits(W, o.reg[i.to], LAMBDA k : Bit(b, k) /\ (i.to = "P" => k < 2 * B - 1))
        [] i.op = "MOVP" -> HasBits(2 * B - 1, o.reg.P,
                              LAMBDA k : Bit(IF k \div B # half THEN c.reg.P ELSE b * 2 ^ (half * B), k))
        [] i.op = "STORE" -> /\ WMap[i.reg] = RMap[i.reg] =>
                                  HasBits(W, Read(o, i.reg), LAMBDA k : Bit(c.reg.A, k) /\ Bit(WMask(i.reg), k))
                             /\ \A r \in {1, 2, 8, 81} : Read(o, r) = Read(c, r)
        [] i.op = "SWAP"  -> <<A, o.reg.R0>> = <<c.reg.R0, c.reg.A>>
        [] i.op = "CLEAR" -> \A r \in {"A", "RAMB", "DPR", "P"} : o.reg[r] = 0
        [] i.op = "WRRAM" -> \A k \in 0 .. Room - 1 :
                               o.ram[k] = IF k = At(c, i) THEN Lane(c.reg.RAMB, i.ss) ELSE c.ram[k]
        [] i.op = "RDRAM" -> \A k \in 0 .. 2 :
                               Lane(o.reg.RAMB, k) = IF k = i.ss /\ At(c, i) < Room THEN c.ram[At(c, i)]
                                                     ELSE Lane(c.reg.RAMB, k)

\* What it leaves alone: registers, bytes of the RAM and flags.
Written(i) ==
  CASE i.op \in {"ADD", "SUB", "XNOR", "XOR", "AND", "OR", "SHLR", "SHAR", "ROTR", "SHLL", "EXT"} -> {"A"}
    [] i.op = "MUL" -> {"MACH", "MACL"}    [] i.op = "MOV" -> {i.to}     [] i.op = "MOVP" -> {"P"}
    [] i.op = "STORE" -> {WMap[i.reg]}     [] i.op = "SWAP" -> {"A", "R0"}
    [] i.op = "CLEAR" -> {"A", "RAMB", "DPR", "P"}
    [] i.op = "RDRAM" -> {"RAMB"}          [] i.op \in {"CMP", "WRRAM"} -> {}
Untouched(c, i, o) ==
  /\ \A r \in DOMAIN c.reg \ Written(i) : o.reg[r] = c.reg[r]
  /\ i.op # "WRRAM" => o.ram = c.ram
  /\ i.op \notin {"ADD", "SUB", "CMP"} => o.c = c.c /\ o.v = c.v
  /\ IF Written(i) = {"A"} /\ i.op \notin {"MOV", "STORE"}
     THEN (o.n <=> Bit(o.reg.A, W - 1)) /\ (o.z <=> o.reg.A = 0)
     ELSE i.op # "CMP" => o.n = c.n /\ o.z = c.z

\* Each instruction's result and flags are those of its meaning, as whole numbers or
\* bit by bit, and it leaves the other registers, bytes and flags alone.
Cx4Arithmetic == Len(cpu) = 3 => LET c == cpu[1]  i == cpu[2]  o == cpu[3]
                                 IN  ResultMeant(c, i, o) /\ Untouched(c, i, o)
=============================================================================
