----------------------------- MODULE SuperFxAlu -----------------------------
(***************************************************************************)
(* The arithmetic of the SuperFX (cart/superfx.cpp): each operation as the *)
(* code computes its result and flags, from the bits of a wider word,      *)
(* beside what it means in whole numbers.  A word has W bits (16).         *)
(***************************************************************************)
EXTENDS Words

CONSTANTS W, Operands

VARIABLE op     \* the operation, its operands, and what it has written

H == W \div 2
Flags(z, s, c, v) == [z |-> z, s |-> s, c |-> c, v |-> v]
CalcSZ(f, r) == [f EXCEPT !.s = Top(W, r), !.z = Mod(W, r) = 0]
Num(c) == IF c THEN 1 ELSE 0

\* The results are kept in words of 2 * W bits, modulo which a borrow wraps.
Added(o, tmp) ==
  [r |-> Mod(W, tmp),
   f |-> CalcSZ([o.f EXCEPT !.c = BitOf(tmp, W) = 1,
                            !.v = Top(W, o.a) = Top(W, o.b) /\ Top(W, o.a) # Top(W, tmp)], tmp)]
Subtracted(o, difference) ==
  LET tmp == Mod(2 * W, difference)
  IN  [r |-> Mod(W, tmp),
       f |-> CalcSZ([o.f EXCEPT !.c = BitOf(tmp, W) = 0,
                                !.v = Top(W, o.a) # Top(W, o.b) /\ Top(W, o.a) # Top(W, tmp)], tmp)]
ADD(o) == Added(o, o.a + o.b)
ADC(o) == Added(o, o.a + o.b + Num(o.f.c))
SUB(o) == Subtracted(o, o.a - o.b)
\* Fault: the carry is taken for a borrow.
SBCBorrow(o) == Subtracted(o, o.a - o.b - Num(o.f.c))

SBC(o) == Subtracted(o, o.a - o.b - Num(~o.f.c))
CMP(o) == [SUB(o) EXCEPT !.r = o.a]

Logical(o, tmp) == [r |-> tmp, f |-> CalcSZ(o.f, tmp)]
AND(o) == Logical(o, And(W, o.a, o.b))
BIC(o) == Logical(o, And(W, o.a, Not(W, o.b)))
OR(o)  == Logical(o, Ior(W, o.a, o.b))
XOR(o) == Logical(o, Xor(W, o.a, o.b))
NOT(o) == Logical(o, Not(W, o.a))

Shifted(o, tmp, c) == [r |-> tmp, f |-> CalcSZ([o.f EXCEPT !.c = c], tmp)]
LSR(o) == Shifted(o, Shr(W, o.a, 1), o.a % 2 = 1)
ASR(o) == Shifted(o, Mod(W, Signed(W, o.a) \div 2), o.a % 2 = 1)
ROL(o) == Shifted(o, Shl(W, o.a, 1) + Num(o.f.c), Top(W, o.a))
ROR(o) == Shifted(o, Shr(W, o.a, 1) + Num(o.f.c) * 2 ^ (W - 1), o.a % 2 = 1)
DIV2(o) == LET half == Mod(W, Signed(W, o.a) \div 2)
           IN  Shifted(o, IF half = 2 ^ W - 1 THEN 0 ELSE half, o.a % 2 = 1)
INC(o) == Logical(o, Mod(W, o.a + 1))
DEC(o) == Logical(o, Mod(W, o.a - 1))

SWAP(o) == Logical(o, Shr(W, o.a, H) + Shl(W, o.a, H))
SEX(o)  == Logical(o, Mod(W, Signed(H, o.a)))
LOB(o)  == [r |-> Mod(H, o.a), f |-> [o.f EXCEPT !.s = Top(H, o.a), !.z = Mod(H, o.a) = 0]]
HIB(o)  == [r |-> Shr(W, o.a, H), f |-> [o.f EXCEPT !.s = Top(W, o.a), !.z = Shr(W, o.a, H) = 0]]

\* MERGE: the high bytes of R7 and R8, each flag a test of some of their upper bits.
MERGE(o) ==
  LET tmp     == Shr(W, o.a, H) * 2 ^ H + Shr(W, o.b, H)
      Some(n) == And(W, tmp, (2 ^ H + 1) * (2 ^ H - 2 ^ (H - n))) # 0
  IN  [r |-> tmp, f |-> Flags(Some(4), Some(1), Some(3), Some(2))]

\* FMULT and LMULT keep the upper half; LMULT writes the lower one to R4 as well.
Product(o) == Mod(2 * W, Signed(W, o.a) * Signed(W, o.b))
FMULT(o) == [r |-> Shr(2 * W, Product(o), W),
             f |-> [o.f EXCEPT !.s = Top(2 * W, Product(o)), !.z = Product(o) = 0,
                               !.c = BitOf(Product(o), W - 1) = 1]]
LMULT(o) == [r |-> FMULT(o).r, f |-> FMULT(o).f, r4 |-> Mod(W, Product(o))]
MULT(o)  == Logical(o, Mod(W, Signed(H, o.a) * Signed(H, o.b)))
UMULT(o) == Logical(o, Mod(H, o.a) * Mod(H, o.b))

Executed(o) ==
  CASE o.name = "ADD" -> ADD(o) [] o.name = "ADC" -> ADC(o) [] o.name = "SUB" -> SUB(o)
    [] o.name = "SBC" -> SBC(o) [] o.name = "CMP" -> CMP(o) [] o.name = "AND" -> AND(o)
    [] o.name = "BIC" -> BIC(o) [] o.name = "OR" -> OR(o)   [] o.name = "XOR" -> XOR(o)
    [] o.name = "NOT" -> NOT(o) [] o.name = "LSR" -> LSR(o) [] o.name = "ASR" -> ASR(o)
    [] o.name = "ROL" -> ROL(o) [] o.name = "ROR" -> ROR(o) [] o.name = "DIV2" -> DIV2(o)
    [] o.name = "INC" -> INC(o) [] o.name = "DEC" -> DEC(o) [] o.name = "SWAP" -> SWAP(o)
    [] o.name = "SEX" -> SEX(o) [] o.name = "LOB" -> LOB(o) [] o.name = "HIB" -> HIB(o)
    [] o.name = "MERGE" -> MERGE(o) [] o.name = "FMULT" -> FMULT(o) [] o.name = "LMULT" -> LMULT(o)
    [] o.name = "MULT" -> MULT(o) [] o.name = "UMULT" -> UMULT(o)

Names == {"ADD", "ADC", "SUB", "SBC", "CMP", "AND", "BIC", "OR", "XOR", "NOT", "LSR", "ASR", "ROL",
          "ROR", "DIV2", "INC", "DEC", "SWAP", "SEX", "LOB", "HIB", "MERGE", "FMULT", "LMULT",
          "MULT", "UMULT"}
Init == \E n \in Names, a, b \in Operands, z, s, c, v \in BOOLEAN :
          op = [name |-> n, a |-> a, b |-> b, f |-> Flags(z, s, c, v), out |-> <<>>]
Execute == op.out = <<>> /\ op' = [op EXCEPT !.out = <<Executed(op)>>]
Next == Execute
Spec == Init /\ [][Next]_op

----------------------------------------------------------------------------
\* What an operation means: its value as a whole number or bit by bit, and what
\* carries.
Fits(x)   == x \in -(2 ^ (W - 1)) .. 2 ^ (W - 1) - 1
Sum(k)    == /\ op.out[1].r = (op.a + op.b + k) % 2 ^ W
             /\ op.out[1].f.c <=> op.a + op.b + k > 2 ^ W - 1
             /\ op.out[1].f.v <=> ~Fits(Signed(W, op.a) + Signed(W, op.b) + k)
Less(k)   == /\ op.out[1].f.c <=> op.a - op.b - k >= 0
             /\ op.out[1].f.v <=> ~Fits(Signed(W, op.a) - Signed(W, op.b) - k)
Rest(k)   == op.out[1].r = (op.a - op.b - k) % 2 ^ W

\* The result of each operation, with the carry of those that add, subtract or shift.
ResultMeant ==
  LET n == op.name  a == op.a  b == op.b  r == op.out[1].r  c == op.out[1].f.c
      SignedOut == Signed(W, r)
      half      == Signed(W, a) \div 2
      product   == Times(W, a, b)
  IN  CASE n = "ADD" -> Sum(0)
        [] n = "ADC" -> Sum(Num(op.f.c))
        [] n = "SUB" -> Less(0) /\ Rest(0)
        [] n = "SBC" -> Less(Num(~op.f.c)) /\ Rest(Num(~op.f.c))
        [] n = "CMP" -> Less(0) /\ r = a
        [] n = "AND" -> HasBits(W, r, LAMBDA k : Bit(a, k) /\ Bit(b, k))
        [] n = "BIC" -> HasBits(W, r, LAMBDA k : Bit(a, k) /\ ~Bit(b, k))
        [] n = "OR"  -> HasBits(W, r, LAMBDA k : Bit(a, k) \/ Bit(b, k))
        [] n = "XOR" -> HasBits(W, r, LAMBDA k : Bit(a, k) # Bit(b, k))
        [] n = "NOT" -> SignedOut = -Signed(W, a) - 1
        [] n = "LSR" -> 2 * r + Num(c) = a
        [] n = "ASR" -> 2 * SignedOut + Num(c) = Signed(W, a)
        [] n = "ROL" -> Num(c) * 2 ^ W + r = 2 * a + Num(op.f.c)
        [] n = "ROR" -> 2 * r + Num(c) = a + Num(op.f.c) * 2 ^ W
        [] n = "DIV2" -> SignedOut = (IF half = -1 THEN 0 ELSE half) /\ (c <=> Bit(a, 0))
        [] n = "INC" -> r = IF a = 2 ^ W - 1 THEN 0 ELSE a + 1
        [] n = "DEC" -> r = IF a = 0 THEN 2 ^ W - 1 ELSE a - 1
        [] n = "SWAP" -> HasBits(W, r, LAMBDA k : Bit(a, (k + H) % W))
        [] n = "SEX" -> HasBits(W, r, LAMBDA k : Bit(a, IF k < H THEN k ELSE H - 1))
        [] n = "LOB" -> HasBits(W, r, LAMBDA k : k < H /\ Bit(a, k))
        [] n = "HIB" -> HasBits(W, r, LAMBDA k : k < H /\ Bit(a, k + H))
        [] n = "MERGE" -> HasBits(W, r, LAMBDA k : IF k < H THEN Bit(b, k + H) ELSE Bit(a, k))
        [] n = "FMULT" -> SignedOut = product \div 2 ^ W
        [] n = "LMULT" -> SignedOut * 2 ^ W + op.out[1].r4 = product
        [] n = "MULT" -> SignedOut = Times(H, a, b)
        [] n = "UMULT" -> r + 2 ^ H * ((a \div 2 ^ H) * b + (a % 2 ^ H) * (b \div 2 ^ H)) = a * b

\* The flags: S and Z are the result's, but for CMP, which orders its operands by
\* them, for LOB and HIB, whose S is the top bit of the byte kept, for the products
\* to 2 * W bits, which keep the whole product's with the highest bit they drop, and
\* for MERGE. C and V change only where the operation has them.
FlagsMeant ==
  LET n == op.name  a == op.a  b == op.b  r == op.out[1].r  f == op.out[1].f
      product == Times(W, a, b)
      Upper(m) == \E k \in 0 .. W - 1 : k % H >= H - m /\ Bit(r, k)
  IN  /\ CASE n = "CMP" -> (f.z <=> a = b) /\ ((f.s # f.v) <=> Signed(W, a) < Signed(W, b))
           [] n = "MERGE" -> /\ f.s <=> Upper(1)
                             /\ f.v <=> Upper(2)
                             /\ f.c <=> Upper(3)
                             /\ f.z <=> Upper(4)
           [] n \in {"FMULT", "LMULT"} -> /\ (f.s <=> product < 0) /\ (f.z <=> product = 0)
                                          /\ f.c <=> Bit(product, W - 1)
           [] n = "LOB" -> (f.s <=> Bit(a, H - 1)) /\ (f.z <=> r = 0)
           [] n = "HIB" -> (f.s <=> Bit(a, W - 1)) /\ (f.z <=> r = 0)
           [] n \notin {"CMP", "MERGE", "FMULT", "LMULT", "LOB", "HIB"} ->
                (f.s <=> Bit(r, W - 1)) /\ (f.z <=> r = 0)
      /\ n \in {"AND", "BIC", "OR", "XOR", "NOT", "INC", "DEC", "SWAP", "SEX", "LOB", "HIB", "MULT", "UMULT"}
           => f.c = op.f.c
      /\ n \notin {"ADD", "ADC", "SUB", "SBC", "CMP", "MERGE"} => f.v = op.f.v

\* Each operation's result is that of its meaning, and so is every flag; DIV2 alone
\* makes 0 of both -1 and -2.
GsuArithmetic == op.out # <<>> => ResultMeant /\ FlagsMeant
============================================================================
