------------------------------- MODULE Words -------------------------------
(***************************************************************************)
(* Machine words as numbers: what the chips' arithmetic is written with,   *)
(* and the helpers of math_ops.h.  w is a width in bits.                   *)
(***************************************************************************)
EXTENDS Integers

Mod(w, x)    == x % 2 ^ w
BitOf(x, k)  == (x \div 2 ^ k) % 2
Top(w, x)    == BitOf(x, w - 1) = 1

\* sign_x_to_s32, and the casts to int8 and int16.
Signed(w, x) == IF Top(w, x) THEN Mod(w, x) - 2 ^ w ELSE Mod(w, x)

\* The bitwise operators, a bit at a time.
Bitwise2(w, a, b, Op(_, _)) ==
  LET sum[k \in 0 .. w] ==
        IF k = 0 THEN 0 ELSE sum[k - 1] + 2 ^ (k - 1) * Op(BitOf(a, k - 1), BitOf(b, k - 1))
  IN  sum[w]
And(w, a, b) == Bitwise2(w, a, b, LAMBDA x, y : x * y)
Ior(w, a, b) == Bitwise2(w, a, b, LAMBDA x, y : x + y - x * y)
Xor(w, a, b) == Bitwise2(w, a, b, LAMBDA x, y : (x + y) % 2)
Not(w, a)    == 2 ^ w - 1 - Mod(w, a)
Shl(w, a, n) == Mod(w, Mod(w, a) * 2 ^ n)
Shr(w, a, n) == Mod(w, a) \div 2 ^ n

\* What the above must give: r is the word whose bit k is set where Set(k), and the
\* product of two words' signed values is that of the words, less what their top
\* bits weigh too much.
Bit(x, k)            == BitOf(x, k) = 1
HasBits(w, r, Set(_)) == r \in 0 .. 2 ^ w - 1 /\ \A k \in 0 .. w - 1 : Bit(r, k) <=> Set(k)
Times(w, a, b) ==
  LET x == Mod(w, a)  y == Mod(w, b)  s == BitOf(a, w - 1)  t == BitOf(b, w - 1)
  IN  x * y - 2 ^ w * (s * y + t * x) + 2 ^ (2 * w) * s * t

\* MDFN_lzcount32_0UD without the compiler's help: halves, then halves of those.
LeadingZeros(w, v) ==
  LET Half(s, n) == IF Shr(w, s.v, w - n) = 0 THEN [v |-> Shl(w, s.v, n), z |-> s.z + n] ELSE s
      step[k \in 0 .. 5] == IF k = 0 THEN [v |-> v, z |-> 0]
                            ELSE IF w \div 2 ^ k = 0 THEN step[k - 1] ELSE Half(step[k - 1], w \div 2 ^ k)
  IN  step[5].z

\* MDFN_log2, of 0 too, and round_up_pow2.
Log2(w, v) == w - 1 - LeadingZeros(w, Ior(w, v, 1))
RoundUpPow2(w, v) == LET p == 2 ^ Log2(w, v) IN IF p < v THEN 2 * p ELSE p
============================================================================
