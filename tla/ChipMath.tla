------------------------------ MODULE ChipMath ------------------------------
(***************************************************************************)
(* The computations of the SA-1's arithmetic unit (cart/sa1.cpp), of the   *)
(* DSP-1 (cart/dsp1chip.h) and of the DSP-2 (cart/dsp2chip.h): each as the *)
(* code does it, beside what it means.  A word has W bits (16), a nybble N *)
(* (4), an angle is a number of quarter turns.                             *)
(***************************************************************************)
EXTENDS Words, Sequences

CONSTANTS W, N, Operands, Lens

VARIABLE job            \* a command and its arguments, then its results

Quot(x, y) == IF x < 0 THEN -((-x) \div y) ELSE x \div y     \* as C divides
Val(x)     == Signed(W, x)

\* SA-1, $2254: a product, a quotient and a remainder, or a sum of products, in a
\* register of 3 * W bits (64) of which Shown (40) are read.
R     == 3 * W
Shown == 2 * W + W \div 2
Sa1Multiply(a, b) == Mod(R, Val(a) * Val(b))
Sa1Divide(a, b) ==
  IF b = 0 THEN <<0, 0>>
  ELSE <<Mod(W, Quot(Val(a), b)), Mod(W, Val(a) - b * Quot(Val(a), b))>>
Sa1Accumulate(sum, a, b) == Mod(R, sum + Val(a) * Val(b))
Sa1Sum(pairs) ==
  LET sum[k \in 0 .. Len(pairs)] == IF k = 0 THEN 0 ELSE Sa1Accumulate(sum[k - 1], pairs[k][1], pairs[k][2])
  IN  sum[Len(pairs)]
ReadBack(r) == Mod(Shown, r)

\* DSP-1, 00: a product of two fractions of 2^(W - 1).
Fraction(a, b) == Mod(W, (Val(a) * Val(b)) \div 2 ^ (W - 1))

\* DSP-1, 10: a reciprocal, between the two entries of the ROM's table around
\* the significand; the table has 2^T entries (128) and an end.
T == 3
Table(i) == (2 ^ (W - 1 + T)) \div (2 ^ T + i) - (IF i = 0 THEN 1 ELSE 0)
Reciprocal(a, exp) ==
  IF a = 0 THEN <<2 ^ (W - 1) - 1, 47>>
  ELSE LET neg   == Val(a) < 0
           sig   == IF neg THEN -Val(a) ELSE Val(a)
           l2    == Log2(W, sig)
           One   == 2 ^ (W - 2 - T)
           index == Mod(T, (sig * 2 ^ T) \div 2 ^ l2)
           \* for the lowest word the shift count is -1, and what comes of it 0
           ipc   == IF l2 = W - 1 THEN 0 ELSE (sig * 2 ^ (W - 2 - l2)) % One
           s     == (Table(index) * (One - ipc) + Table(index + 1) * ipc) \div One
           power == IF neg /\ index = 0 /\ ipc = 0 THEN 1 ELSE 0
       IN  <<(s \div 2 ^ power) * (IF neg THEN -1 ELSE 1), W - 1 - l2 + power - exp>>

\* DSP-1, turns by Sin and Cos of the angles: 0C, 1C, and the attitude of 01
\* (whose angles are negated) with what 0D and 03 do with it.
Cos(t) == <<1, 0, -1, 0>>[(t % 4) + 1]
Sin(t) == <<0, 1, 0, -1>>[(t % 4) + 1]
Rotate(t, x, y) == <<x * Cos(t) + y * Sin(t), y * Cos(t) - x * Sin(t)>>
Polar(t, v) ==
  LET p == <<v[1] * Cos(t[1]) + v[2] * Sin(t[1]), v[2] * Cos(t[1]) - v[1] * Sin(t[1]), v[3]>>
      q == <<p[1] * Cos(t[2]) - p[3] * Sin(t[2]), p[2], p[1] * Sin(t[2]) + p[3] * Cos(t[2])>>
  IN  <<q[1], q[2] * Cos(t[3]) + q[3] * Sin(t[3]), q[3] * Cos(t[3]) - q[2] * Sin(t[3])>>
Attitude(m, t) ==
  LET c1 == Cos(-t[1])  c2 == Cos(-t[2])  c3 == Cos(-t[3])
      s1 == Sin(-t[1])  s2 == Sin(-t[2])  s3 == Sin(-t[3])
  IN  <<<<m * c1 * c2, m * (c1 * s2 * s3 - s1 * c3), m * (s1 * s3 + c1 * s2 * c3)>>,
        <<m * s1 * c2, m * (c1 * c3 + s1 * s2 * s3), m * (s1 * s2 * c3 - c1 * s3)>>,
        <<-m * s2,     m * c2 * s3,                  m * c2 * c3>>>>
Dot(u, v) == u[1] * v[1] + u[2] * v[2] + u[3] * v[3]
Objective(m, v)  == [r \in 1 .. 3 |-> Dot(m[r], v)]
Subjective(m, v) == [r \in 1 .. 3 |-> Dot(<<m[1][r], m[2][r], m[3][r]>>, v)]
Forward(m, v)    == Subjective(m, v)[1]

\* DSP-2, 01: a tile's row of eight nybbles to planes; 05, 06, 0D: replacement of
\* a colour, reversal and scaling of a row of nybbles.
Planes(row)  == [k \in 0 .. N - 1 |-> [x \in 0 .. 7 |-> BitOf(row[Xor(3, x, 6)], k)]]
Both(lo, hi) == lo + hi * 2 ^ N
Replaced(row, new, color) ==
  [i \in DOMAIN row |->
     LET Nybble(x, n) == Mod(N, x \div 2 ^ (n * N))
         Clear(n) == Nybble(Xor(2 * N, row[i], Both(color, color)), n) = 0
         From(n)  == Nybble(IF Clear(n) THEN new[i] ELSE row[i], n)
     IN  Both(From(0), From(1))]
Reversed(row) ==
  [i \in DOMAIN row |-> LET x == row[Len(row) + 1 - i] IN Ior(2 * N, Shl(2 * N, x, N), Shr(2 * N, x, N))]
Doubled(a, b) ==
  LET p == Mod(2 * W - 1, Val(a) * Val(b))
  IN  p - BitOf(p, W - 1) * 2 ^ (W - 1) + BitOf(p, W - 2) * 2 ^ (W - 1)
Scaled(in, out) ==
  LET step[i \in 0 .. in] ==
        IF i = 0 THEN [accum |-> 0, dp |-> 1, row |-> [k \in 1 .. in + 1 |-> 0]]
        ELSE LET s == step[i - 1]
                 drawn == [s EXCEPT !.row[s.dp] = i, !.accum = @ + out + 1]
             IN  IF drawn.accum >= 0 THEN [drawn EXCEPT !.accum = @ - in, !.dp = @ + 1] ELSE drawn
  IN  step[in].row

Turns == (0 .. 3) \X (0 .. 3) \X (0 .. 3)
Rows  == UNION {[1 .. n -> {0, 1, 2 ^ N, Both(1, 2), Both(2, 2)}] : n \in Lens}
Jobs ==
  {<<op, a, b, c>> : op \in {"multiply", "divide", "fraction", "doubled"},
                     a \in Operands, b \in Operands, c \in {0}}
  \cup {<<"accumulate", a, b, c>> : a \in Operands, b \in Operands,
                                    c \in {<<1, 1>>, <<2 ^ (W - 1), 1>>, <<2 ^ (W - 1), 2 ^ (W - 1)>>}}
  \cup {<<"reciprocal", a, e, 0>> : a \in Operands, e \in {0, 1}}
  \cup {<<"rotate", t, x, y>> : t \in 0 .. 3, x \in {1, 3}, y \in {0, -2}}
  \cup {<<op, m, t, <<1, -2, 5>>>> : op \in {"polar", "attitude"}, m \in {1, 3}, t \in Turns}
  \cup {<<"planes", x, v, 0>> : x \in 0 .. 7, v \in 0 .. 2 ^ N - 1}
  \cup {<<op, r, [i \in DOMAIN r |-> Both(3, 1 + (r[i] % 2))], c>> : op \in {"replaced", "reversed"}, r \in Rows, c \in 0 .. 2}
  \cup {<<"scaled", i, o, 0>> : i \in 1 .. 9, o \in 1 .. 9}

Computed(j) ==
  CASE j[1] = "multiply"   -> Sa1Multiply(j[2], j[3])
    [] j[1] = "divide"     -> Sa1Divide(j[2], j[3])
    [] j[1] = "accumulate" -> Sa1Sum(<<<<j[2], j[3]>>, j[4]>>)
    [] j[1] = "fraction"   -> Fraction(j[2], j[3])
    [] j[1] = "doubled"    -> Doubled(j[2], j[3])
    [] j[1] = "reciprocal" -> Reciprocal(j[2], j[3])
    [] j[1] = "rotate"     -> Rotate(j[2], j[3], j[4])
    [] j[1] = "polar"      -> Polar(j[3], j[4])
    [] j[1] = "attitude"   -> Objective(Attitude(j[2], j[3]), j[4])
    [] j[1] = "planes"     -> Planes([x \in 0 .. 7 |-> IF x = j[2] THEN j[3] ELSE 0])
    [] j[1] = "replaced"   -> Replaced(j[2], j[3], j[4])
    [] j[1] = "reversed"   -> Reversed(j[2])
    [] j[1] = "scaled"     -> Scaled(j[2], j[3])

Init == job \in {<<j>> : j \in Jobs}
Compute == Len(job) = 1 /\ job' = <<job[1], Computed(job[1])>>
Next == Compute
Spec == Init /\ [][Next]_job

----------------------------------------------------------------------------
Near(x, y, unit) == x - y \in -unit .. unit
Pixel(row, p)    == Mod(N, row[(p \div 2) + 1] \div 2 ^ (N * (1 - (p % 2))))   \* the upper nybble is the first

\* Quarter turns about an axis.
Quarter(axis, v) == CASE axis = 1 -> <<v[2], -v[1], v[3]>>
                      [] axis = 2 -> <<-v[3], v[2], v[1]>>
                      [] axis = 3 -> <<v[1], v[3], -v[2]>>
Turned(axis, n, v) ==
  LET turn[k \in 0 .. n] == IF k = 0 THEN v ELSE Quarter(axis, turn[k - 1]) IN turn[n]

\* The SA-1's product is read back with its sign, and the sum of two; the quotient
\* and the remainder make up the dividend, the remainder with its sign, and nothing
\* is divided by 0.
Sa1Meant(op, j, r) ==
  CASE op = "multiply" -> Signed(Shown, ReadBack(r)) = Times(W, j[2], j[3])
    [] op = "accumulate" -> Signed(Shown, ReadBack(r)) = Times(W, j[2], j[3]) + Times(W, j[4][1], j[4][2])
    [] op = "divide" ->
         LET q == Val(r[1])  m == Val(r[2])  a == Val(j[2])
         IN  IF j[3] = 0 THEN r = <<0, 0>>
             ELSE q * j[3] + m = a /\ m \in IF a < 0 THEN 1 - j[3] .. 0 ELSE 0 .. j[3] - 1

\* The DSP-1's product of fractions is the whole one's upper part, but of -1 and -1;
\* a reciprocal is one to the table's precision and normalised, of 0 the greatest;
\* turns are as many quarter turns about each axis, of which 03 and 0D undo one
\* another, scaled twice.
Dsp1Meant(op, j, r) ==
  CASE op = "fraction" ->
         LET p == Times(W, j[2], j[3])
         IN  IF p = 2 ^ (2 * W - 2) THEN Val(r) = -(2 ^ (W - 1))
             ELSE p - Val(r) * 2 ^ (W - 1) \in 0 .. 2 ^ (W - 1) - 1
    [] op = "reciprocal" ->
         IF j[2] = 0 THEN r = <<2 ^ (W - 1) - 1, 47>>
         ELSE /\ Near(r[1] * Val(j[2]) * 2 ^ (r[2] + j[3]), 2 ^ (2 * W - 2), 2 ^ (2 * W - 6))
              /\ (IF Val(j[2]) < 0 THEN -r[1] ELSE r[1]) \in 2 ^ (W - 2) - 1 .. 2 ^ (W - 1) - 1
    [] op = "rotate" -> r \o <<0>> = Turned(1, j[2], <<j[3], j[4], 0>>)
    [] op = "polar" -> r = Turned(3, j[3][3], Turned(2, j[3][2], Turned(1, j[3][1], j[4])))
    [] op = "attitude" ->
         LET m == Attitude(j[2], j[3])
         IN  /\ [i \in 1 .. 3 |-> r[i]] = [i \in 1 .. 3 |-> j[2] * Turned(1, j[3][1], Turned(2, j[3][2], Turned(3, j[3][3], j[4])))[i]]
             /\ Subjective(m, r) = [i \in 1 .. 3 |-> j[2] * j[2] * j[4][i]]
             /\ Forward(m, r) = j[2] * j[2] * j[4][1]

\* The DSP-2's product keeps all bits but two: the sign, and the lower word's top bit,
\* in whose place the next lower one stands; planes hold each pixel once, the pairs of
\* pixels swapped as their bytes are; pixels of the color are replaced, the others
\* stay; a row is reversed pixel by pixel; a scaled row is drawn from the source in
\* its order, nothing skipped that the scale leaves room for.
Dsp2Meant(op, j, r) ==
  CASE op = "doubled" ->
         HasBits(2 * W - 1, r, LAMBDA k : Bit(Times(W, j[2], j[3]), IF k = W - 1 THEN W - 2 ELSE k))
    [] op = "planes" ->
         \A x \in 0 .. 7, k \in 0 .. N - 1 :
           r[k][x] = IF x \div 2 + j[2] \div 2 = 3 /\ x % 2 = j[2] % 2 THEN BitOf(j[3], k) ELSE 0
    [] op = "replaced" ->
         \A p \in 0 .. 2 * Len(r) - 1 :
           Pixel(r, p) = Pixel(IF Pixel(j[2], p) = j[4] THEN j[3] ELSE j[2], p)
    [] op = "reversed" -> \A p \in 0 .. 2 * Len(r) - 1 : Pixel(r, p) = Pixel(j[2], 2 * Len(r) - 1 - p)
    [] op = "scaled" ->
         LET n == IF j[3] < j[2] THEN j[3] ELSE j[2]
         IN  /\ \A k \in 1 .. n : r[k] \in 1 .. j[2]
             /\ \A k \in 1 .. n - 1 : r[k + 1] - r[k] \in 1 .. (j[2] + j[3]) \div (j[3] + 1)

\* Each computation gives what it means.
ChipArithmetic ==
  Len(job) = 2 =>
    LET j == job[1]  r == job[2]  op == j[1]
    IN  /\ op \in {"multiply", "divide", "accumulate"} => Sa1Meant(op, j, r)
        /\ op \in {"fraction", "reciprocal", "rotate", "polar", "attitude"} => Dsp1Meant(op, j, r)
        /\ op \in {"doubled", "planes", "replaced", "reversed", "scaled"} => Dsp2Meant(op, j, r)
=============================================================================
