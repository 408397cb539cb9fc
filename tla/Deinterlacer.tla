---------------------------- MODULE Deinterlacer ----------------------------
(***************************************************************************)
(* What becomes of an interlaced frame (MDFNI_Emulate and the              *)
(* deinterlacers below it). The PPU writes one field, every other line of  *)
(* the picture; the deinterlacer fills the lines between from it and from  *)
(* the field before, which it keeps. A pixel is known by the field it is   *)
(* of, counted back from this one, and its row there; a mixed pixel is a   *)
(* set of two. In this program the PPU's picture begins at column 0 and    *)
(* its lines have widths of their own, which is the one case met here.     *)
(***************************************************************************)
EXTENDS Integers, Sequences

CONSTANTS
  Types,      \* the deinterlacers: "weave", "bob", "bob_offset", "blend"
  Rows,       \* the rows a field may have in a game
  Widths      \* the widths a line may have

VARIABLE di   \* the deinterlacer, and the last picture

Width == CHOOSE w \in Widths : \A x \in Widths : x <= w
MostRows == CHOOSE h \in Rows : \A x \in Rows : x <= h
Black == {<<-1, 0>>}
Garbage == {<<9, 0>>}
Pixel(age, row) == {<<age, row>>}

\* As time passes a pixel is of an older field; only the last one may be shown.
Older(p) == {IF x[1] \in 0 .. 1 THEN <<x[1] + 1, x[2]>> ELSE x : x \in p}
Aged(buf) == [y \in DOMAIN buf |-> [buf[y] EXCEPT !.pix = [k \in 1 .. Width |-> Older(@[k])]]]

Line(w, pix) == [w |-> w, pix |-> [k \in 1 .. w |-> pix[k]]]
Empty == [w |-> 0, pix |-> [k \in 1 .. Width |-> Garbage]]

\* Row y of this field, and a line that is black.
Row(y, w) == Line(w, [k \in 1 .. Width |-> Pixel(0, y)])
BlackLine(w) == Line(w, [k \in 1 .. Width |-> Black])

\* Deinterlacer::Create. The buffer is not cleared.
Create(type) ==
  [type |-> type, valid |-> FALSE, height |-> 0, buf |-> [y \in 0 .. MostRows - 1 |-> Empty]]

ClearState(d) == [d EXCEPT !.valid = FALSE, !.height = IF d.type = "blend" THEN @ ELSE 0]

\* The row is kept; what lies behind its end in the buffer stays.
Kept(buf, ws, rows) ==
  [y \in DOMAIN buf |->
     IF y >= rows THEN buf[y]
     ELSE [w |-> ws[y], pix |-> [k \in 1 .. Width |-> IF k <= ws[y] THEN Pixel(0, y) ELSE buf[y].pix[k]]]]

----------------------------------------------------------------------------
(* Deinterlacer_Simple. Each gives the lines of the picture, by number.    *)

\* The line of a field's row; and the one the row's copy goes to.
Own(y, field) == (2 * y) + field
Other(y, field) == (2 * y) + (1 - field)

\* Weaving needs the field before; without it the lines are doubled, downwards.
WeaveGood(d, rows) == d.type = "weave" /\ d.valid /\ d.height = rows

Weave(d, ws, rows, field) ==
  [n \in 0 .. (2 * rows) - 1 |->
     LET y == n \div 2 IN
     IF n = Own(y, field) THEN Row(y, ws[y]) ELSE Line(d.buf[y].w, d.buf[y].pix)]

Bob(ws, rows) == [n \in 0 .. (2 * rows) - 1 |-> Row(n \div 2, ws[n \div 2])]

Offset(ws, rows, field) ==
  [n \in 0 .. (2 * rows) - 1 |->
     IF n < field THEN BlackLine(ws[0]) ELSE Row((n - field) \div 2, ws[(n - field) \div 2])]

----------------------------------------------------------------------------
(* Deinterlacer_Blend: a row is mixed with the row of the field before     *)
(* that lies above its line, and the line below it is the row mixed with   *)
(* the one that lies below.                                                *)

Mix(a, b, w) == [w |-> w, pix |-> [k \in 1 .. w |-> a[k] \cup b[k]]]
Blacks == [k \in 1 .. Width |-> Black]

\* A row is mixed if those it is mixed with are as wide. Above a row of the first
\* field lies the one before, of which this field's width is looked at.
Blends(d, ws, rows, field, y) ==
  /\ d.valid
  /\ ws[y] = d.buf[y].w
  /\ field = 0 /\ y > 0 => ws[y] = ws[y - 1]
  /\ field = 1 /\ y + 1 < rows => ws[y] = d.buf[y + 1].w

Above(d, field, y) ==
  IF field = 1 THEN d.buf[y].pix ELSE IF y > 0 THEN d.buf[y - 1].pix ELSE Blacks

Blend(d, ws, rows, field) ==
  [n \in 0 .. (2 * rows) - 1 |->
     LET y == IF n < field THEN 0 ELSE (n - field) \div 2
         row == Row(y, ws[y])
     IN IF ~Blends(d, ws, rows, field, y) THEN IF n < field THEN BlackLine(ws[0]) ELSE row
        ELSE IF n < field THEN Mix(d.buf[0].pix, Blacks, ws[0])
        ELSE IF n = Own(y, field) THEN Mix(row.pix, Above(d, field, y), ws[y])
        ELSE Mix(row.pix, d.buf[y + field].pix, ws[y])]

----------------------------------------------------------------------------
Picture(d, ws, rows, field) ==
  CASE WeaveGood(d, rows) -> Weave(d, ws, rows, field)
    [] d.type = "bob" -> Bob(ws, rows)
    [] d.type = "blend" -> Blend(d, ws, rows, field)
    [] OTHER -> Offset(ws, rows, field)

\* Process, of a picture of another height without what was kept.
Process(d, ws, rows, field) ==
  [type |-> d.type, valid |-> d.type \in {"weave", "blend"}, height |-> rows,
   buf |-> IF d.type \in {"weave", "blend"} THEN Kept(d.buf, ws, rows) ELSE d.buf]
Fits(d, rows) == IF d.type = "blend" /\ d.height # rows THEN [d EXCEPT !.valid = FALSE] ELSE d

\* A frame of MDFNI_Emulate. last is what the field before was, if there was one.
NoField == [rows |-> 0, field |-> 0, ws |-> <<>>]
Progressive ==
  di' = [di EXCEPT !.d.buf = Aged(@), !.PrevInterlaced = FALSE, !.last = NoField, !.now = NoField, !.out = <<>>]

Interlaced(rows, field, ws) ==
  LET old == [di.d EXCEPT !.buf = Aged(@)]
      d == Fits(IF di.PrevInterlaced THEN old ELSE ClearState(old), rows)
  IN di' = [d |-> Process(d, ws, rows, field), rows |-> rows, PrevInterlaced |-> TRUE,
            last |-> di.now, now |-> [rows |-> rows, field |-> field, ws |-> ws],
            out |-> Picture(d, ws, rows, field)]

\* LoadCommonPost: a game, with its deinterlacer and its height.
LoadCommonPost(type, rows) ==
  [d |-> Create(type), rows |-> rows, PrevInterlaced |-> FALSE, last |-> NoField, now |-> NoField, out |-> <<>>]

Init == \E type \in Types, rows \in Rows : di = LoadCommonPost(type, rows)

Next == \/ Progressive
        \/ \E type \in Types, rows \in Rows : di' = LoadCommonPost(type, rows)
        \/ \E field \in 0 .. 1 : \E ws \in [0 .. di.rows - 1 -> Widths] : Interlaced(di.rows, field, ws)

Spec == Init /\ [][Next]_di

----------------------------------------------------------------------------
\* The field before may be shown if it was the frame just before.
Usable == di.last.rows = di.now.rows

\* The row of the field before above an even field's row y was narrower than what
\* is mixed: the rest of the line is what an older field left there.
Ragged(y) == di.d.type = "blend" /\ di.now.field = 0 /\ y > 0 /\ Usable /\ di.last.ws[y - 1] < di.now.ws[y]

\* Every line of the picture is given, and nothing else is on it than this field,
\* the usable one before and black: the field's own lines show their row, in
\* full width, and no line shows a row more than one line off its place.
PictureSound ==
  di.now.rows > 0 =>
    \A n \in DOMAIN di.out :
      LET y == n \div 2 IN
      /\ \A k \in 1 .. di.out[n].w : \A x \in di.out[n].pix[k] :
           \/ x[1] = 0 /\ x[2] \in {y - 1, y}
           \/ x[1] = 1 /\ Usable /\ x[2] \in {y - 1, y, y + 1}
           \/ x \in Black /\ n = 0
           \/ Ragged(y)
      /\ n = Own(y, di.now.field) =>
           di.out[n].w = di.now.ws[y] /\ \A k \in 1 .. di.out[n].w : <<0, y>> \in di.out[n].pix[k]
      /\ (di.d.type = "weave" /\ Usable) => \A k \in 1 .. di.out[n].w : \E x \in di.out[n].pix[k] : di.out[n].pix[k] = {x}
      /\ (di.d.type = "weave" /\ Usable /\ n = Other(y, di.now.field)) => di.out[n].w = di.last.ws[y]
=============================================================================
