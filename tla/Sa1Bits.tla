------------------------------ MODULE Sa1Bits ------------------------------
(***************************************************************************)
(* The variable-length reader of the SA-1 (cart/sa1.cpp): the ROM as a     *)
(* stream of codes of 1 to 16 bits, kept in three bytes of the ROM and an  *)
(* offset in them.  A byte is its address.                                 *)
(***************************************************************************)
EXTENDS Integers, Sequences

CONSTANTS Size,        \* bytes of the ROM's address space (2^24)
          Starts,      \* values of VarLenAddr
          Codes        \* bound on the codes read from one start

VARIABLE vl

Init == vl = [addr |-> 0, cur |-> 0, offs |-> 0, buffer |-> <<0, 0, 0>>, len |-> 0, auto |-> FALSE,
                base |-> 0, pos |-> 0, started |-> FALSE, codes |-> 0]

\* $225B; the history base and pos say where in the ROM the next code begins.
VarLen_Start ==
  \E a \in Starts :
       vl' = [vl EXCEPT !.addr = a, !.cur = (a + 3) % Size, !.offs = 0,
                        !.buffer = [i \in 1 .. 3 |-> (a + i - 1) % Size],
                        !.base = a, !.pos = 0, !.started = TRUE, !.codes = 0]

VarLen_Advance(v) ==
  LET n     == ((v.len + 15) % 16) + 1
      bytes == (v.offs + n) \div 8
      All   == v.buffer \o [i \in 1 .. 2 |-> (v.cur + i - 1) % Size]
  IN  [v EXCEPT !.offs = (v.offs + n) % 8, !.cur = (@ + bytes) % Size,
                !.buffer = [i \in 1 .. 3 |-> All[i + bytes]],
                !.pos = @ + n, !.codes = @ + 1]

\* $2258 advances with the new length; a read of $230D advances in the automatic mode.
WriteControl == /\ vl.codes < Codes
                /\ \E n \in 0 .. 15, a \in BOOLEAN :
                     vl' = VarLen_Advance([vl EXCEPT !.len = n, !.auto = a])
ReadHigh     == vl.auto /\ vl.codes < Codes /\ vl' = VarLen_Advance(vl)

Next == VarLen_Start \/ WriteControl \/ ReadHigh
Spec == Init /\ [][Next]_vl

----------------------------------------------------------------------------
\* $230C and $230D show the sixteen bits of the ROM after those read so far.
BitsInOrder ==
  vl.started =>
    \A j \in 0 .. 15 :
      LET at == vl.offs + j
          from == vl.pos + j
      IN  /\ vl.buffer[at \div 8 + 1] = (vl.base + from \div 8) % Size
          /\ at % 8 = from % 8
============================================================================
