------------------------------- MODULE MCDma -------------------------------
(* Two channels: the first table has an entry for several lines, a repeated *)
(* one and a single line, the second the entry with repeat bit and no       *)
(* count.                                                                   *)
EXTENDS Dma
MCEntries == [c \in 0 .. 1 |-> IF c = 0 THEN <<2, Top + 2, 1>> ELSE <<Top, 1>>]
MCWidth == [c \in 0 .. 1 |-> IF c = 0 THEN 2 ELSE 1]
============================================================================
