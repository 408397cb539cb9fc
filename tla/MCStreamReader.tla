--------------------------- MODULE MCStreamReader ---------------------------
(* Three streams: one shorter than a chunk with a loop, one without a loop, *)
(* one whose loop is longer than a chunk and not a divisor of the ring.     *)
EXTENDS StreamReader
MCStreams == << [size |-> 3, loop_pos |-> 1],
                [size |-> 5, loop_pos |-> 5],
                [size |-> 7, loop_pos |-> 2] >>
============================================================================
