----------------------------- MODULE MCServices -----------------------------
(* Three addresses, one of them the B bus's; the ports 0 and 2, the latter   *)
(* plugged in and out; four codes, the last of them empty.                   *)
EXTENDS Services
MCAPairs == {<<"open", "open">>, <<"r1", "w1">>, <<"null", "w2">>, <<"r2", "null">>}
MCBPairs == {<<"open", "open">>, <<"b", "c">>}
MCPattern == [d \in PadActive |-> IF d = 0 THEN <<1, 0>> ELSE <<0, 1>>]
MCPatterns == {MCPattern}
\* A state with the strobe up, and one with it down and the first bit read.
MCSave(strobed) ==
  [JoyLS |-> strobed, wrio |-> [p \in 0 .. 1 |-> strobed], pls |-> [p \in 0 .. 1 |-> strobed],
   pads |-> [d \in PadActive |->
     [buttons |-> MCPattern[d], latched |-> IF strobed THEN MCPattern[d] ELSE Tail(MCPattern[d]), pls |-> strobed]]]
MCSaves == {MCSave(TRUE), MCSave(FALSE)}
\* Nothing, JoyLS, WRIO, a multitap, one pad, the buttons of the
\* other, that pad, all.
MCCuts == {-2, -1, 0, 1, 3, 8, 9, 24}
MCTaps == <<"disabled", "port1">>
MCActive == [t \in {"disabled", "port1"} |-> IF t = "disabled" THEN 1 ELSE 2]
MCGood == [c \in {"c1", "c2", "c3"} |-> CASE c = "c1" -> <<12, 2, 2, 2, 13, 4, 13, 13>>
                                          [] c = "c2" -> <<13, 2, 2, 2, 13, 4, 13, 13>>
                                          [] c = "c3" -> <<0, 1, 2, 3, 4, 5, 6, 7>>]
=============================================================================
