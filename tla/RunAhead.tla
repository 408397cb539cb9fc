------------------------------ MODULE RunAhead ------------------------------
(***************************************************************************)
(* One frame for the front end (Emulate of snes.cpp). With run-ahead the   *)
(* frame is emulated without a picture, the machine is saved, the next     *)
(* frame is emulated on the same input for its picture, and the machine is *)
(* put back. The sound of both frames lies in one buffer, from which what  *)
(* was not heard yet is given out. A machine is known by the inputs it was *)
(* given and by where its sound stands.                                    *)
(***************************************************************************)
EXTENDS Integers, Sequences

CONSTANTS
  Inputs,     \* what the pads may show
  Sizes,      \* how much sound a frame may make
  MaxFrames   \* a bound: the frames of a game

VARIABLE ra   \* the machine, the buffers, and what was shown and heard

NoSS == [hist |-> <<>>, pos |-> 0, none |-> TRUE]
Machine(hist, pos) == [hist |-> hist, pos |-> pos, none |-> FALSE]

\* LoadReal reads the settings; the first frame's sound format is a new one.
LoadReal(spex, sound) ==
  [spex |-> spex, sound |-> sound, m |-> Machine(<<>>, 0), ss |-> NoSS, state |-> NoSS,
   expected |-> -1, changed |-> TRUE, ran |-> FALSE, fresh |-> TRUE, next |-> 0,
   shown |-> <<>>, out |-> <<>>, before |-> Machine(<<>>, 0), in |-> 0]

\* EmulateReal: the machine after a frame, and the buffer with its sound at base.
After(m, in, size) == Machine(Append(m.hist, in), m.pos + size)
Put(buf, base, values) ==
  [i \in 1 .. (IF base + Len(values) > Len(buf) THEN base + Len(values) ELSE Len(buf)) |->
     IF i > base /\ i <= base + Len(values) THEN values[i - base] ELSE buf[i]]
Sound(m, size) == [i \in 1 .. size |-> m.pos + i - 1]
Moved(buf, to, from, n) == Put(buf, to, SubSeq(buf, from + 1, from + n))

\* What the sound of both frames gives: expected is how long the second one was
\* at the last call, for which the first one stands now. If that was longer some
\* of this second frame was heard already, and is left out; if shorter, the end
\* of this first frame was not, and is put before.
Both(m, s1, s2) ==
  LET first == Put(<<>>, 0, Sound(m, s1))
      delta == IF ra.expected >= 0 /\ ~ra.changed THEN ra.expected - s1 ELSE 0
      sbo == IF delta < 0 THEN -delta ELSE 0
      buf == Put(Moved(first, 0, s1 - sbo, sbo), sbo, Sound(After(m, 0, s1), s2))
      size == s2 + sbo
  IN IF delta > 0 /\ size >= delta THEN SubSeq(Moved(buf, 0, delta, size - delta), 1, size - delta)
     ELSE SubSeq(buf, 1, size)

\* The second frame's sound goes behind the first's, and is not given out.
First(m, s1, s2) ==
  SubSeq(Put(Put(<<>>, 0, Sound(m, s1)), s1, Sound(After(m, 0, s1), s2)), 1, s1)

Plain(in, s1) ==
  [ra EXCEPT !.m = After(@, in, s1), !.shown = Append(ra.m.hist, in), !.out = Sound(ra.m, s1)]

\* The state is written after the first frame and read back after the second.
Speculated(in, s1, s2) ==
  LET one == After(ra.m, in, s1)
      two == After(one, in, s2)
  IN [ra EXCEPT !.m = one, !.ss = one, !.shown = two.hist,
                !.out = IF ra.sound THEN Both(ra.m, s1, s2) ELSE First(ra.m, s1, s2),
                !.expected = IF ra.sound THEN s2 ELSE IF ra.changed THEN -1 ELSE @]

Heard(r) == IF r.out = <<>> THEN r.next ELSE r.out[Len(r.out)] + 1

Emulate(in, s1, s2) ==
  /\ Len(ra.m.hist) < MaxFrames
  /\ LET r == IF ra.spex THEN Speculated(in, s1, s2) ELSE Plain(in, s1)
     IN ra' = [r EXCEPT !.changed = FALSE, !.ran = TRUE, !.before = ra.m, !.in = in, !.fresh = FALSE,
                        !.next = IF ra.fresh THEN -1 ELSE Heard(ra)]

\* retro_serialize and retro_unserialize; MDFN_MSC_RESET.
Serialize == ra' = [ra EXCEPT !.state = ra.m, !.ran = FALSE]
Unserialize ==
  /\ ~ra.state.none
  /\ ra' = [ra EXCEPT !.m = ra.state, !.ran = FALSE, !.fresh = TRUE]
Reset == /\ Len(ra.m.hist) < MaxFrames
         /\ ra' = [ra EXCEPT !.m = Machine(Append(@.hist, -1), @.pos), !.ran = FALSE]

Init == \E spex, sound \in BOOLEAN : (sound => spex) /\ ra = LoadReal(spex, sound)

Next == \/ \E in \in Inputs, s1, s2 \in Sizes : Emulate(in, s1, s2)
        \/ Serialize \/ Unserialize \/ Reset

Spec == Init /\ [][Next]_ra

----------------------------------------------------------------------------
\* Run-ahead does not show in the machine: a call leaves it one frame on, the
\* picture is one more frame on, and of the sound no sample is heard twice or
\* left out, however long the frames turn out to be.
Invisible ==
  ra.ran =>
    /\ ra.m.hist = Append(ra.before.hist, ra.in)
    /\ ra.shown = IF ra.spex THEN Append(ra.m.hist, ra.in) ELSE ra.m.hist
    /\ \A i \in 1 .. Len(ra.out) - 1 : ra.out[i + 1] = ra.out[i] + 1
    /\ (ra.next >= 0 /\ ra.out # <<>>) => ra.out[1] = ra.next
=============================================================================
