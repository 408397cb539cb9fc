-------------------------------- MODULE Dsp --------------------------------
(***************************************************************************)
(* The DSP-1 and DSP-2 (cart/dsp1chip.h, dsp2chip.h, dsp1.cpp, dsp2.cpp):  *)
(* a coroutine that stops wherever it asks for or offers data, in bytes    *)
(* or in words whose two halves pass through one port, and the main CPU,   *)
(* each of whose accesses first runs the coroutine (Run).                  *)
(*                                                                         *)
(* A command is the list of what it asks for and offers.  What it computes *)
(* is left open, but for what it computes it from: its arguments and the   *)
(* parameters an earlier command left.  The host is a program that gives   *)
(* each command its arguments and reads its results; the k-th byte it      *)
(* writes for a command is Byte(k, v), v telling its calls apart.          *)
(***************************************************************************)
EXTENDS Integers, Sequences

CONSTANTS Chips,       \* {"DSP1", "DSP2"}, of which a cartridge has one
          Versions,    \* values of v
          Lens,        \* lengths a DSP-2 command is given
          Limit,       \* the longest replacement (0x50)
          Dump         \* words of the data ROM (0x400)

VARIABLES dsp, host

Zero  == <<<<>>, 0>>
Other == <<<<>>, 1>>        \* a byte of what no result is: 0x8000, which Saturate never gives

\* A command: the parameters it uses and sets, how many pieces it asks for and
\* then offers, and the bytes of a piece.
Script(w, c, uses, sets, asks, offers) ==
  [cmd |-> c, uses |-> uses, sets |-> sets, w |-> w, asks |-> asks, offers |-> offers]
Words(c, uses, sets, asks, offers) == Script(2, c, uses, sets, asks, offers)
Bytes(c, uses, sets, asks, offers) == Script(1, c, uses, sets, asks, offers)

\* DSP-1.  Every argument and result is a word.
Multiplication == {Words(<<"mul">>, "none", "none", 2, 1)}
InverseOf      == {Words(<<"inverse">>, "none", "none", 2, 2)}
Triangle       == {Words(<<"triangle">>, "none", "none", 2, 2)}
Gyrate         == {Words(<<"gyrate">>, "none", "none", 6, 3)}
Rotate         == {Words(<<"rotate2">>, "none", "none", 3, 2)}
Polar          == {Words(<<"rotate3">>, "none", "none", 6, 3)}
Matrices       == {"matrix0", "matrix1", "matrix2"}      \* (Command >> 4) % 3
Attitude       == {Words(<<"attitude", k>>, "none", k, 4, 0) : k \in Matrices}
Objective      == {Words(<<"objective", k>>, k, "none", 3, 3) : k \in Matrices}
Subjective     == {Words(<<"subjective", k>>, k, "none", 3, 3) : k \in Matrices}
Scalar         == {Words(<<"scalar", k>>, k, "none", 3, 1) : k \in Matrices}
Parameter      == {Words(<<"parameter">>, "none", "projection", 7, 4)}
Project        == {Words(<<"project">>, "projection", "none", 3, 3)}
Target         == {Words(<<"target">>, "projection", "none", 2, 2)}
Raster         == {Words(<<"raster">>, "projection", "none", 1, 4)}
Vectors        == {Words(<<"size">>, "none", "none", 3, 2), Words(<<"compare">>, "none", "none", 4, 1),
                   Words(<<"length">>, "none", "none", 3, 1)}
Tests          == {Words(<<"ramtest">>, "none", "none", 1, 1), Words(<<"version">>, "none", "none", 1, 1),
                   Words(<<"dump">>, "none", "none", 1, Dump)}
Unknown        == {Words(<<"unknown">>, "none", "none", 0, 0)}
DSP1 == UNION {Unknown, Multiplication, InverseOf, Triangle, Gyrate, Rotate, Polar, Attitude, Objective,
               Subjective, Scalar, Parameter, Project, Target, Raster, Vectors, Tests}

\* DSP-2.  Everything is bytes; lengths come first.
Shorter(a, b) == IF a < b THEN a ELSE b
Convert     == {Bytes(<<"tile">>, "none", "none", 32, 32)}
Transparent == {Bytes(<<"transparent">>, "none", "color", 1, 0)}
Replace     == {LET n == Shorter(len, Limit) IN Bytes(<<"replace", len>>, "color", "none", 1 + 2 * n, n) :
                  len \in Lens \cup {0}}
Backwards   == {Bytes(<<"reverse", len>>, "none", "none", 1 + len, len) : len \in Lens}
Multiply    == {Bytes(<<"multiply">>, "none", "none", 4, 4)}
Scale       == {Bytes(<<"scale", i, o>>, "none", "none", 2 + (i + 1) \div 2, (o + 1) \div 2) :
                  i \in Lens, o \in Lens}
Sync        == {Bytes(<<"sync">>, "none", "none", 0, 0)}
DSP2 == UNION {Unknown, Convert, Transparent, Replace, Backwards, Multiply, Scale, Sync}

Calls(chip) == IF chip = "DSP1" THEN DSP1 ELSE DSP2
Params == Matrices \cup {"projection", "color", "none"}

\* A result is what it was computed from: the call's number, its arguments and
\* the parameters it uses.  Its two bytes are the halves 0 and 1.
Result(s, k) == <<s.call.cmd, k, s.args, s.params[s.call.uses]>>
Half(r, h)   == <<r, h>>
Byte(k, v)   == <<<<k, v>>, 0>>

----------------------------------------------------------------------------
\* Offering or asking sets RQM and the size of what goes through the port.
Wait(s) ==
  LET r == Result(s, s.at - s.call.asks)
      t == [s EXCEPT !.rqm = TRUE, !.eight = s.call.w = 1]
  IN  IF s.at <= s.call.asks THEN t
      ELSE [t EXCEPT !.data = <<Half(r, 0), IF s.call.w = 1 THEN @[2] ELSE Half(r, 1)>>]

Idle == Bytes(<<"idle">>, "none", "none", 0, 0)
AwaitCommand(s) == [s EXCEPT !.call = Idle, !.at = 0, !.args = <<>>, !.rqm = TRUE, !.eight = TRUE]

\* The mode 7 matrices are offered line by line, until the host writes a word
\* in place of reading a line's last.
Again(s) == /\ s.call.cmd = <<"raster">>
            /\ s.data = <<Half(Result(s, 4), 0), Half(Result(s, 4), 1)>>

\* An argument taken; once a command has all of them, what it sets is set.
Took(s) ==
  IF s.at > s.call.asks THEN s
  ELSE LET args == Append(s.args, IF s.eight THEN <<s.data[1]>> ELSE s.data)
       IN  [s EXCEPT !.args = args,
                     !.params = IF s.call.sets # "none" /\ s.at = s.call.asks
                                THEN [@ EXCEPT ![s.call.sets] = args] ELSE @]
Finished(s) == AwaitCommand([s EXCEPT !.data = <<Zero, Zero>>])

\* Run: the coroutine goes on once the port has been served, to its next wait.
Run(s) ==
  LET t    == IF s.at = 0 THEN s ELSE Took(s)
      last == s.call.asks + s.call.offers
  IN  CASE s.rqm -> s
        [] ~s.rqm /\ s.at < last -> Wait([t EXCEPT !.at = @ + 1])
        [] ~s.rqm /\ s.at = last /\ Again(s) -> Wait([t EXCEPT !.at = s.call.asks + 1])
        [] OTHER -> Finished(t)

\* Fault: a word is passed with its first byte.
PassedEarly(s) == [s EXCEPT !.half = ~s.eight /\ ~@, !.rqm = FALSE]

\* An access passes one byte; a word is passed once both its halves were.
Passed(s) == LET half == IF s.eight THEN s.half ELSE ~s.half
             IN  [s EXCEPT !.half = half, !.rqm = @ /\ half]
WriteData(s, b) == Passed([s EXCEPT !.data[IF s.half THEN 2 ELSE 1] = b])
ReadData(s)     == s.data[IF s.half THEN 2 ELSE 1]

----------------------------------------------------------------------------
PowerOn == AwaitCommand([rqm |-> FALSE, eight |-> FALSE, half |-> FALSE, data |-> <<Zero, Zero>>,
                         call |-> Idle, at |-> 0, args |-> <<>>,
                         params |-> [p \in Params |-> <<>>]])
AtRest(chip) == [chip |-> chip, call |-> Idle, written |-> 0, read |-> 0, got |-> <<>>, v |-> 0,
                 sent |-> [p \in Params |-> <<>>]]

AllWritten  == host.call # Idle /\ host.written = host.call.asks * host.call.w

Init == dsp = PowerOn /\ \E chip \in Chips : host = AtRest(chip)

Command ==
  /\ host.call = Idle
  /\ \E c \in Calls(host.chip), v \in Versions :
       /\ dsp' = [Passed(Run(dsp)) EXCEPT !.call = c, !.at = 0]
       /\ host' = [host EXCEPT !.call = c, !.v = v, !.written = 0, !.read = 0, !.got = <<>>]

WriteArgument ==
  /\ host.call # Idle /\ host.written < host.call.asks * host.call.w
  /\ dsp' = WriteData(Run(dsp), Byte(host.written + 1, host.v))
  /\ host' = [host EXCEPT !.written = @ + 1]

ReadResult ==
  /\ AllWritten /\ host.read < host.call.offers * host.call.w
  /\ LET s == Run(dsp)
     IN  /\ dsp' = Passed(s)
         /\ host' = [host EXCEPT !.read = @ + 1, !.got = <<ReadData(s)>>]

\* What the host sent for a call, in the pieces the call asks for.
Sent(c, v) == [i \in 1 .. c.asks |-> [h \in 1 .. c.w |-> Byte((i - 1) * c.w + h, v)]]

\* The host is done with a call; it ends the mode 7 lines with a word of its own
\* where the last word of a line would be read.
Done == /\ AllWritten /\ host.read = host.call.offers * host.call.w
        /\ host' = IF host.call.cmd = <<"raster">> THEN [host EXCEPT !.read = 0]
                   ELSE [AtRest(host.chip) EXCEPT !.sent = IF host.call.sets = "none" THEN host.sent
                           ELSE [host.sent EXCEPT ![host.call.sets] = Sent(host.call, host.v)]]
        /\ UNCHANGED dsp
StopLines == /\ AllWritten /\ host.call.cmd = <<"raster">> /\ host.read = host.call.offers * host.call.w - 2
             /\ dsp' = WriteData(Run(WriteData(Run(dsp), Other)), Other)
             /\ host' = [AtRest(host.chip) EXCEPT !.sent = host.sent]

ReadStatus == dsp' = Run(dsp) /\ UNCHANGED host
Reset == dsp' = PowerOn /\ host' = AtRest(host.chip)

Next == Command \/ WriteArgument \/ ReadResult \/ Done \/ StopLines \/ ReadStatus \/ Reset
Spec == Init /\ [][Next]_<<dsp, host>>

----------------------------------------------------------------------------
\* Every byte read is the byte of the result due, computed from the arguments of
\* this call and the parameters last set: no access is taken for another.
ResultsDue ==
  host.read > 0 =>
    LET c == host.call
        k == (host.read - 1) \div c.w + 1
    IN  host.got = <<Half(<<c.cmd, k, Sent(c, host.v), host.sent[c.uses]>>, (host.read - 1) % c.w)>>

\* Between two calls the chip waits for a command, at a byte's first half.
InStep == host.call = Idle => LET s == Run(dsp) IN s.call = Idle /\ s.rqm /\ s.eight /\ ~s.half

DspServes == ResultsDue /\ InStep
============================================================================
