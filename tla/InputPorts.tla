----------------------------- MODULE InputPorts -----------------------------
(***************************************************************************)
(* The controller ports (input.cpp). A game reads a gamepad bit by bit     *)
(* from $4016 and $4017 after strobing it, or lets the console do so       *)
(* (INPUT_AutoRead). A multitap puts four pads on a port, two at a time,   *)
(* chosen by a bit of WRIO. The pads are virtual ports 0 to 7; which of    *)
(* them a port or a multitap's socket is depends on both multitaps. torn   *)
(* and heard, at and n are of the model: they remember what was promised.  *)
(***************************************************************************)
EXTENDS Integers, Sequences

CONSTANTS
  Width,     \* the bits of a pad
  Active,    \* the virtual ports that may have a gamepad
  Hot,       \* those of them the front end may change while a game runs
  Patterns,  \* the buttons the front end may give: functions of the port
  Saves,     \* what save states may hold of the ports
  Cuts,      \* where a load may end: of -2 .. 24
  Reads      \* a bound: the reads that follow a strobe

VARIABLE in  \* the pads, the ports, and what the game was told

Sports == 0 .. 1
Sockets == 0 .. 3
Lines == 0 .. 1
Ones == [i \in 1 .. Width |-> 1]

----------------------------------------------------------------------------
(* A pad: buttons, the shift register (all ones follow) and the strobe.    *)

NewPad == [buttons |-> [i \in 1 .. Width |-> 0], latched |-> <<>>, pls |-> FALSE]
Power(pad) == [pad EXCEPT !.latched = <<>>]
UpdatePhysicalState(pad, buttons) ==
  [pad EXCEPT !.buttons = buttons, !.latched = IF pad.pls THEN buttons ELSE @]
SetLatch(pad, state) ==
  [pad EXCEPT !.latched = IF pad.pls /\ ~state THEN pad.buttons ELSE @, !.pls = state]
Bit(pad) == IF pad.latched = <<>> THEN 1 ELSE Head(pad.latched)
Shifted(pad) ==
  [pad EXCEPT !.latched = IF pad.pls \/ pad.latched = <<>> THEN @ ELSE Tail(@)]

----------------------------------------------------------------------------
(* MapDevices: the virtual ports in order, four to a multitap.             *)

FirstOf(s, taps) == IF s = 0 THEN 0 ELSE IF taps[0] THEN 4 ELSE 1
Mapped(s, taps) == IF taps[s] THEN {FirstOf(s, taps) + k : k \in Sockets} ELSE {FirstOf(s, taps)}

\* The virtual port that line of a port shows while its WRIO bit is iob.
Wired(s, line, iob, taps) ==
  IF taps[s] THEN FirstOf(s, taps) + (IF iob THEN 0 ELSE 2) + line ELSE FirstOf(s, taps)

\* Read of a port: what its lines give, and the pads that are shifted. A
\* multitap that is strobed shows its own mark on line 1. A port without one
\* has nothing on line 1.
Live(s) == IF in.taps[s] THEN Lines ELSE {0}
Shown(s, line, pads, strobed) ==
  LET d == Wired(s, line, in.wrio[s], in.taps) IN
  IF in.taps[s] /\ strobed THEN line
  ELSE IF line \notin Live(s) \/ d \notin in.on THEN 0 ELSE Bit(pads[d])
Shift(s, pads) ==
  [d \in Active |-> IF d \in in.on /\ \E line \in Live(s) : Wired(s, line, in.wrio[s], in.taps) = d
                    THEN Shifted(pads[d]) ELSE pads[d]]

\* The gamepads that the two ports reach; SetLatch and Power of both ports.
Reached(s) == Mapped(s, in.taps) \cap in.on
Pads == Reached(0) \cup Reached(1)
Strobed(pads, state) ==
  [d \in Active |-> IF d \in Pads THEN SetLatch(pads[d], state) ELSE pads[d]]
Powered(pads) == [d \in Active |-> IF d \in Pads THEN Power(pads[d]) ELSE pads[d]]

\* What is remembered of the game's side: the buttons at the last strobe, and
\* the bits it was given since.
Nothing == [s \in Sports |-> [iob \in BOOLEAN |-> [line \in Lines |-> <<>>]]]
Forget(d) ==
  [s \in Sports |-> [iob \in BOOLEAN |-> [line \in Lines |->
     IF Wired(s, line, iob, in.taps) = d THEN <<>> ELSE in.heard[s][iob][line]]]]

----------------------------------------------------------------------------
\* INPUT_Init, INPUT_SetMultitap, INPUT_Set and INPUT_Reset as LoadReal does
\* them; the multitaps stay as they are until the next game.
Loaded(taps) ==
  [pads |-> [d \in Active |-> NewPad], on |-> Active, taps |-> taps,
   pls |-> [s \in Sports |-> FALSE], wrio |-> [s \in Sports |-> TRUE], JoyLS |-> FALSE,
   at |-> [d \in Active |-> Ones], heard |-> Nothing, n |-> 0, torn |-> FALSE]

Init == \E taps \in [Sports -> BOOLEAN] : in = Loaded(taps)

\* INPUT_Set: a pad that is plugged in shows ones until it is strobed.
INPUT_Set(d, gamepad) ==
  /\ gamepad # (d \in in.on)
  /\ in' = [in EXCEPT !.on = IF gamepad THEN @ \cup {d} ELSE @ \ {d},
                      !.pads[d] = IF gamepad THEN Power(SetLatch(@, in.JoyLS)) ELSE @,
                      !.at[d] = Ones, !.heard = Forget(d)]

\* INPUT_UpdatePhysicalState, for every pad, whether mapped or not.
Update(buttons) ==
  in' = [in EXCEPT !.pads = [d \in Active |-> IF d \in in.on THEN UpdatePhysicalState(@[d], buttons[d])
                                              ELSE @[d]]]

\* The fall of the strobe is what loads the pads.
Falls(state) == in.JoyLS /\ ~state
AtStrobe == [d \in Active |-> IF d \in Pads THEN in.pads[d].buttons ELSE in.at[d]]

Write_4016(state) ==
  in' = [in EXCEPT !.pads = Strobed(@, state), !.JoyLS = state,
                   !.pls = [s \in Sports |-> in.taps[s] /\ state],
                   !.at = IF Falls(state) THEN AtStrobe ELSE @,
                   !.heard = IF Falls(state) THEN Nothing ELSE @,
                   !.n = IF Falls(state) THEN 0 ELSE @, !.torn = @ /\ ~state]

\* The bit of a port without a multitap is looked at by nobody, and stays.
Write_WRIO(bits) ==
  /\ \A s \in Sports : ~in.taps[s] => bits[s]
  /\ in' = [in EXCEPT !.wrio = bits]

\* Read_4016 and Read_4017.
Pair(s) == in.taps[s] => in.wrio[s]
Heard(heard, s) ==
  [heard EXCEPT ![s][Pair(s)] =
     [line \in Lines |-> Append(@[line], Shown(s, line, in.pads, in.pls[s]))]]
ReadPort(s) ==
  /\ in.n < Reads
  /\ in' = [in EXCEPT !.pads = Shift(s, in.pads), !.n = @ + 1,
                      !.heard = IF in.JoyLS \/ in.torn THEN @ ELSE Heard(@, s)]

\* INPUT_AutoRead strobes one port and reads all its bits, then the other; what
\* JoyARData gets is what the game hears.
ReadOnce(s, r) ==
  [pads |-> Shift(s, r.pads), words |-> [line \in Lines |-> Append(r.words[line], Shown(s, line, r.pads, FALSE))]]
ReadAll(s, pads) ==
  LET read[n \in 0 .. Width] ==
        IF n = 0 THEN [pads |-> pads, words |-> [line \in Lines |-> <<>>]] ELSE ReadOnce(s, read[n - 1])
  IN read[Width]
StrobePort(s, pads, state) ==
  [d \in Active |-> IF d \in Reached(s) THEN SetLatch(pads[d], state) ELSE pads[d]]
AutoPort(s, pads) == ReadAll(s, StrobePort(s, StrobePort(s, pads, TRUE), FALSE))
INPUT_AutoRead ==
  LET first == AutoPort(0, in.pads)
      second == AutoPort(1, first.pads)
      words == [s \in Sports |-> IF s = 0 THEN first.words ELSE second.words]
  IN in' = [in EXCEPT !.pads = second.pads, !.JoyLS = FALSE,
              !.n = Width, !.pls = [s \in Sports |-> FALSE], !.at = AtStrobe, !.torn = FALSE,
              !.heard = [s \in Sports |-> [iob \in BOOLEAN |-> IF iob = Pair(s) THEN words[s]
                                                              ELSE [line \in Lines |-> <<>>]]]]

\* INPUT_Reset; a soft one leaves WRIO and the pads' registers.
INPUT_Reset(powering_up) ==
  LET pads == Strobed(in.pads, FALSE)
  IN in' = [in EXCEPT !.JoyLS = FALSE, !.pls = [s \in Sports |-> FALSE],
              !.wrio = IF powering_up THEN [s \in Sports |-> TRUE] ELSE @,
              !.pads = IF powering_up THEN Powered(pads) ELSE pads,
              !.at = IF powering_up THEN [d \in Active |-> IF d \in Pads THEN Ones ELSE @[d]]
                     ELSE IF in.JoyLS THEN AtStrobe ELSE @,
              !.heard = IF powering_up \/ in.JoyLS THEN Nothing ELSE @,
              !.n = IF powering_up \/ in.JoyLS THEN 0 ELSE @,
              !.torn = @ /\ ~powering_up]

\* INPUT_StateAction of a state in the fast form, in the order of its sections:
\* JoyLS and WRIO, then for each port its multitap's strobe and its pads. They are
\* numbered: JoyLS is -2, WRIO -1, the multitap whose first pad is d has 3 * d, and
\* pad d's buttons and its registers the next two. From cut on nothing can be read,
\* because the state ends there or has another section: the pads that get nothing
\* are powered, and what was read before stays.
Left(pad) == [i \in 1 .. Width |-> IF i <= Len(pad.latched) THEN pad.latched[i] ELSE 1]
Restored(d, file, cut) ==
  IF cut > 3 * d + 2 THEN file.pads[d]
  ELSE Power([in.pads[d] EXCEPT !.buttons = IF cut > 3 * d + 1 THEN file.pads[d].buttons ELSE @])

\* The strobe is the same wherever the ports keep it.
Agree(pads, pls, JoyLS) ==
  /\ \A d \in Pads : pads[d].pls = JoyLS
  /\ \A s \in Sports : pls[s] = (in.taps[s] /\ JoyLS)

INPUT_StateAction(file, cut) ==
  LET JoyLS == IF cut > -2 THEN file.JoyLS ELSE in.JoyLS
      pads == [d \in Active |-> IF d \in Pads THEN Restored(d, file, cut) ELSE in.pads[d]]
      pls == [s \in Sports |-> IF in.taps[s] /\ cut > 3 * FirstOf(s, in.taps) THEN file.pls[s] ELSE in.pls[s]]
  IN in' = [in EXCEPT !.JoyLS = JoyLS, !.pads = pads, !.pls = pls,
              !.wrio = [s \in Sports |-> IF in.taps[s] /\ cut > -1 THEN file.wrio[s] ELSE @[s]],
              !.at = [d \in Active |-> IF d \in Pads THEN Left(pads[d]) ELSE @[d]],
              !.heard = Nothing, !.n = 0,
              !.torn = IF cut > -2 THEN ~Agree(pads, pls, JoyLS) ELSE @]

Next ==
  \/ \E d \in Hot, gamepad \in BOOLEAN : INPUT_Set(d, gamepad)
  \/ \E buttons \in Patterns : Update(buttons)
  \/ \E state \in BOOLEAN : Write_4016(state) \/ INPUT_Reset(state)
  \/ \E one, two \in BOOLEAN : Write_WRIO([s \in Sports |-> IF s = 0 THEN one ELSE two])
  \/ \E s \in Sports : ReadPort(s)
  \/ INPUT_AutoRead
  \/ \E file \in Saves, cut \in Cuts : INPUT_StateAction(file, cut)

Spec == Init /\ [][Next]_in

----------------------------------------------------------------------------
\* What the game hears of a line is the pad wired to it: its buttons as they were
\* when it was last strobed, or what a save state had left of them, first bit first,
\* then ones, however it alternates between the pairs of a multitap and the ports,
\* and whatever is plugged in between; JoyARData gets the same from the console's
\* own reading. The ports and their pads agree on the strobe. A load that was cut
\* may leave them torn: some have the state's strobe and some their own. Nothing is
\* promised of the pads then until all are strobed: by the game, by the console's
\* reading, or as the console is switched on.
Told(d, heard) ==
  \A i \in DOMAIN heard : heard[i] = IF d \notin in.on THEN 0
                                     ELSE IF i > Width THEN 1 ELSE in.at[d][i]
InputSound ==
  /\ \A s \in Sports : \A iob \in IF in.taps[s] THEN BOOLEAN ELSE {TRUE} : \A line \in Live(s) :
       Told(Wired(s, line, iob, in.taps), in.heard[s][iob][line])
  /\ ~in.torn => Agree(in.pads, in.pls, in.JoyLS)
=============================================================================
