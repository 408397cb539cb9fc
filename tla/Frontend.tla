------------------------------ MODULE Frontend ------------------------------
(***************************************************************************)
(* The libretro front end's calls (libretro.cpp) and the core's games and  *)
(* input ports below them (mednafen.cpp). The caller is the libretro       *)
(* front end, which may be given no value for an option, load a file that  *)
(* is refused, unload without a game, and change its cheats at any time.   *)
(* A call that throws ends in the caller, with what was done so far done.  *)
(***************************************************************************)
EXTENDS Integers, Sequences, FiniteSets

CONSTANTS
  Affinities, \* values of the option for the emulation thread
  Own,        \* the caller's own affinity
  Taps,       \* values of the option for multitaps: a sequence, its default first
  Active,     \* the ports each of them makes active
  Codes,      \* the cheat codes the user enters, "" for one that is switched off
  Good,       \* those that are Game Genie codes, with their digits
  Slots       \* how many cheats there are

VARIABLE fe   \* the front end's and the core's variables

Ports == 1 .. 3
NoData == 0
Off == ""

----------------------------------------------------------------------------
(* DecodeGG: eight digits, each from a table, whose bits are the value and *)
(* a scrambled address.                                                    *)

subst_table == <<4, 6, 13, 14, 2, 7, 8, 3, 11, 5, 12, 9, 10, 0, 15, 1>>
bm == <<6, 7, 8, 9, 16, 17, 18, 19, 14, 15, 0, 1, 20, 21, 22, 23, 2, 3, 4, 5, 10, 11, 12, 13>>
BitOf(nibbles, n) == (nibbles[8 - (n \div 4)] \div (2 ^ (n % 4))) % 2
DecodeGG(digits) ==
  LET ev == [i \in 1 .. 8 |-> subst_table[digits[i] + 1]]
  IN [value |-> (ev[1] * 16) + ev[2], addr |-> [i \in 0 .. 23 |-> BitOf(ev, bm[i + 1])]]

\* What retro_run makes of a code; it tries Game Genie's format and no other.
Throws(code) == code \notin DOMAIN Good
Patch(code) == DecodeGG(Good[code])

----------------------------------------------------------------------------
(* The core: mednafen.cpp. A pad's data is known by its port and a number. *)

NoGame == "none"
NoPorts(x) == [p \in Ports |-> x]

PowerOn ==
  [init |-> 0, mgi |-> NoGame, cgi |-> NoGame, active |-> 0,
   data |-> NoPorts(NoData), dev |-> NoPorts(FALSE), port_data |-> NoPorts(NoData),
   given |-> NoPorts(NoData), live |-> {},
   affinity |-> Own, save |-> 0, asked |-> 0,
   cheats |-> <<>>, changed |-> FALSE, patches |-> {}, told |-> FALSE, threw |-> FALSE]

\* Fault: the ports keep their devices when their data goes.
MDFNI_CloseGameOnly(s) ==
  [s EXCEPT !.mgi = NoGame, !.patches = IF s.mgi = NoGame THEN @ ELSE {},
            !.live = {}, !.data = NoPorts(NoData)]

\* MDFNI_CloseGame: the game's own data goes, its read patches with it, and
\* every port's data is freed.
MDFNI_CloseGame(s) ==
  [s EXCEPT !.mgi = NoGame, !.patches = IF s.mgi = NoGame THEN @ ELSE {},
            !.live = {}, !.data = NoPorts(NoData), !.dev = NoPorts(FALSE)]

\* MDFNI_SetInput: data is made when the port's device changes, and the game is
\* given its address then and only then.
NewData(s) == CHOOSE n \in 1 .. Cardinality(Ports) + 1 : n \notin s.live
MDFNI_SetInput(s, p) ==
  IF s.dev[p] THEN [s EXCEPT !.port_data[p] = s.data[p]]
  ELSE LET n == NewData(s) IN
       [s EXCEPT !.live = (@ \ {s.data[p]}) \cup {n}, !.data[p] = n, !.dev[p] = TRUE,
                 !.given[p] = n, !.port_data[p] = n]

\* For the ports one after the other, up to n.
SetInputs(s, n) ==
  LET set[p \in 0 .. n] == IF p = 0 THEN s ELSE MDFNI_SetInput(set[p - 1], p) IN set[n]

----------------------------------------------------------------------------
(* libretro.cpp.                                                           *)

retro_init == fe.init = 0 /\ fe' = [fe EXCEPT !.init = 1]

\* get_option: the caller's value or the first of the option's list.
Chosen(given, values) == IF given = "nothing" THEN values[1] ELSE given

\* INPUT_Init of a game that is loaded forgets the devices' data.
Loading(s, game) == [s EXCEPT !.mgi = game, !.given = NoPorts(NoData)]

\* retro_load_game: the file may be of a kind no module takes, or be refused by
\* the cartridge, which leaves the game set in the core but not here.
retro_load_game(outcome, taps, affinity) ==
  /\ fe.init = 1
  /\ fe.cgi = NoGame
  /\ LET closed == MDFNI_CloseGame([fe EXCEPT !.active = Active[Chosen(taps, Taps)], !.told = FALSE])
     IN fe' = CASE outcome = "unknown" -> closed
                [] outcome = "refused" -> [closed EXCEPT !.mgi = "game"]
                [] OTHER ->
                   LET s == SetInputs([Loading(closed, "game") EXCEPT !.cgi = "game"], closed.active)
                   IN IF affinity = 0 THEN s
                      ELSE [s EXCEPT !.save = s.affinity, !.affinity = affinity, !.asked = affinity]

\* Cleanup.
retro_unload_game ==
  /\ fe.init = 1
  /\ LET s == IF fe.cgi = NoGame THEN fe ELSE [MDFNI_CloseGame(fe) EXCEPT !.cgi = NoGame]
     IN fe' = [s EXCEPT !.port_data = NoPorts(NoData), !.asked = 0,
                        !.affinity = IF s.save = 0 THEN @ ELSE s.save, !.save = 0]

\* retro_cheat_set and retro_cheat_reset.
retro_cheat_set(slot, code) ==
  /\ fe.init = 1
  /\ fe' = [fe EXCEPT !.changed = TRUE, !.told = fe.cgi # NoGame, !.threw = FALSE,
              !.cheats = [i \in 1 .. (IF slot > Len(@) THEN slot ELSE Len(@)) |->
                            IF i = slot THEN code ELSE IF i <= Len(@) THEN @[i] ELSE Off]]
retro_cheat_reset ==
  /\ fe.init = 1
  /\ fe' = [fe EXCEPT !.cheats = <<>>, !.changed = TRUE, !.told = fe.cgi # NoGame, !.threw = FALSE]

\* retro_run: MDFNI_DelCheats, then each cheat until one throws; a patch of an
\* address that has one replaces it.
Installed(patches, p) == {q \in patches : q.addr # p.addr} \cup {p}
Added(r, code) ==
  IF r.threw THEN r
  ELSE IF Throws(code) THEN [r EXCEPT !.threw = TRUE]
  ELSE [r EXCEPT !.patches = Installed(@, Patch(code))]
AddCheats(cheats) ==
  LET added[i \in 0 .. Len(cheats)] ==
        IF i = 0 THEN [patches |-> {}, threw |-> FALSE] ELSE Added(added[i - 1], cheats[i])
  IN added[Len(cheats)]

retro_run ==
  /\ fe.cgi # NoGame
  /\ fe.changed
  /\ LET r == AddCheats(fe.cheats)
     IN fe' = [fe EXCEPT !.patches = r.patches, !.threw = r.threw, !.changed = r.threw, !.told = TRUE]

Init == fe = PowerOn

Next ==
  \/ retro_init
  \/ \E outcome \in {"unknown", "refused", "loaded"}, taps \in DOMAIN Active \cup {"nothing"},
        affinity \in Affinities : retro_load_game(outcome, taps, affinity)
  \/ retro_unload_game
  \/ \E slot \in 1 .. Slots, code \in Codes : retro_cheat_set(slot, code)
  \/ retro_cheat_reset
  \/ retro_run

Spec == Init /\ [][Next]_fe

----------------------------------------------------------------------------
\* While a game runs each active port's data is the core's, the front end's and
\* the game's, all three, and nothing else is allocated, whatever ran before.
PortsLive ==
  /\ fe.cgi # NoGame => \A p \in 1 .. fe.active :
       fe.data[p] \in fe.live /\ fe.port_data[p] = fe.data[p] /\ fe.given[p] = fe.data[p]
  /\ fe.live = {fe.data[p] : p \in Ports} \ {NoData}
  /\ fe.cgi = NoGame => fe.live = {}

\* The caller's thread runs where it was asked to while a game runs, and where it
\* did before when none does.
AffinityRestored ==
  fe.affinity = IF fe.cgi = NoGame \/ fe.asked = 0 THEN Own ELSE fe.asked

\* The bits of a code are those of the address, from a to x, in Game Genie's own
\* order: ijklqrstopabcduvwxefghmn.
Letters == <<15, 14, 13, 12, 7, 6, 5, 4, 9, 8, 23, 22, 21, 20, 3, 2, 1, 0, 19, 18, 17, 16, 11, 10>>
Unscrambled(digits, i) ==
  LET ev == [k \in 1 .. 8 |-> subst_table[digits[k] + 1]]
      place == CHOOSE k \in 1 .. 24 : Letters[k] = i
  IN BitOf(ev, 24 - place)
\* The last code for an address is the one that counts.
LastFor(a, v) ==
  \E i \in DOMAIN fe.cheats : /\ ~Throws(fe.cheats[i])
                              /\ Patch(fe.cheats[i]) = [addr |-> a, value |-> v]
                              /\ \A j \in i + 1 .. Len(fe.cheats) :
                                   Throws(fe.cheats[j]) \/ Patch(fe.cheats[j]).addr # a

\* Once a game has run after a change of its cheats each of them is in force,
\* and nothing else is, unless one is not a Game Genie code: then the call threw,
\* those before it are in force, and every later call throws too.
CheatsInForce ==
  (fe.cgi # NoGame /\ fe.told /\ (fe.threw \/ ~fe.changed)) =>
    /\ fe.threw <=> \E i \in DOMAIN fe.cheats : Throws(fe.cheats[i])
    /\ fe.threw => fe.changed
    /\ ~fe.threw =>
         /\ \A q \in fe.patches : LastFor(q.addr, q.value)
         /\ \A i \in DOMAIN fe.cheats : \E q \in fe.patches : q.addr = Patch(fe.cheats[i]).addr
         /\ \A i \in DOMAIN fe.cheats : \A k \in 0 .. 23 :
              Patch(fe.cheats[i]).addr[k] = Unscrambled(Good[fe.cheats[i]], k)

CallsSound == PortsLive /\ AffinityRestored /\ CheatsInForce
=============================================================================
