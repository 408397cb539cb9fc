-------------------------------- MODULE Bus --------------------------------
(***************************************************************************)
(* The CPU's bus (snes.cpp). Each address has the index of a pair of       *)
(* handlers; the DMA controller, which drives both buses at once, has      *)
(* handlers of its own for the addresses of the B bus. A cheat's read      *)
(* patch puts a hook in the place of an address's index. Also the work RAM *)
(* port, whose address moves, and the multiplier and divider.              *)
(***************************************************************************)
EXTENDS Integers, Sequences, FiniteSets

CONSTANTS
  A,          \* the addresses of the A bus met here: 0 .. n
  B,          \* those that are the B bus's
  APairs,     \* pairs of handlers, <<read, write>>, of the A bus; null is "as it is"
  BPairs,     \* and of the B bus: they share but the open bus, as in this program
  Sets,       \* a bound: how often handlers are set
  Values,     \* what cheats compare with and give
  RamSize,    \* the size of the work RAM
  Calls,      \* a bound: accesses of the port and the arithmetic registers
  Base        \* what a byte can hold, plus one

VARIABLE bus  \* the tables, the patches, and the chips behind

Hook == 255
Open == <<"open", "open">>

----------------------------------------------------------------------------
(* Handlers. The tables are filled from the beginning; pairs are shared.   *)

Null == "null"
PairOf(rw, pairs, a, h) ==
  <<IF h[1] = Null THEN pairs[rw[a]][1] ELSE h[1], IF h[2] = Null THEN pairs[rw[a]][2] ELSE h[2]>>
IndexOf(pairs, p) ==
  IF \E i \in DOMAIN pairs : pairs[i] = p
  THEN CHOOSE i \in DOMAIN pairs : pairs[i] = p /\ \A j \in 1 .. i - 1 : pairs[j] # p
  ELSE Len(pairs) + 1
PutAt(seq, i, x) == IF i > Len(seq) THEN Append(seq, x) ELSE [seq EXCEPT ![i] = x]

\* SetHandlers of addresses from a1 to a2 of one of the buses; b says which.
\* Either handler of a single A bus address may be left as it is.
SetHandlers(s, b, a1, a2, h) ==
  LET p == IF a1 = a2 /\ ~b THEN PairOf(s.rw, s.pairs, a1, h) ELSE h
      i == IndexOf(s.pairs, p)
  IN [s EXCEPT !.pairs = PutAt(@, i, p), !.forA = PutAt(@, i, IF b THEN Open ELSE p),
               !.rw = [a \in A |-> IF a \in a1 .. a2 THEN i ELSE @[a]],
               !.want = [a \in A |-> IF a \in a1 .. a2
                                     THEN <<IF h[1] = Null THEN @[a][1] ELSE h[1],
                                            IF h[2] = Null THEN @[a][2] ELSE h[2]>> ELSE @[a]]]

\* All the B bus, or addresses of the A bus, as LoadReal and the chips do.
Set_A_Handlers(a1, a2, h) ==
  /\ bus.sets < Sets
  /\ bus.patches = {}
  /\ a1 \notin B /\ a2 \notin B /\ a1 <= a2
  /\ \A a \in a1 .. a2 : a \notin B
  /\ (h[1] = Null \/ h[2] = Null) => a1 = a2
  /\ bus' = [SetHandlers(bus, FALSE, a1, a2, h) EXCEPT !.sets = @ + 1]
Set_B_Handlers(b, h) ==
  /\ bus.sets < Sets
  /\ bus.patches = {}
  /\ bus' = [SetHandlers(bus, TRUE, b, b, h) EXCEPT !.sets = @ + 1]

----------------------------------------------------------------------------
(* Read patches: addresses in order, each once.                            *)

\* Fault: the hook itself is taken for what was there before.
InstallTwice(s, a, value, compare) ==
  [s EXCEPT !.rw[a] = Hook,
     !.patches = {p \in @ : p.address # a} \cup
       {[address |-> a, value |-> value, compare |-> compare, prev |-> s.rw[a]]}]

\* CheatInstallReadPatch; compare is -1 if any value is replaced.
Install(s, a, value, compare) ==
  LET old == {p \in s.patches : p.address = a}
  IN [s EXCEPT !.rw[a] = Hook,
        !.patches = (@ \ old) \cup
          {[address |-> a, value |-> value, compare |-> compare,
            prev |-> IF old = {} THEN s.rw[a] ELSE (CHOOSE p \in old : TRUE).prev]}]
CheatInstallReadPatch(a, value, compare) ==
  bus' = [Install(bus, a, value, compare) EXCEPT !.cheats[a] = <<value, compare>>]

\* CheatRemoveReadPatches.
Removed(s) ==
  [s EXCEPT !.patches = {},
     !.rw = [a \in A |-> IF \E p \in s.patches : p.address = a
                         THEN (CHOOSE p \in s.patches : p.address = a).prev ELSE @[a]]]
None == <<-1, -1>>
CheatRemoveReadPatches ==
  /\ bus.patches # {}
  /\ bus' = [Removed(bus) EXCEPT !.cheats = [a \in A |-> None]]

FindRPie(s, a) == CHOOSE p \in s.patches : p.address = a

\* What an access reaches: a pair of handlers, and for a read what is seen if
\* the handler gives v.
Table(s, forceA) == IF forceA THEN s.forA ELSE s.pairs
Reaches(s, a, forceA) ==
  LET i == IF s.rw[a] = Hook THEN FindRPie(s, a).prev ELSE s.rw[a]
  IN  IF i = Hook THEN <<"cheat", "cheat">> ELSE Table(s, forceA)[i]
Seen(s, a, v) ==
  IF s.rw[a] # Hook THEN v
  ELSE LET p == FindRPie(s, a) IN IF p.compare < 0 \/ v = p.compare THEN p.value ELSE v

----------------------------------------------------------------------------
(* The work RAM's port and the arithmetic registers.                       *)

PowerOn ==
  [pairs |-> <<Open>>, forA |-> <<Open>>, rw |-> [a \in A |-> 1], want |-> [a \in A |-> Open],
   patches |-> {}, cheats |-> [a \in A |-> None], sets |-> 0,
   wram |-> [i \in 0 .. RamSize - 1 |-> 0], at |-> 0, calls |-> 0,
   multiplicand |-> Base - 1, product |-> (Base * Base) - 1,
   dividend |-> (Base * Base) - 1, quotient |-> (Base * Base) - 1, last |-> <<"none", 0>>]

\* ICRegsReset of a running machine leaves the arithmetic.
Runs == bus.calls < Calls /\ bus.sets = 0 /\ bus.patches = {}
Did(s) == [s EXCEPT !.calls = @ + 1]
ICRegsReset == Runs /\ bus' = Did([bus EXCEPT !.at = 0, !.last = <<"reset", 0>>])

\* Write_2181 to Write_2183: a digit of the address.
WriteAddress(digit, v) ==
  /\ Runs
  /\ LET unit == IF digit = 0 THEN 1 ELSE Base
         old == (bus.at \div unit) % Base
     IN bus' = Did([bus EXCEPT !.at = (@ + ((v - old) * unit)) % RamSize, !.last = <<"address", 0>>])
Write_2180(v) ==
  Runs /\ bus' = Did([bus EXCEPT !.wram[bus.at] = v, !.at = (@ + 1) % RamSize, !.last = <<"write", v>>])
Read_2180 ==
  Runs /\ bus' = Did([bus EXCEPT !.at = (@ + 1) % RamSize, !.last = <<"read", bus.wram[bus.at]>>])

\* ICRegsWrite.
Multiply(v) == Runs /\ bus' = Did([bus EXCEPT !.product = bus.multiplicand * v, !.last = <<"multiply", v>>])
SetMultiplicand(v) == Runs /\ bus' = Did([bus EXCEPT !.multiplicand = v, !.last = <<"set", v>>])
SetDividend(high, v) ==
  Runs /\ bus' = Did([bus EXCEPT !.dividend = IF high THEN (@ % Base) + (v * Base)
                                              ELSE (@ - (@ % Base)) + v, !.last = <<"set", v>>])
Divide(v) ==
  /\ Runs
  /\ bus' = Did([bus EXCEPT !.quotient = IF v = 0 THEN (Base * Base) - 1 ELSE bus.dividend \div v,
                            !.product = IF v = 0 THEN bus.dividend ELSE bus.dividend % v,
                            !.last = <<"divide", v>>])

----------------------------------------------------------------------------
Init == bus = PowerOn

Next ==
  \/ bus.calls = 0 /\ \/ \E a1, a2 \in A, h \in APairs : Set_A_Handlers(a1, a2, h)
                      \/ \E b \in B, h \in BPairs : Set_B_Handlers(b, h)
                      \/ \E a \in A, v \in Values, c \in Values \cup {-1} : CheatInstallReadPatch(a, v, c)
                      \/ CheatRemoveReadPatches
  \/ \E v \in 0 .. Base - 1 :
       \/ Write_2180(v) \/ Multiply(v) \/ SetMultiplicand(v) \/ Divide(v)
       \/ \E digit \in 0 .. 1 : WriteAddress(digit, v)
       \/ \E high \in BOOLEAN : SetDividend(high, v)
  \/ Read_2180 \/ ICRegsReset

Spec == Init /\ [][Next]_bus

----------------------------------------------------------------------------
\* Every access reaches the handlers its address was last given, the DMA
\* controller's of a B bus address the open bus, whatever cheats are installed,
\* replaced and removed; a patched read sees the cheat's value where it says.
BusSound ==
  /\ \A a \in A :
       /\ Reaches(bus, a, FALSE) = bus.want[a]
       /\ Reaches(bus, a, TRUE) = IF a \in B THEN Open ELSE bus.want[a]
       /\ \A v \in Values :
            Seen(bus, a, v) = IF bus.cheats[a] # None /\ bus.cheats[a][2] \in {-1, v}
                              THEN bus.cheats[a][1] ELSE v
  /\ bus.last[1] = "multiply" => bus.product = bus.multiplicand * bus.last[2]
  /\ (bus.last[1] = "divide" /\ bus.last[2] > 0) =>
       (bus.quotient * bus.last[2]) + bus.product = bus.dividend /\ bus.product < bus.last[2]
  /\ bus.last[1] = "write" =>
       bus.wram[(bus.at + RamSize - 1) % RamSize] = bus.last[2]
=============================================================================
