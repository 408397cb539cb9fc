-------------------------- MODULE CartridgeProofs --------------------------
(***************************************************************************)
(* What the chips of a cartridge promise, for any sizes of theirs.         *)
(***************************************************************************)
EXTENDS Cartridge, TLAPS

----------------------------------------------------------------------------
(* The Super FX.                                                           *)

Marks == (Gsu!Banks \X Gsu!Addr) \cup {Gsu!Stale, Gsu!Cpu, Gsu!Junk}
GsuState ==
  [pc : Gsu!Addr, pfx : {"none", "some", "with"}, pbr : Gsu!Banks, cbr : Gsu!Addr,
   valid : SUBSET Int, cache : [Gsu!Window -> Marks], owned : BOOLEAN,
   run : BOOLEAN, irq : BOOLEAN, mask : BOOLEAN, line : BOOLEAN,
   lead : Int, icache : BOOLEAN, last : {"op", "keeps"}]

\* The code cache, the interrupt line, the prefixes and the clock.
Fresh(x) ==
  x.icache /\ x.owned =>
    \A i \in Gsu!Window : i \div GsuLine \in x.valid =>
      x.cache[i] \in {<<x.pbr, (x.cbr + i) % GsuSize>>, Gsu!Stale}
Cause(x)  == x.line => x.irq /\ ~x.mask
Scoped(x) == x.pfx # "none" => x.last = "keeps"
Paid(x)   == ~x.run => x.lead >= 0
Core(x)   == x \in GsuState /\ Fresh(x) /\ Cause(x)
GsuGood(x) == Core(x) /\ Scoped(x) /\ Paid(x)

\* y goes on like x, with the same prefix.
GoesOn(x, y) == /\ y.pfx = x.pfx /\ y.last = x.last /\ y.run = x.run
                /\ y.irq = x.irq /\ y.mask = x.mask /\ y.line = x.line /\ y.lead = x.lead
                /\ y.icache = x.icache

\* Two addresses of one line of the cache.
LEMMA OneLine ==
  ASSUME NEW i \in Nat, NEW j \in Nat, i \div GsuLine = j \div GsuLine
  PROVE  i \in Gsu!Align(j) .. Gsu!Align(j) + GsuLine - 1
<1>1. GsuLine \in Nat /\ GsuLine > 0
  BY GsuAssumption
<1> DEFINE q == j \div GsuLine
<1>2. q \in Int /\ i % GsuLine \in 0 .. GsuLine - 1 /\ j % GsuLine \in 0 .. GsuLine - 1
  BY <1>1
<1>3. i = GsuLine * q + (i % GsuLine) /\ j = GsuLine * q + (j % GsuLine)
  BY <1>1
<1> QED
  BY <1>1, <1>2, <1>3 DEF Gsu!Align

LEMMA Aligned ==
  ASSUME NEW a \in Gsu!Addr PROVE Gsu!Align(a) \in Gsu!Addr
<1>1. GsuLine \in Nat /\ GsuLine > 0 /\ GsuSize \in Nat /\ a \in Nat /\ a < GsuSize
  BY GsuAssumption DEF Gsu!Addr
<1>2. a % GsuLine \in 0 .. GsuLine - 1
  BY <1>1
<1>3. a % GsuLine <= a
  <2>1. a = GsuLine * (a \div GsuLine) + (a % GsuLine) /\ a \div GsuLine \in Int /\ a \div GsuLine >= 0
    BY <1>1
  <2> QED
    BY <1>1, <1>2, <2>1
<1> QED
  BY <1>1, <1>2, <1>3 DEF Gsu!Align, Gsu!Addr

LEMMA GsuFilled ==
  ASSUME NEW x, Core(x), Gsu!Index(x) \in Gsu!Window, NEW y, y = Gsu!Filled(x)
  PROVE  Core(y) /\ GoesOn(x, y) /\ y.pc = x.pc
<1> DEFINE n == Gsu!Index(x)
           f == Gsu!Align(n)
           v == x.valid \cup {n \div GsuLine}
           c == [i \in Gsu!Window |-> IF i \in f .. f + GsuLine - 1
                                      THEN <<x.pbr, (x.cbr + i) % GsuSize>> ELSE x.cache[i]]
           z == [x EXCEPT !.valid = v, !.cache = c]
<1>1. x \in GsuState /\ n \in Nat /\ GsuLine \in Nat \ {0} /\ GsuSize \in Nat \ {0}
  BY GsuAssumption DEF Core, Gsu!Window
<1>2. y = z
  BY DEF Gsu!Filled
<1>3. v \in SUBSET Int
  BY <1>1 DEF GsuState
<1>4. c \in [Gsu!Window -> Marks]
  <2>1. \A i \in Gsu!Window : (x.cbr + i) % GsuSize \in Gsu!Addr
    <3>1. x.cbr \in Nat /\ \A i \in Gsu!Window : i \in Nat
      BY <1>1, GsuAssumption DEF GsuState, Gsu!Addr, Gsu!Window
    <3> QED
      BY <1>1, <3>1 DEF Gsu!Addr
  <2>2. x.pbr \in Gsu!Banks /\ \A i \in Gsu!Window : x.cache[i] \in Marks
    BY <1>1 DEF GsuState
  <2> QED
    BY <2>1, <2>2 DEF Marks
<1> HIDE DEF v, c
<1>5. z \in GsuState
  BY <1>1, <1>3, <1>4 DEF GsuState
<1>6. GoesOn(x, z) /\ z.pc = x.pc
  BY <1>1 DEF GsuState, GoesOn
<1>7. z.valid = v /\ z.cache = c /\ z.pbr = x.pbr /\ z.cbr = x.cbr /\ z.owned = x.owned
  BY <1>1 DEF GsuState
<1> HIDE DEF z
<1>8. Fresh(z)
  <2>1. SUFFICES ASSUME z.icache, z.owned, NEW i \in Gsu!Window, i \div GsuLine \in v
                 PROVE  c[i] \in {<<x.pbr, (x.cbr + i) % GsuSize>>, Gsu!Stale}
    BY <1>7 DEF Fresh
  <2>2. i \in Nat
    BY DEF Gsu!Window
  <2>3. CASE i \in f .. f + GsuLine - 1
    BY <2>3 DEF c
  <2>4. CASE i \notin f .. f + GsuLine - 1
    <3>1. i \div GsuLine # n \div GsuLine
      BY <1>1, <2>2, <2>4, OneLine
    <3>2. i \div GsuLine \in x.valid
      BY <2>1, <3>1 DEF v
    <3>3. c[i] = x.cache[i]
      BY <2>4 DEF c
    <3>4. x.icache /\ x.owned
      BY <1>6, <1>7, <2>1 DEF GoesOn
    <3> QED
      BY <3>2, <3>3, <3>4 DEF Core, Fresh
  <2> QED
    BY <2>3, <2>4
<1>9. Cause(z)
  BY <1>6 DEF Core, Cause, GoesOn
<1> QED
  BY <1>2, <1>5, <1>6, <1>8, <1>9 DEF Core

LEMMA GsuReadOp ==
  ASSUME NEW x, Core(x), NEW y, y = Gsu!ReadOp(x)
  PROVE  Core(y) /\ GoesOn(x, y)
<1> DEFINE u == IF Gsu!Index(x) \in Gsu!Window /\ x.icache THEN Gsu!Cached(x) ELSE x
           p == (u.pc + 1) % GsuSize
           z == [u EXCEPT !.pc = p]
<1>1. Core(u) /\ GoesOn(x, u)
  <2>1. GoesOn(x, x)
    BY DEF GoesOn
  <2>2. Gsu!Index(x) \in Gsu!Window => Core(Gsu!Filled(x)) /\ GoesOn(x, Gsu!Filled(x))
    BY GsuFilled
  <2> QED
    BY <2>1, <2>2 DEF Gsu!Cached
<1>2. y = z
  BY DEF Gsu!ReadOp
<1> HIDE DEF u
<1>3. u \in GsuState
  BY <1>1 DEF Core
<1>4. p \in Gsu!Addr
  <2>1. u.pc \in Nat /\ GsuSize \in Nat \ {0}
    BY <1>3, GsuAssumption DEF GsuState, Gsu!Addr
  <2> QED
    BY <2>1 DEF Gsu!Addr
<1> HIDE DEF p
<1>5. z \in GsuState
  BY <1>3, <1>4 DEF GsuState
<1>6. GoesOn(u, z)
  BY <1>3 DEF GsuState, GoesOn
<1>7. /\ z.valid = u.valid /\ z.cache = u.cache /\ z.pbr = u.pbr /\ z.cbr = u.cbr
      /\ z.owned = u.owned
  BY <1>3 DEF GsuState
<1> HIDE DEF z
<1>8. Fresh(z) /\ Cause(z)
  BY <1>1, <1>6, <1>7 DEF Core, Fresh, Cause, GoesOn
<1>9. GoesOn(x, z)
  BY <1>1, <1>6 DEF GoesOn
<1> QED
  BY <1>2, <1>5, <1>8, <1>9 DEF Core

\* A window that moves drops its lines; with the code cache off it has none.
LEMMA GsuMoveWindow ==
  ASSUME NEW x \in GsuState, Cause(x), NEW a \in Gsu!Addr, NEW y,
         y = Gsu!SetCBR(x, a) \/ y = Gsu!MoveWindow(x, a)
  PROVE  Core(y) /\ GoesOn(x, y)
<1> DEFINE junk == [i \in Gsu!Window |-> Gsu!Junk]
           z(v, o, c) == [x EXCEPT !.cbr = a, !.valid = v, !.owned = o, !.cache = c]
<1>1. junk \in [Gsu!Window -> Marks]
  BY DEF Marks
<1>2. \E v \in SUBSET Int, o \in BOOLEAN, c \in [Gsu!Window -> Marks] :
        y = z(v, o, c) /\ (x.icache => v = {})
  <2>1. CASE y = Gsu!SetCBR(x, a)
    <3>1. \E o \in BOOLEAN : y = z({}, o, junk)
      BY <2>1 DEF Gsu!SetCBR
    <3> HIDE DEF junk, z
    <3> QED
      BY <1>1, <3>1
  <2>2. CASE y = Gsu!MoveWindow(x, a) /\ ~x.icache
    <3>1. y = z(x.valid, x.owned, x.cache)
      BY <2>2 DEF Gsu!MoveWindow, GsuState
    <3>2. x.valid \in SUBSET Int /\ x.owned \in BOOLEAN /\ x.cache \in [Gsu!Window -> Marks]
      BY DEF GsuState
    <3> HIDE DEF z
    <3> QED
      BY <2>2, <3>1, <3>2
  <2> QED
    BY <2>1, <2>2 DEF Gsu!MoveWindow
<1>3. PICK v \in SUBSET Int, o \in BOOLEAN, c \in [Gsu!Window -> Marks] :
        y = z(v, o, c) /\ (x.icache => v = {})
  BY <1>2
<1>4. z(v, o, c) \in GsuState
  BY DEF GsuState
<1>5. GoesOn(x, z(v, o, c))
  BY DEF GsuState, GoesOn
<1>6. z(v, o, c).valid = v
  BY DEF GsuState
<1> HIDE DEF z
<1>7. Fresh(y) /\ Cause(y)
  BY <1>3, <1>5, <1>6 DEF Fresh, Cause, GoesOn
<1> QED
  BY <1>3, <1>4, <1>5, <1>7 DEF Core

\* A store to RAM makes the copies of its byte stale.
LEMMA GsuStored ==
  ASSUME NEW x, Core(x), NEW a \in Gsu!Addr, NEW y, y = Gsu!Stored(x, a)
  PROVE  Core(y) /\ GoesOn(x, y)
<1> DEFINE c == [i \in Gsu!Window |-> IF x.cache[i] = <<"ram", a>> THEN Gsu!Stale ELSE x.cache[i]]
           z == [x EXCEPT !.cache = c]
<1>1. x \in GsuState
  BY DEF Core
<1>2. y = z
  BY DEF Gsu!Stored
<1>3. c \in [Gsu!Window -> Marks]
  BY <1>1 DEF GsuState, Marks
<1>4. \A i \in Gsu!Window : c[i] \in {x.cache[i], Gsu!Stale}
  OBVIOUS
<1> HIDE DEF c
<1>5. z \in GsuState
  BY <1>1, <1>3 DEF GsuState
<1>6. GoesOn(x, z)
  BY <1>1 DEF GsuState, GoesOn
<1>7. /\ z.valid = x.valid /\ z.cache = c /\ z.pbr = x.pbr /\ z.cbr = x.cbr
      /\ z.owned = x.owned
  BY <1>1 DEF GsuState
<1> HIDE DEF z
<1>8. Fresh(z) /\ Cause(z)
  BY <1>4, <1>6, <1>7 DEF Core, Fresh, Cause, GoesOn
<1> QED
  BY <1>2, <1>5, <1>6, <1>8 DEF Core

\* The ends of instructions, a jump, and a prefix.
LEMMA GsuOps ==
  ASSUME NEW x, Core(x), NEW t \in Gsu!Addr, NEW p \in {"some", "with"}
  PROVE  /\ Core(Gsu!OpEnd(x)) /\ Scoped(Gsu!OpEnd(x)) /\ Gsu!OpEnd(x).run = x.run
         /\ Core(Gsu!SkipReset(x)) /\ Scoped(Gsu!SkipReset(x)) /\ Gsu!SkipReset(x).run = x.run
         /\ Core(Gsu!Jump(x, t)) /\ Gsu!Jump(x, t).run = x.run
         /\ Scoped(x) => Scoped(Gsu!Jump(x, t))
         /\ Core([x EXCEPT !.pfx = p]) /\ [x EXCEPT !.pfx = p].run = x.run
<1> DEFINE z(f, l, c) == [x EXCEPT !.pfx = f, !.last = l, !.pc = c]
<1>1. x \in GsuState
  BY DEF Core
<1>2. \A f \in {"none", "some", "with"}, l \in {"op", "keeps"}, c \in Gsu!Addr :
        /\ Core(z(f, l, c)) /\ z(f, l, c).run = x.run
        /\ z(f, l, c).pfx = f /\ z(f, l, c).last = l
  <2> SUFFICES ASSUME NEW f \in {"none", "some", "with"}, NEW l \in {"op", "keeps"},
                      NEW c \in Gsu!Addr
               PROVE  /\ Core(z(f, l, c)) /\ z(f, l, c).run = x.run
                      /\ z(f, l, c).pfx = f /\ z(f, l, c).last = l
    OBVIOUS
  <2>1. z(f, l, c) \in GsuState
    BY <1>1 DEF GsuState
  <2>2. /\ z(f, l, c).run = x.run /\ z(f, l, c).icache = x.icache
        /\ z(f, l, c).pfx = f /\ z(f, l, c).last = l
        /\ z(f, l, c).valid = x.valid /\ z(f, l, c).cache = x.cache
        /\ z(f, l, c).pbr = x.pbr /\ z(f, l, c).cbr = x.cbr
        /\ z(f, l, c).owned = x.owned
    BY <1>1 DEF GsuState
  <2>3. z(f, l, c).line = x.line /\ z(f, l, c).irq = x.irq /\ z(f, l, c).mask = x.mask
    BY <1>1 DEF GsuState
  <2> HIDE DEF z
  <2>4. Fresh(z(f, l, c)) /\ Cause(z(f, l, c))
    BY <2>2, <2>3 DEF Core, Fresh, Cause
  <2> QED
    BY <2>1, <2>2, <2>4 DEF Core
<1>3. /\ Gsu!OpEnd(x) = z("none", "op", x.pc) /\ Gsu!SkipReset(x) = z(x.pfx, "keeps", x.pc)
      /\ Gsu!Jump(x, t) = z(x.pfx, x.last, t) /\ [x EXCEPT !.pfx = p] = z(p, x.last, x.pc)
  BY <1>1 DEF GsuState, Gsu!OpEnd, Gsu!SkipReset, Gsu!Jump
<1>4. x.pc \in Gsu!Addr /\ x.pfx \in {"none", "some", "with"} /\ x.last \in {"op", "keeps"}
  BY <1>1 DEF GsuState
<1> HIDE DEF z
<1>5. Core(Gsu!OpEnd(x)) /\ Scoped(Gsu!OpEnd(x)) /\ Gsu!OpEnd(x).run = x.run
  BY <1>2, <1>3, <1>4 DEF Scoped
<1>6. Core(Gsu!SkipReset(x)) /\ Scoped(Gsu!SkipReset(x)) /\ Gsu!SkipReset(x).run = x.run
  BY <1>2, <1>3, <1>4 DEF Scoped
<1>7. /\ Core(Gsu!Jump(x, t)) /\ Gsu!Jump(x, t).run = x.run
      /\ Scoped(x) => Scoped(Gsu!Jump(x, t))
  BY <1>2, <1>3, <1>4 DEF Scoped
<1>8. Core([x EXCEPT !.pfx = p]) /\ [x EXCEPT !.pfx = p].run = x.run
  BY <1>2, <1>3, <1>4
<1> QED
  BY <1>5, <1>6, <1>7, <1>8

\* An instruction: only a running chip is behind.
LEMMA GsuTakes ==
  ASSUME GsuGood(s), Gsu!Behind, NEW t, Core(t), Scoped(t), t.run = s.run, Gsu!Takes(t)
  PROVE  GsuGood(s')
<1>1. s \in GsuState /\ t \in GsuState
  BY DEF GsuGood, Core
<1>2. PICK cost \in 1 .. GsuCost : s' = [t EXCEPT !.lead = s.lead + cost]
  BY DEF Gsu!Takes
<1> DEFINE l == s.lead + cost
           z == [t EXCEPT !.lead = l]
<1>3. l \in Int /\ s.run
  BY <1>1, GsuAssumption DEF GsuState, GsuGood, Paid, Gsu!Behind
<1>4. s' = z
  BY <1>2
<1> HIDE DEF l
<1>5. z \in GsuState
  BY <1>1, <1>3 DEF GsuState
<1>6. /\ z.run = t.run /\ z.icache = t.icache /\ z.pfx = t.pfx /\ z.last = t.last
      /\ z.valid = t.valid /\ z.cache = t.cache /\ z.pbr = t.pbr /\ z.cbr = t.cbr
      /\ z.owned = t.owned
  BY <1>1 DEF GsuState
<1>7. z.line = t.line /\ z.irq = t.irq /\ z.mask = t.mask
  BY <1>1 DEF GsuState
<1> HIDE DEF z
<1>8. Fresh(z) /\ Cause(z)
  BY <1>6, <1>7 DEF Core, Fresh, Cause
<1>9. Scoped(z)
  BY <1>6 DEF Scoped
<1>10. Paid(z)
  BY <1>3, <1>6 DEF Paid
<1> QED
  BY <1>4, <1>5, <1>8, <1>9, <1>10 DEF GsuGood, Core

LEMMA GsuUpdate ==
  ASSUME GsuGood(s), Gsu!Update
  PROVE  GsuGood(s')
<1>1. Core(s) /\ s \in GsuState /\ Gsu!Behind
  BY DEF GsuGood, Core, Gsu!Update, Gsu!Ordinary, Gsu!Immediate, Gsu!Branch, Gsu!JumpTo,
         Gsu!LJMP, Gsu!CACHE, Gsu!ALT, Gsu!Select, Gsu!WITH_, Gsu!Store, Gsu!STOP
<1> DEFINE f == Gsu!ReadOp(s)
           g == Gsu!ReadOp(f)
           h == Gsu!ReadOp(g)
<1>2. Core(f) /\ GoesOn(s, f)
  BY <1>1, GsuReadOp
<1>3. Core(g) /\ GoesOn(s, g)
  <2> HIDE DEF f
  <2>1. Core(g) /\ GoesOn(f, g)
    BY <1>2, GsuReadOp
  <2> QED
    BY <1>2, <2>1 DEF GoesOn
<1>4. Core(h) /\ GoesOn(s, h)
  <2> HIDE DEF f, g
  <2>1. Core(h) /\ GoesOn(g, h)
    BY <1>3, GsuReadOp
  <2> QED
    BY <1>3, <2>1 DEF GoesOn
<1> DEFINE Leaves(x) == Core(x) /\ x.run = s.run
<1>5. Leaves(f) /\ Leaves(g) /\ Leaves(h)
  BY <1>2, <1>3, <1>4 DEF GoesOn
<1>6. \A x : Leaves(x) =>
        /\ Gsu!Takes(Gsu!OpEnd(x)) => GsuGood(s')
        /\ Leaves(Gsu!SkipReset(x)) /\ Scoped(Gsu!SkipReset(x))
        /\ Scoped(x) /\ Gsu!Takes(x) => GsuGood(s')
        /\ \A t \in Gsu!Addr : /\ Leaves(Gsu!Jump(x, t))
                               /\ Scoped(x) => Scoped(Gsu!Jump(x, t))
        /\ \A p \in {"some", "with"} : Leaves([x EXCEPT !.pfx = p])
  <2> SUFFICES ASSUME NEW x, Leaves(x)
               PROVE  /\ Gsu!Takes(Gsu!OpEnd(x)) => GsuGood(s')
                      /\ Leaves(Gsu!SkipReset(x)) /\ Scoped(Gsu!SkipReset(x))
                      /\ Scoped(x) /\ Gsu!Takes(x) => GsuGood(s')
                      /\ \A t \in Gsu!Addr : /\ Leaves(Gsu!Jump(x, t))
                                             /\ Scoped(x) => Scoped(Gsu!Jump(x, t))
                      /\ \A p \in {"some", "with"} : Leaves([x EXCEPT !.pfx = p])
    BY Zenon
  <2>1. s.pc \in Gsu!Addr /\ "some" \in {"some", "with"}
    BY <1>1 DEF GsuState
  <2>2. /\ Core(Gsu!OpEnd(x)) /\ Scoped(Gsu!OpEnd(x)) /\ Gsu!OpEnd(x).run = x.run
        /\ Core(Gsu!SkipReset(x)) /\ Scoped(Gsu!SkipReset(x)) /\ Gsu!SkipReset(x).run = x.run
    BY <2>1, GsuOps
  <2>3. \A t \in Gsu!Addr : /\ Leaves(Gsu!Jump(x, t))
                            /\ Scoped(x) => Scoped(Gsu!Jump(x, t))
    BY GsuOps
  <2>4. \A p \in {"some", "with"} : Leaves([x EXCEPT !.pfx = p])
    BY <2>1, GsuOps
  <2>5. Gsu!Takes(Gsu!OpEnd(x)) => GsuGood(s')
    BY <1>1, <2>2, GsuTakes
  <2>6. Scoped(x) /\ Gsu!Takes(x) => GsuGood(s')
    BY <1>1, GsuTakes
  <2> QED
    BY <2>2, <2>3, <2>4, <2>5, <2>6
<1>7. CASE Gsu!Ordinary
  BY <1>5, <1>6, <1>7, Zenon DEF Gsu!Ordinary
<1>8. CASE Gsu!Immediate
  <2>1. PICK x \in {g, h} : \/ Gsu!Takes(Gsu!OpEnd(x))
                            \/ \E t \in Gsu!Addr : Gsu!Takes(Gsu!OpEnd(Gsu!Jump(x, t)))
    BY <1>8 DEF Gsu!Immediate
  <2> HIDE DEF f, g, h, Leaves
  <2>2. Leaves(x)
    BY <1>5
  <2>3. \A t \in Gsu!Addr : Gsu!Takes(Gsu!OpEnd(Gsu!Jump(x, t))) => GsuGood(s')
    BY <1>6, <2>2
  <2> QED
    BY <1>6, <2>1, <2>2, <2>3
<1>9. CASE Gsu!Branch
  <2>1. \/ Gsu!Takes(Gsu!SkipReset(g))
        \/ \E t \in Gsu!Addr : Gsu!Takes(Gsu!Jump(Gsu!SkipReset(g), t))
    BY <1>9 DEF Gsu!Branch
  <2> HIDE DEF f, g, h, Leaves
  <2>2. Leaves(Gsu!SkipReset(g)) /\ Scoped(Gsu!SkipReset(g))
    BY <1>5, <1>6
  <2>3. \A t \in Gsu!Addr : /\ Leaves(Gsu!Jump(Gsu!SkipReset(g), t))
                            /\ Scoped(Gsu!Jump(Gsu!SkipReset(g), t))
    BY <1>6, <2>2
  <2> QED
    BY <1>6, <2>1, <2>2, <2>3
<1>10. CASE Gsu!JumpTo
  <2>1. PICK t \in Gsu!Addr : Gsu!Takes(Gsu!OpEnd(Gsu!Jump(f, t)))
    BY <1>10 DEF Gsu!JumpTo
  <2> HIDE DEF f, g, h, Leaves
  <2> QED
    BY <1>5, <1>6, <2>1
<1>11. CASE Gsu!LJMP
  <2>1. PICK t \in Gsu!Addr, b \in Gsu!Banks :
          Gsu!Takes(Gsu!OpEnd(Gsu!MoveWindow([Gsu!Jump(f, t) EXCEPT !.pbr = b], Gsu!Align(t))))
    BY <1>11 DEF Gsu!LJMP
  <2> DEFINE j == Gsu!Jump(f, t)
             x == [j EXCEPT !.pbr = b]
             y == Gsu!MoveWindow(x, Gsu!Align(t))
  <2> HIDE DEF f, g, h
  <2>2. j \in GsuState /\ Cause(j) /\ j.run = s.run
    BY <1>5, GsuOps DEF Core
  <2> HIDE DEF j
  <2>3. x \in GsuState
    BY <2>2 DEF GsuState
  <2>4. x.run = j.run /\ x.line = j.line /\ x.irq = j.irq /\ x.mask = j.mask
    BY <2>2 DEF GsuState
  <2> HIDE DEF x
  <2>5. Cause(x)
    BY <2>2, <2>4 DEF Cause
  <2>6. Core(y) /\ GoesOn(x, y)
    BY <2>3, <2>5, Aligned, GsuMoveWindow
  <2>7. Leaves(y)
    BY <2>2, <2>4, <2>6 DEF GoesOn
  <2>8. Gsu!Takes(Gsu!OpEnd(y))
    BY <2>1 DEF x, j
  <2> HIDE DEF y, Leaves
  <2> QED
    BY <1>6, <2>7, <2>8
<1>12. CASE Gsu!CACHE
  <2> DEFINE y == Gsu!MoveWindow(f, Gsu!Align(s.pc))
  <2>1. Gsu!Takes(Gsu!OpEnd(y))
    BY <1>12 DEF Gsu!CACHE
  <2> HIDE DEF f, g, h
  <2>2. Gsu!Align(s.pc) \in Gsu!Addr
    BY <1>1, Aligned DEF GsuState
  <2>3. Core(y) /\ GoesOn(f, y)
    BY <1>5, <2>2, GsuMoveWindow DEF Core
  <2>4. Leaves(y)
    BY <1>5, <2>3 DEF GoesOn
  <2> HIDE DEF y, Leaves
  <2> QED
    BY <1>6, <2>1, <2>4
<1>13. ASSUME NEW p \in {"some", "with"}, Gsu!Takes(Gsu!SkipReset([f EXCEPT !.pfx = p]))
       PROVE  GsuGood(s')
  <2> HIDE DEF f, g, h, Leaves
  <2>1. Leaves([f EXCEPT !.pfx = p])
    BY <1>5, <1>6
  <2> QED
    BY <1>6, <1>13, <2>1
<1>14. CASE Gsu!ALT
  <2>1. Gsu!Takes(Gsu!SkipReset([f EXCEPT !.pfx = Gsu!Over(f.pfx)]))
    BY <1>14 DEF Gsu!ALT
  <2>2. Gsu!Over(f.pfx) \in {"some", "with"}
    BY DEF Gsu!Over
  <2> HIDE DEF f
  <2> QED
    BY <1>13, <2>1, <2>2
<1>15. CASE Gsu!Select
  <2>1. \/ Gsu!Takes(Gsu!OpEnd(f))
        \/ Gsu!Takes(Gsu!SkipReset([f EXCEPT !.pfx = "some"]))
    BY <1>15 DEF Gsu!Select
  <2>2. "some" \in {"some", "with"}
    OBVIOUS
  <2> HIDE DEF f, g, h, Leaves
  <2> QED
    BY <1>5, <1>6, <1>13, <2>1, <2>2
<1>16. CASE Gsu!WITH_
  <2>1. Gsu!Takes(Gsu!SkipReset([f EXCEPT !.pfx = "with"]))
    BY <1>16 DEF Gsu!WITH_
  <2>2. "with" \in {"some", "with"}
    OBVIOUS
  <2> HIDE DEF f
  <2> QED
    BY <1>13, <2>1, <2>2
<1>17. CASE Gsu!Store
  <2>1. PICK a \in Gsu!Addr : Gsu!Takes(Gsu!OpEnd(Gsu!Stored(f, a)))
    BY <1>17 DEF Gsu!Store
  <2> HIDE DEF f, g, h
  <2>2. Leaves(Gsu!Stored(f, a))
    BY <1>5, GsuStored DEF GoesOn
  <2> HIDE DEF Leaves
  <2> QED
    BY <1>6, <2>1, <2>2
<1>18. CASE Gsu!STOP
  <2> DEFINE t == Gsu!OpEnd(f)
             z == [t EXCEPT !.run = FALSE, !.irq = TRUE, !.lead = 0]
  <2>1. s' = z
    BY <1>18 DEF Gsu!STOP
  <2>2. Core(t) /\ Scoped(t)
    <3> HIDE DEF f
    <3>1. s.pc \in Gsu!Addr /\ "some" \in {"some", "with"}
      BY <1>1 DEF GsuState
    <3> QED
      BY <1>5, <3>1, GsuOps
  <2> HIDE DEF t
  <2>3. t \in GsuState
    BY <2>2 DEF Core
  <2>4. z \in GsuState
    <3>1. \A r \in BOOLEAN, i \in BOOLEAN, l \in Int :
            [t EXCEPT !.run = r, !.irq = i, !.lead = l] \in GsuState
      BY <2>3 DEF GsuState
    <3>2. FALSE \in BOOLEAN /\ TRUE \in BOOLEAN /\ 0 \in Int
      OBVIOUS
    <3> QED
      BY <3>1, <3>2, Zenon
  <2>5. /\ z.icache = t.icache /\ z.pfx = t.pfx /\ z.last = t.last
        /\ z.valid = t.valid /\ z.cache = t.cache /\ z.pbr = t.pbr /\ z.cbr = t.cbr
        /\ z.owned = t.owned /\ z.line = t.line /\ z.mask = t.mask
    BY <2>3 DEF GsuState
  <2>6. z.irq /\ z.lead = 0
    BY <2>3 DEF GsuState
  <2> HIDE DEF z
  <2>7. Fresh(z) /\ Scoped(z) /\ Paid(z)
    BY <2>2, <2>5, <2>6 DEF Core, Fresh, Scoped, Paid
  <2>8. Cause(z)
    BY <2>2, <2>5, <2>6 DEF Core, Cause
  <2> QED
    BY <2>1, <2>4, <2>7, <2>8 DEF GsuGood, Core
<1> QED
  BY <1>7, <1>8, <1>9, <1>10, <1>11, <1>12, <1>14, <1>15, <1>16, <1>17, <1>18 DEF Gsu!Update

----------------------------------------------------------------------------
\* The main CPU sets registers, or gives the chip time.
LEMMA GsuSet ==
  ASSUME GsuGood(s), NEW l \in Int, NEW c \in Gsu!Addr, NEW f \in {"none", s.pfx},
         NEW r \in BOOLEAN, NEW i \in BOOLEAN, NEW m \in BOOLEAN, NEW n \in BOOLEAN,
         n => i /\ ~m, ~r => l >= 0,
         s' = [s EXCEPT !.lead = l, !.pc = c, !.pfx = f, !.run = r, !.irq = i, !.mask = m,
                        !.line = n]
  PROVE  GsuGood(s')
<1> DEFINE z == [s EXCEPT !.lead = l, !.pc = c, !.pfx = f, !.run = r, !.irq = i, !.mask = m,
                          !.line = n]
<1>1. s \in GsuState /\ f \in {"none", "some", "with"}
  BY DEF GsuGood, Core, GsuState
<1>2. z \in GsuState
  BY <1>1 DEF GsuState
<1>3. /\ z.icache = s.icache /\ z.last = s.last /\ z.valid = s.valid /\ z.cache = s.cache
      /\ z.pbr = s.pbr /\ z.cbr = s.cbr /\ z.owned = s.owned
  BY <1>1 DEF GsuState
<1>4. z.pfx = f /\ z.lead = l
  BY <1>1 DEF GsuState
<1>5. (z.run <=> r) /\ (z.irq <=> i) /\ (z.mask <=> m) /\ (z.line <=> n)
  BY <1>1 DEF GsuState
<1>6. s' = z
  OBVIOUS
<1> HIDE DEF z
<1>7. Fresh(z)
  BY <1>3 DEF GsuGood, Core, Fresh
<1>8. Scoped(z)
  BY <1>3, <1>4 DEF GsuGood, Scoped
<1>9. Cause(z) /\ Paid(z)
  BY <1>4, <1>5 DEF Cause, Paid
<1> QED
  BY <1>2, <1>6, <1>7, <1>8, <1>9 DEF GsuGood, Core

LEMMA GsuRegisters ==
  ASSUME GsuGood(s), Gsu!EventHandler \/ Gsu!WriteR15 \/ Gsu!ReadSFR \/ Gsu!SetCFGR
  PROVE  GsuGood(s')
<1>1. s \in GsuState /\ Cause(s) /\ Paid(s)
  BY DEF GsuGood, Core
<1>2. /\ s.lead \in Int /\ s.pc \in Gsu!Addr /\ s.run \in BOOLEAN /\ s.irq \in BOOLEAN
      /\ s.mask \in BOOLEAN /\ s.line \in BOOLEAN /\ s.lead >= 0
      /\ s.line => s.irq /\ ~s.mask
  <2>1. ~Gsu!Behind
    BY DEF Gsu!EventHandler, Gsu!WriteR15, Gsu!ReadSFR, Gsu!SetCFGR
  <2>2. /\ s.lead \in Int /\ s.pc \in Gsu!Addr /\ s.run \in BOOLEAN /\ s.irq \in BOOLEAN
        /\ s.mask \in BOOLEAN /\ s.line \in BOOLEAN
    BY <1>1 DEF GsuState
  <2>3. s.lead >= 0
    BY <2>1, <2>2 DEF Gsu!Behind
  <2> QED
    BY <1>1, <2>2, <2>3 DEF Cause
<1> DEFINE z(l, c, f, r, i, m, n) ==
             [s EXCEPT !.lead = l, !.pc = c, !.pfx = f, !.run = r, !.irq = i, !.mask = m, !.line = n]
<1>3. \E l \in Int, c \in Gsu!Addr, f \in {"none", s.pfx}, r, i, m, n \in BOOLEAN :
        s' = z(l, c, f, r, i, m, n) /\ (n => i /\ ~m) /\ (~r => l >= 0)
  <2>1. CASE Gsu!EventHandler
    <3>1. PICK l \in Int : s' = [s EXCEPT !.lead = l] /\ (~s.run => l >= 0)
      <4>1. s.lead - GsuPeriod \in Int /\ 0 \in Int
        BY <1>2, GsuAssumption
      <4> QED
        BY <2>1, <4>1 DEF Gsu!EventHandler
    <3>2. s' = z(l, s.pc, s.pfx, s.run, s.irq, s.mask, s.line)
      BY <1>1, <3>1 DEF GsuState
    <3> HIDE DEF z
    <3> QED
      BY <1>2, <3>1, <3>2
  <2>2. CASE Gsu!WriteR15
    <3>1. PICK c \in Gsu!Addr : s' = [s EXCEPT !.pc = c, !.run = TRUE, !.pfx = "none"]
      BY <2>2 DEF Gsu!WriteR15
    <3>2. \E r \in BOOLEAN : r = TRUE /\ s' = z(s.lead, c, "none", r, s.irq, s.mask, s.line)
      BY <1>1, <3>1 DEF GsuState
    <3> HIDE DEF z
    <3> QED
      BY <1>2, <3>2
  <2>3. CASE Gsu!ReadSFR
    <3>1. s' = [s EXCEPT !.irq = FALSE, !.line = FALSE]
      BY <2>3 DEF Gsu!ReadSFR
    <3>2. \E n, i \in BOOLEAN : n = FALSE /\ s' = z(s.lead, s.pc, s.pfx, s.run, i, s.mask, n)
      BY <1>1, <3>1 DEF GsuState
    <3> HIDE DEF z
    <3> QED
      BY <1>2, <3>2
  <2>4. CASE Gsu!SetCFGR
    <3>1. PICK m \in BOOLEAN : s' = [s EXCEPT !.mask = m, !.line = s.irq /\ ~m]
      BY <2>4 DEF Gsu!SetCFGR
    <3>2. \E n \in BOOLEAN : (n <=> s.irq /\ ~m) /\ s' = z(s.lead, s.pc, s.pfx, s.run, s.irq, m, n)
      BY <1>1, <3>1 DEF GsuState
    <3> HIDE DEF z
    <3> QED
      BY <1>2, <3>2
  <2> QED
    BY <2>1, <2>2, <2>3, <2>4
<1>4. PICK l \in Int, c \in Gsu!Addr, f \in {"none", s.pfx},
           r \in BOOLEAN, i \in BOOLEAN, m \in BOOLEAN, n \in BOOLEAN :
        s' = z(l, c, f, r, i, m, n) /\ (n => i /\ ~m) /\ (~r => l >= 0)
  BY <1>3
<1> QED
  BY <1>4, GsuSet

LEMMA GsuPowered ==
  ASSUME NEW b \in BOOLEAN PROVE GsuGood(Gsu!PowerOn(b))
<1> DEFINE y == Gsu!PowerOn(b)
<1>1. 0 \in Gsu!Addr
  BY GsuAssumption DEF Gsu!Addr
<1>2. y \in GsuState
  BY <1>1 DEF Gsu!PowerOn, GsuState, Marks, Gsu!Banks
<1>3. y.valid = {} /\ ~y.line /\ y.pfx = "none" /\ y.lead = 0
  BY DEF Gsu!PowerOn
<1> HIDE DEF y
<1>4. Fresh(y) /\ Cause(y) /\ Scoped(y) /\ Paid(y)
  BY <1>3 DEF Fresh, Cause, Scoped, Paid
<1> QED
  BY <1>2, <1>4 DEF GsuGood, Core, y

\* The main CPU writes the bank, the cache or RAM, or stops the chip, or a state is
\* loaded: what is marked as not the chip's own is not looked at.
LEMMA GsuMemory ==
  ASSUME GsuGood(s), Gsu!WriteSFR \/ Gsu!WritePBR \/ Gsu!WriteRAM \/ Gsu!WriteCache \/ Gsu!LoadState
  PROVE  GsuGood(s')
<1>1. s \in GsuState /\ Core(s) /\ Cause(s) /\ Scoped(s) /\ Paid(s)
  BY DEF GsuGood, Core
<1>2. s.lead >= 0 /\ 0 \in Gsu!Addr
  <2>1. ~Gsu!Behind
    BY DEF Gsu!WriteSFR, Gsu!WritePBR, Gsu!WriteRAM, Gsu!WriteCache, Gsu!LoadState
  <2>2. s.lead \in Int
    BY <1>1 DEF GsuState
  <2> QED
    BY <2>1, <2>2, GsuAssumption DEF Gsu!Behind, Gsu!Addr
<1>3. ASSUME NEW x, Core(x), GoesOn(s, x), s' = x
      PROVE  GsuGood(s')
  BY <1>1, <1>3 DEF GsuGood, GoesOn, Scoped, Paid
<1>4. CASE Gsu!WriteRAM
  BY <1>1, <1>3, <1>4, GsuStored DEF Gsu!WriteRAM
<1>5. ASSUME NEW r \in BOOLEAN
      PROVE  LET z == [s EXCEPT !.run = r]
             IN  /\ z \in GsuState /\ (z.run <=> r)
                 /\ z.pfx = s.pfx /\ z.last = s.last /\ z.lead = s.lead
                 /\ z.irq = s.irq /\ z.mask = s.mask /\ z.line = s.line
                 /\ z.icache = s.icache /\ z.owned = s.owned /\ z.valid = s.valid
                 /\ z.cache = s.cache /\ z.pbr = s.pbr /\ z.cbr = s.cbr
  <2> DEFINE z == [s EXCEPT !.run = r]
  <2>1. z \in GsuState
    BY <1>1 DEF GsuState
  <2>2. /\ z.pfx = s.pfx /\ z.last = s.last /\ z.lead = s.lead
        /\ z.irq = s.irq /\ z.mask = s.mask /\ z.line = s.line
        /\ z.icache = s.icache /\ z.owned = s.owned /\ z.valid = s.valid
        /\ z.cache = s.cache /\ z.pbr = s.pbr /\ z.cbr = s.cbr
    BY <1>1 DEF GsuState
  <2>3. z.run <=> r
    BY <1>1 DEF GsuState
  <2> HIDE DEF z
  <2> QED
    BY <2>1, <2>2, <2>3 DEF z
<1>6. CASE Gsu!WriteSFR
  <2>1. \/ \E r \in BOOLEAN : s' = [s EXCEPT !.run = r]
        \/ \E r \in BOOLEAN : s' = Gsu!SetCBR([s EXCEPT !.run = r], 0)
    BY <1>6 DEF Gsu!WriteSFR
  <2>2. ASSUME NEW r \in BOOLEAN, s' = [s EXCEPT !.run = r]
        PROVE  GsuGood(s')
    <3> DEFINE z == [s EXCEPT !.run = r]
    <3>1. /\ z \in GsuState /\ z.pfx = s.pfx /\ z.last = s.last /\ z.lead = s.lead
          /\ z.irq = s.irq /\ z.mask = s.mask /\ z.line = s.line
          /\ z.icache = s.icache /\ z.owned = s.owned /\ z.valid = s.valid
          /\ z.cache = s.cache /\ z.pbr = s.pbr /\ z.cbr = s.cbr
      BY <1>5
    <3>2. s' = z
      BY <2>2
    <3> HIDE DEF z
    <3>3. Fresh(z) /\ Cause(z) /\ Scoped(z) /\ Paid(z)
      BY <1>1, <1>2, <3>1 DEF Core, Fresh, Cause, Scoped, Paid
    <3> QED
      BY <3>1, <3>2, <3>3 DEF GsuGood, Core
  <2>3. ASSUME NEW r \in BOOLEAN, s' = Gsu!SetCBR([s EXCEPT !.run = r], 0)
        PROVE  GsuGood(s')
    <3> DEFINE z == [s EXCEPT !.run = r]
               y == Gsu!SetCBR(z, 0)
    <3>1. /\ z \in GsuState /\ z.pfx = s.pfx /\ z.last = s.last /\ z.lead = s.lead
          /\ z.irq = s.irq /\ z.mask = s.mask /\ z.line = s.line
      BY <1>5
    <3>2. s' = y
      BY <2>3
    <3> HIDE DEF z
    <3>3. Cause(z)
      BY <1>1, <3>1 DEF Cause
    <3>4. Core(y) /\ GoesOn(z, y)
      BY <1>2, <3>1, <3>3, GsuMoveWindow
    <3> HIDE DEF y
    <3>5. Scoped(y) /\ Paid(y)
      BY <1>1, <1>2, <3>1, <3>4 DEF GoesOn, Scoped, Paid
    <3> QED
      BY <3>2, <3>4, <3>5 DEF GsuGood
  <2> QED
    BY <2>1, <2>2, <2>3
<1>7. ASSUME NEW p \in Gsu!Banks, NEW v \in SUBSET Int, NEW o \in BOOLEAN,
             NEW c \in [Gsu!Window -> Marks], NEW k \in BOOLEAN, ~o \/ v = {},
             s' = [s EXCEPT !.pbr = p, !.valid = v, !.owned = o, !.cache = c, !.icache = k]
      PROVE  GsuGood(s')
  <2> DEFINE z == [s EXCEPT !.pbr = p, !.valid = v, !.owned = o, !.cache = c, !.icache = k]
  <2>1. z \in GsuState
    BY <1>1 DEF GsuState
  <2>2. z.valid = v /\ (z.owned <=> o)
    BY <1>1 DEF GsuState
  <2>3. /\ z.pfx = s.pfx /\ z.last = s.last /\ z.lead = s.lead /\ z.run = s.run
        /\ z.irq = s.irq /\ z.mask = s.mask /\ z.line = s.line
    BY <1>1 DEF GsuState
  <2>4. s' = z
    BY <1>7
  <2> HIDE DEF z
  <2>5. Fresh(z)
    BY <1>7, <2>2 DEF Fresh
  <2>6. Cause(z) /\ Scoped(z) /\ Paid(z)
    BY <1>1, <2>3 DEF Cause, Scoped, Paid
  <2> QED
    BY <2>1, <2>4, <2>5, <2>6 DEF GsuGood, Core
<1>8. /\ s.pbr \in Gsu!Banks /\ s.valid \in SUBSET Int /\ s.owned \in BOOLEAN
      /\ s.cache \in [Gsu!Window -> Marks] /\ s.icache \in BOOLEAN
  BY <1>1 DEF GsuState
<1> DEFINE z(p, v, o, c, k) ==
             [s EXCEPT !.pbr = p, !.valid = v, !.owned = o, !.cache = c, !.icache = k]
<1>9. CASE Gsu!WritePBR
  <2>1. PICK b \in Gsu!Banks : s' = [s EXCEPT !.pbr = b, !.owned = FALSE]
    BY <1>9 DEF Gsu!WritePBR
  <2>2. PICK o \in BOOLEAN : o = FALSE /\ s' = z(b, s.valid, o, s.cache, s.icache)
    BY <1>1, <2>1 DEF GsuState
  <2> QED
    BY <1>7, <1>8, <2>2
<1>10. CASE Gsu!WriteCache
  <2>1. PICK i \in Gsu!Window :
          s' = [s EXCEPT !.valid = s.valid \cup {i \div GsuLine}, !.owned = FALSE,
                  !.cache = [j \in Gsu!Window |->
                     IF j = i \/ (~(i \div GsuLine \in s.valid) /\ j \div GsuLine = i \div GsuLine)
                     THEN Gsu!Cpu ELSE s.cache[j]]]
    BY <1>10 DEF Gsu!WriteCache
  <2> DEFINE v == s.valid \cup {i \div GsuLine}
             c == [j \in Gsu!Window |->
                     IF j = i \/ (~(i \div GsuLine \in s.valid) /\ j \div GsuLine = i \div GsuLine)
                     THEN Gsu!Cpu ELSE s.cache[j]]
  <2>2. v \in SUBSET Int
    BY <1>8, GsuAssumption DEF Gsu!Window
  <2>3. c \in [Gsu!Window -> Marks]
    BY <1>8 DEF Marks
  <2>4. s' = [s EXCEPT !.valid = v, !.owned = FALSE, !.cache = c]
    BY <2>1
  <2> HIDE DEF v, c
  <2>5. PICK o \in BOOLEAN : o = FALSE /\ s' = z(s.pbr, v, o, c, s.icache)
    BY <1>1, <2>4 DEF GsuState
  <2> QED
    BY <1>7, <1>8, <2>2, <2>3, <2>5
<1>11. CASE Gsu!LoadState
  <2> DEFINE c == [i \in Gsu!Window |-> Gsu!Junk]
             v == {}
  <2>1. s' = [s EXCEPT !.icache = ~s.icache, !.valid = v, !.owned = TRUE, !.cache = c]
    BY <1>11 DEF Gsu!LoadState
  <2>2. c \in [Gsu!Window -> Marks]
    BY DEF Marks
  <2>3. v \in SUBSET Int /\ v = {}
    OBVIOUS
  <2> HIDE DEF c, v
  <2>4. PICK o \in BOOLEAN, k \in BOOLEAN : s' = z(s.pbr, v, o, c, k)
    BY <1>1, <2>1 DEF GsuState
  <2> QED
    BY <1>7, <1>8, <2>2, <2>3, <2>4
<1> QED
  BY <1>4, <1>6, <1>9, <1>10, <1>11

----------------------------------------------------------------------------
(* The CX4.                                                                *)

Tags == CxPages \cup {0, -1}
Cx4State ==
  [run : BOOLEAN, dma : BOOLEAN, cycles : Int, p : Tags, active : 0 .. 1,
   tag : [0 .. 1 -> Tags], locked : [0 .. 1 -> BOOLEAN], nextip : Nat,
   next : {"nop", "word", "halt", "beyond"},
   stack : [0 .. CxDepth - 1 -> Tags \X (0 .. CxWords - 1)], sp : 0 .. CxDepth - 1,
   at : Tags, stray : BOOLEAN]

\* A running program is in its page; the word prefetched tells how far past the
\* page's words the next one may lie.
InPage(x) == x.run => x.tag[x.active] = x.at
Past(w) == CASE w = "word" -> 0 [] w = "nop" -> 1 [] w = "halt" -> 2 [] OTHER -> 3
InData(x) == /\ x.nextip <= CxWords + 3
             /\ x.run => x.next # "beyond" /\ x.nextip <= CxWords + Past(x.next)
Cx4Good(x) == x \in Cx4State /\ (~x.stray => InPage(x) /\ InData(x))

\* y has x's caches and runs like it.
SameCaches(x, y) ==
  /\ y.tag = x.tag /\ y.active = x.active /\ y.locked = x.locked
  /\ y.run = x.run /\ y.at = x.at /\ y.stray = x.stray

\* The prefetch.
LEMMA Cx4Fetch ==
  ASSUME NEW x \in Cx4State, NEW f, f = Capcom!Fetch(x)
  PROVE  /\ f \in Cx4State /\ SameCaches(x, f)
         /\ f.nextip = x.nextip + 1 /\ f.next # "nop"
         /\ f.next = "word" => x.nextip < CxWords
         /\ f.next = "halt" => x.nextip <= CxWords + 1
         /\ f.next = "beyond" => x.nextip > CxWords + 1
<1> DEFINE w == Capcom!Word(x.nextip)
           y(n, i, c) == [x EXCEPT !.next = n, !.nextip = i, !.cycles = c]
<1>1. x.nextip \in Nat /\ CxWords \in Nat /\ x.cycles - 1 \in Int
  BY CxAssumption DEF Cx4State
<1>2. /\ w \in {"word", "halt", "beyond"}
      /\ w = "word" => x.nextip < CxWords
      /\ w = "halt" => x.nextip <= CxWords + 1
      /\ w = "beyond" => x.nextip > CxWords + 1
  BY <1>1 DEF Capcom!Word, Capcom!Halts
<1>3. \A n \in {"word", "halt", "beyond"}, i \in Nat, c \in Int :
        /\ y(n, i, c) \in Cx4State /\ SameCaches(x, y(n, i, c))
        /\ y(n, i, c).next = n /\ y(n, i, c).nextip = i
  <2> SUFFICES ASSUME NEW n \in {"word", "halt", "beyond"}, NEW i \in Nat, NEW c \in Int
               PROVE  /\ y(n, i, c) \in Cx4State /\ SameCaches(x, y(n, i, c))
                      /\ y(n, i, c).next = n /\ y(n, i, c).nextip = i
    OBVIOUS
  <2>1. y(n, i, c) \in Cx4State
    BY DEF Cx4State
  <2>2. SameCaches(x, y(n, i, c))
    BY DEF Cx4State, SameCaches
  <2>3. y(n, i, c).next = n /\ y(n, i, c).nextip = i
    BY DEF Cx4State
  <2> QED
    BY <2>1, <2>2, <2>3
<1>4. f = y(w, x.nextip + 1, x.cycles - 1)
  BY DEF Capcom!Fetch
<1> HIDE DEF w, y
<1> QED
  BY <1>1, <1>2, <1>3, <1>4

\* A page is looked up: a program that runs on runs in it, and a locked page is
\* not replaced.
LEMMA Cx4CheckCache ==
  ASSUME NEW x \in Cx4State, NEW page \in Tags, NEW y, y = Capcom!CheckCache(x, page)
  PROVE  /\ y \in Cx4State
         /\ y.run => x.run /\ y.tag[y.active] = page
         /\ \A c \in 0 .. 1 : x.locked[c] => y.tag[c] = x.tag[c]
         /\ y.nextip = x.nextip /\ y.next = x.next /\ y.stray = x.stray
<1> DEFINE other == 1 - x.active
           Z(a, t, r, c) == [x EXCEPT !.active = a, !.tag = t, !.run = r, !.cycles = c]
<1>1. /\ x.active \in 0 .. 1 /\ other \in 0 .. 1 /\ other # x.active
      /\ x.tag \in [0 .. 1 -> Tags] /\ x.run \in BOOLEAN /\ x.cycles \in Int
      /\ x.locked \in [0 .. 1 -> BOOLEAN]
  BY DEF Cx4State
<1>2. \A a \in 0 .. 1, t \in [0 .. 1 -> Tags], r \in BOOLEAN, c \in Int :
        LET z == Z(a, t, r, c)
        IN  /\ z \in Cx4State /\ z.run = r /\ z.tag = t /\ z.active = a
            /\ z.nextip = x.nextip /\ z.next = x.next /\ z.stray = x.stray
  <2> SUFFICES ASSUME NEW a \in 0 .. 1, NEW t \in [0 .. 1 -> Tags], NEW r \in BOOLEAN, NEW c \in Int
               PROVE  LET z == Z(a, t, r, c)
                      IN  /\ z \in Cx4State /\ z.run = r /\ z.tag = t /\ z.active = a
                          /\ z.nextip = x.nextip /\ z.next = x.next /\ z.stray = x.stray
    OBVIOUS
  <2>1. Z(a, t, r, c) \in Cx4State
    BY DEF Cx4State
  <2>2. Z(a, t, r, c).run = r /\ Z(a, t, r, c).tag = t /\ Z(a, t, r, c).active = a
    BY DEF Cx4State
  <2>3. /\ Z(a, t, r, c).nextip = x.nextip /\ Z(a, t, r, c).next = x.next
        /\ Z(a, t, r, c).stray = x.stray
    BY DEF Cx4State
  <2> QED
    BY <2>1, <2>2, <2>3
<1> DEFINE Found(a, t, r) ==
             /\ r => x.run /\ t[a] = page
             /\ \A c \in 0 .. 1 : x.locked[c] => t[c] = x.tag[c]
<1>3. \E a \in 0 .. 1, t \in [0 .. 1 -> Tags], r \in BOOLEAN, c \in Int :
        y = Z(a, t, r, c) /\ Found(a, t, r)
  <2>1. CASE x.tag[x.active] = page
    <3>1. y = Z(x.active, x.tag, x.run, x.cycles)
      BY <2>1 DEF Capcom!CheckCache, Cx4State
    <3>2. Found(x.active, x.tag, x.run)
      BY <2>1
    <3> QED
      BY <1>1, <3>1, <3>2
  <2>2. CASE x.tag[x.active] # page /\ x.tag[other] = page
    <3>1. y = Z(other, x.tag, x.run, x.cycles)
      BY <2>2 DEF Capcom!CheckCache, Cx4State
    <3>2. Found(other, x.tag, x.run)
      BY <2>2
    <3> QED
      BY <1>1, <3>1, <3>2
  <2>3. CASE x.tag[x.active] # page /\ x.tag[other] # page /\ ~x.locked[other]
    <3> DEFINE t == [x.tag EXCEPT ![other] = page]
    <3>1. y = Z(other, t, x.run, x.cycles)
      BY <1>1, <2>3 DEF Capcom!CheckCache, Capcom!LoadCache, Cx4State
    <3>2. Found(other, t, x.run) /\ t \in [0 .. 1 -> Tags]
      BY <1>1, <2>3
    <3> HIDE DEF t, Z, Found
    <3> QED
      BY <1>1, <3>1, <3>2
  <2>4. CASE x.tag[x.active] # page /\ x.tag[other] # page /\ x.locked[other] /\ ~x.locked[x.active]
    <3> DEFINE t == [x.tag EXCEPT ![x.active] = page]
    <3>1. y = Z(x.active, t, x.run, x.cycles)
      BY <1>1, <2>4 DEF Capcom!CheckCache, Capcom!LoadCache, Cx4State
    <3>2. Found(x.active, t, x.run) /\ t \in [0 .. 1 -> Tags]
      BY <1>1, <2>4
    <3> HIDE DEF t, Z, Found
    <3> QED
      BY <1>1, <3>1, <3>2
  <2>5. CASE x.tag[x.active] # page /\ x.tag[other] # page /\ x.locked[other] /\ x.locked[x.active]
    <3> DEFINE c == IF x.dma \/ x.cycles < 0 THEN x.cycles ELSE 0
    <3>0. c \in Int
      BY <1>1
    <3>1. y = Z(x.active, x.tag, FALSE, c)
      <4>1. y = [x EXCEPT !.run = FALSE, !.cycles = c]
        BY <1>1, <2>5 DEF Capcom!CheckCache
      <4> HIDE DEF c
      <4> QED
        BY <1>1, <4>1 DEF Cx4State
    <3>2. Found(x.active, x.tag, FALSE)
      BY <1>1
    <3> HIDE DEF c, Z, Found
    <3> QED
      BY <1>1, <3>0, <3>1, <3>2
  <2> QED
    BY <1>1, <2>1, <2>2, <2>3, <2>4, <2>5
<1> QED
  <2>1. PICK a \in 0 .. 1, t \in [0 .. 1 -> Tags], r \in BOOLEAN, c \in Int :
          y = Z(a, t, r, c) /\ Found(a, t, r)
    BY <1>3
  <2> HIDE DEF Z
  <2> QED
    BY <1>2, <2>1

----------------------------------------------------------------------------
\* Locked caches are as s has them.
Kept(x) == \A c \in 0 .. 1 : s.locked[c] => x.tag[c] = s.tag[c]

\* An instruction that leaves x: what a running program needs of x is what its
\* successor is.
LEMMA Cx4Ran ==
  ASSUME NEW x \in Cx4State, s \in Cx4State, Capcom!Ran(x), Kept(x),
         s.run /\ ~s.stray => InPage(x) /\ InData(x)
  PROVE  Cx4Good(s') /\ Kept(s')
<1> DEFINE stray == s.stray \/ ~s.run
           z == [x EXCEPT !.stray = stray]
<1>1. stray \in BOOLEAN
  BY DEF Cx4State
<1>2. s' = z
  BY DEF Capcom!Ran
<1>3. z \in Cx4State
  BY <1>1 DEF Cx4State
<1>4. z.stray = stray /\ z.run = x.run /\ z.tag = x.tag /\ z.active = x.active /\ z.at = x.at
  BY DEF Cx4State
<1>5. z.nextip = x.nextip /\ z.next = x.next
  BY DEF Cx4State
<1>6. ~z.stray => InPage(z) /\ InData(z)
  <2>1. SUFFICES ASSUME ~z.stray PROVE InPage(z) /\ InData(z)
    BY Zenon
  <2>2. InPage(x) /\ InData(x)
    BY <1>1, <1>4, <2>1 DEF Cx4State
  <2> HIDE DEF z
  <2> QED
    BY <1>4, <1>5, <2>2 DEF InPage, InData
<1>7. Kept(z)
  BY <1>4 DEF Kept
<1> HIDE DEF z
<1> QED
  BY <1>2, <1>3, <1>6, <1>7 DEF Cx4Good

LEMMA Cx4Ordinary ==
  ASSUME Cx4Good(s), Capcom!Ordinary
  PROVE  Cx4Good(s') /\ Kept(s')
<1> DEFINE f == Capcom!Fetch(s)
<1>1. s \in Cx4State /\ s.next \in {"nop", "word"}
  BY DEF Cx4Good, Capcom!Ordinary, Capcom!Executes
<1>2. /\ f \in Cx4State /\ SameCaches(s, f)
      /\ f.nextip = s.nextip + 1 /\ f.next # "nop"
      /\ f.next = "word" => s.nextip < CxWords
      /\ f.next = "halt" => s.nextip <= CxWords + 1
      /\ f.next = "beyond" => s.nextip > CxWords + 1
  BY <1>1, Cx4Fetch
<1>3. \E x \in Cx4State : /\ Capcom!Ran(x) /\ SameCaches(s, x)
                          /\ x.nextip = f.nextip /\ x.next = f.next
  <2>1. CASE Capcom!Ran(f)
    BY <1>2, <2>1
  <2>2. ASSUME NEW p \in CxPages, Capcom!Ran([f EXCEPT !.p = p])
        PROVE  \E x \in Cx4State : /\ Capcom!Ran(x) /\ SameCaches(s, x)
                                   /\ x.nextip = f.nextip /\ x.next = f.next
    <3> DEFINE z == [f EXCEPT !.p = p]
    <3> HIDE DEF f
    <3>1. z \in Cx4State /\ z.nextip = f.nextip /\ z.next = f.next
      BY <1>2 DEF Cx4State, Tags
    <3>2. SameCaches(s, z)
      BY <1>2 DEF Cx4State, SameCaches
    <3> HIDE DEF z
    <3> QED
      BY <2>2, <3>1, <3>2 DEF z
  <2> QED
    BY <2>1, <2>2 DEF Capcom!Ordinary
<1>4. PICK x \in Cx4State : /\ Capcom!Ran(x) /\ SameCaches(s, x)
                            /\ x.nextip = f.nextip /\ x.next = f.next
  BY <1>3
<1> HIDE DEF f
<1>5. Kept(x)
  BY <1>4 DEF Kept, SameCaches
<1>6. ASSUME s.run, ~s.stray PROVE InPage(x) /\ InData(x)
  <2>1. InPage(s) /\ InData(s)
    BY <1>6 DEF Cx4Good
  <2>2. s.nextip \in Nat /\ CxWords \in Nat /\ s.nextip <= CxWords + 1
    <3>1. s.nextip \in Nat /\ CxWords \in Nat
      BY <1>1, CxAssumption DEF Cx4State
    <3>2. s.nextip <= CxWords + Past(s.next) /\ Past(s.next) \in 0 .. 1
      BY <1>1, <1>6, <2>1 DEF InData, Past
    <3> QED
      BY <3>1, <3>2
  <2>3. f.next \in {"word", "halt"} /\ f.nextip <= CxWords + Past(f.next)
    BY <1>2, <2>2 DEF Cx4State, Past
  <2>4. f.nextip <= CxWords + 3
    BY <1>2, <2>2
  <2> QED
    BY <1>4, <2>1, <2>3, <2>4 DEF InPage, InData, SameCaches
<1> QED
  BY <1>1, <1>4, <1>5, <1>6, Cx4Ran

LEMMA Cx4Skip ==
  ASSUME Cx4Good(s), Capcom!SKIP_ \/ Capcom!SetIP
  PROVE  Cx4Good(s') /\ Kept(s')
<1> DEFINE f == Capcom!Fetch(s)
<1>1. s \in Cx4State /\ s.next = "word"
  BY DEF Cx4Good, Capcom!SKIP_, Capcom!SetIP, Capcom!Executes
<1>2. /\ f \in Cx4State /\ SameCaches(s, f)
      /\ f.nextip = s.nextip + 1 /\ f.next # "nop"
      /\ f.next = "word" => s.nextip < CxWords
      /\ f.next = "halt" => s.nextip <= CxWords + 1
      /\ f.next = "beyond" => s.nextip > CxWords + 1
  BY <1>1, Cx4Fetch
<1> DEFINE Goes(i, n) == \/ n = "nop" /\ i = f.nextip
                         \/ n = f.next /\ i \in 0 .. CxWords - 1
<1>3. \E x \in Cx4State : Capcom!Ran(x) /\ SameCaches(s, x) /\ Goes(x.nextip, x.next)
  <2>1. CASE Capcom!SKIP_
    <3> DEFINE z == [f EXCEPT !.next = "nop"]
    <3>0. Capcom!Ran(z)
      BY <2>1 DEF Capcom!SKIP_
    <3> HIDE DEF f
    <3>1. z \in Cx4State /\ z.nextip = f.nextip /\ z.next = "nop"
      BY <1>2 DEF Cx4State
    <3>2. SameCaches(s, z)
      BY <1>2 DEF Cx4State, SameCaches
    <3> HIDE DEF z
    <3> QED
      BY <3>0, <3>1, <3>2
  <2>2. CASE Capcom!SetIP
    <3> PICK t \in 0 .. CxWords - 1 : Capcom!Ran([f EXCEPT !.nextip = t])
      BY <2>2 DEF Capcom!SetIP
    <3> DEFINE z == [f EXCEPT !.nextip = t]
    <3> HIDE DEF f
    <3>0. t \in Nat
      BY CxAssumption
    <3>1. z \in Cx4State /\ z.nextip = t /\ z.next = f.next
      BY <1>2, <3>0 DEF Cx4State
    <3>2. SameCaches(s, z)
      BY <1>2 DEF Cx4State, SameCaches
    <3> HIDE DEF z
    <3> QED
      BY <3>1, <3>2 DEF z
  <2> QED
    BY <2>1, <2>2
<1>4. PICK x \in Cx4State : Capcom!Ran(x) /\ SameCaches(s, x) /\ Goes(x.nextip, x.next)
  BY <1>3
<1> HIDE DEF f
<1>5. Kept(x)
  BY <1>4 DEF Kept, SameCaches
<1>6. ASSUME s.run, ~s.stray PROVE InPage(x) /\ InData(x)
  <2>1. InPage(s) /\ InData(s)
    BY <1>6 DEF Cx4Good
  <2>2. s.nextip \in Nat /\ CxWords \in Nat /\ s.nextip <= CxWords
    BY <1>1, <1>6, <2>1, CxAssumption DEF InData, Past, Cx4State
  <2>3. f.next \in {"word", "halt"}
    BY <1>2, <2>2 DEF Cx4State
  <2>4. x.next # "beyond" /\ x.nextip <= CxWords + Past(x.next) /\ x.nextip <= CxWords + 3
    BY <1>2, <1>4, <2>2, <2>3 DEF Past
  <2> QED
    BY <1>4, <2>1, <2>4 DEF InPage, InData, SameCaches
<1> QED
  BY <1>1, <1>4, <1>5, <1>6, Cx4Ran

\* A far transfer of control to page: it lands in that page, or stops.
LEMMA Cx4Far ==
  ASSUME s \in Cx4State, NEW x \in Cx4State, SameCaches(s, x), NEW page \in Tags,
         NEW y, y = [Capcom!CheckCache(x, page) EXCEPT !.at = page]
  PROVE  /\ y \in Cx4State /\ InPage(y) /\ Kept(y)
         /\ y.nextip = x.nextip /\ y.next = x.next
<1> DEFINE c == Capcom!CheckCache(x, page)
<1>1. /\ c \in Cx4State
      /\ c.run => x.run /\ c.tag[c.active] = page
      /\ \A d \in 0 .. 1 : x.locked[d] => c.tag[d] = x.tag[d]
      /\ c.nextip = x.nextip /\ c.next = x.next
  BY Cx4CheckCache
<1>2. y = [c EXCEPT !.at = page]
  OBVIOUS
<1> HIDE DEF c
<1>3. y \in Cx4State
  BY <1>1, <1>2 DEF Cx4State
<1>4. /\ y.run = c.run /\ y.tag = c.tag /\ y.active = c.active /\ y.at = page
      /\ y.nextip = c.nextip /\ y.next = c.next
  BY <1>1, <1>2 DEF Cx4State
<1>5. InPage(y)
  BY <1>1, <1>4 DEF InPage
<1>6. Kept(y)
  BY <1>1, <1>4 DEF Kept, SameCaches
<1> QED
  BY <1>1, <1>3, <1>4, <1>5, <1>6

\* A subroutine's return address.
LEMMA Cx4Pushed ==
  ASSUME s \in Cx4State, NEW x \in Cx4State, NEW y, y = Capcom!Pushed(x)
  PROVE  y \in Cx4State /\ SameCaches(x, y) /\ y.p = x.p /\ y.cycles = x.cycles
<1> DEFINE sp == (x.sp + 1) % CxDepth
           e == <<x.tag[x.active], s.nextip % CxWords>>
           st == [x.stack EXCEPT ![sp] = e]
           z(p, k) == [x EXCEPT !.sp = p, !.stack = k]
<1>0. x.sp \in Nat /\ s.nextip \in Nat
  BY CxAssumption DEF Cx4State
<1>1. sp \in 0 .. CxDepth - 1
  BY <1>0, CxAssumption
<1>2. e \in Tags \X (0 .. CxWords - 1)
  <2>1. s.nextip % CxWords \in 0 .. CxWords - 1
    BY <1>0, CxAssumption
  <2>2. x.tag[x.active] \in Tags
    BY DEF Cx4State
  <2> QED
    BY <2>1, <2>2
<1>3. st \in [0 .. CxDepth - 1 -> Tags \X (0 .. CxWords - 1)]
  <2> HIDE DEF e, sp
  <2> QED
    BY <1>1, <1>2 DEF Cx4State
<1>4. y = z(sp, st)
  <2>1. y = [x EXCEPT !.sp = sp, !.stack[sp] = e]
    BY DEF Capcom!Pushed
  <2> HIDE DEF sp, e
  <2> QED
    BY <2>1 DEF Cx4State
<1>5. \A p \in 0 .. CxDepth - 1, k \in [0 .. CxDepth - 1 -> Tags \X (0 .. CxWords - 1)] :
        z(p, k) \in Cx4State
  BY DEF Cx4State
<1>6. \A p \in 0 .. CxDepth - 1, k \in [0 .. CxDepth - 1 -> Tags \X (0 .. CxWords - 1)] :
        SameCaches(x, z(p, k)) /\ z(p, k).p = x.p /\ z(p, k).cycles = x.cycles
  BY DEF Cx4State, SameCaches
<1> HIDE DEF z, sp, st
<1> QED
  BY <1>1, <1>3, <1>4, <1>5, <1>6

LEMMA Cx4Branch ==
  ASSUME Cx4Good(s), Capcom!Branch
  PROVE  Cx4Good(s') /\ Kept(s')
<1> DEFINE f == Capcom!Fetch(s)
           g(sub) == IF sub THEN Capcom!Pushed(f) ELSE f
           b(sub, t) == [g(sub) EXCEPT !.nextip = t, !.next = "nop", !.cycles = @ - 1]
           x(sub, t, far) == IF far THEN [Capcom!CheckCache(b(sub, t), b(sub, t).p)
                                            EXCEPT !.at = b(sub, t).p]
                             ELSE b(sub, t)
<1>1. s \in Cx4State
  BY DEF Cx4Good
<1>2. f \in Cx4State /\ SameCaches(s, f)
  BY <1>1, Cx4Fetch
<1>3. PICK t \in 0 .. CxWords - 1, far \in BOOLEAN, sub \in BOOLEAN :
        Capcom!Ran(x(sub, t, far))
  BY DEF Capcom!Branch
<1> HIDE DEF f
<1>4. g(sub) \in Cx4State /\ SameCaches(s, g(sub))
  <2>1. Capcom!Pushed(f) \in Cx4State /\ SameCaches(f, Capcom!Pushed(f))
    BY <1>1, <1>2, Cx4Pushed
  <2> QED
    BY <1>2, <2>1 DEF SameCaches
<1> HIDE DEF g
<1>5. /\ b(sub, t) \in Cx4State /\ SameCaches(s, b(sub, t))
      /\ b(sub, t).nextip = t /\ b(sub, t).next = "nop"
  <2>1. t \in Nat
    BY CxAssumption
  <2>2. b(sub, t) \in Cx4State
    <3>1. \A w \in Cx4State, i \in Nat, c \in Int :
            [w EXCEPT !.nextip = i, !.next = "nop", !.cycles = c] \in Cx4State
      BY DEF Cx4State
    <3>2. g(sub).cycles - 1 \in Int
      BY <1>4 DEF Cx4State
    <3> QED
      BY <1>4, <2>1, <3>1, <3>2
  <2>3. SameCaches(s, b(sub, t))
    BY <1>4 DEF Cx4State, SameCaches
  <2>4. b(sub, t).nextip = t /\ b(sub, t).next = "nop"
    BY <1>4 DEF Cx4State
  <2> QED
    BY <2>2, <2>3, <2>4
<1>6. b(sub, t).p \in Tags
  <2> HIDE DEF b
  <2> QED
    BY <1>5 DEF Cx4State
<1> HIDE DEF b
<1>7. /\ x(sub, t, far) \in Cx4State /\ Kept(x(sub, t, far))
      /\ x(sub, t, far).nextip = t /\ x(sub, t, far).next = "nop"
      /\ InPage(s) => InPage(x(sub, t, far))
  <2>1. CASE far
    BY <1>1, <1>5, <1>6, <2>1, Cx4Far
  <2>2. CASE ~far
    BY <1>5, <2>2 DEF Kept, SameCaches, InPage
  <2> QED
    BY <2>1, <2>2
<1> DEFINE y == x(sub, t, far)
<1> HIDE DEF x
<1>8. ASSUME s.run, ~s.stray PROVE InPage(y) /\ InData(y)
  <2>1. InPage(y)
    BY <1>7, <1>8 DEF Cx4Good
  <2>2. InData(y)
    BY <1>7, CxAssumption DEF InData, Past
  <2> QED
    BY <2>1, <2>2
<1> QED
  BY <1>1, <1>3, <1>7, <1>8, Cx4Ran

LEMMA Cx4RTS ==
  ASSUME Cx4Good(s), Capcom!RTS
  PROVE  Cx4Good(s') /\ Kept(s')
<1> DEFINE f == Capcom!Fetch(s)
           r == f.stack[f.sp]
           b(sp, i) == [f EXCEPT !.sp = sp, !.nextip = i, !.next = "nop"]
           sp == (f.sp + CxDepth - 1) % CxDepth
           c == Capcom!CheckCache(b(sp, r[2]), r[1])
           x == [c EXCEPT !.at = r[1]]
           y == [c EXCEPT !.at = r[1], !.cycles = @ - 1]
<1>1. s \in Cx4State
  BY DEF Cx4Good
<1>2. f \in Cx4State /\ SameCaches(s, f)
  BY <1>1, Cx4Fetch
<1>3. Capcom!Ran(y)
  BY DEF Capcom!RTS
<1> HIDE DEF f
<1>4. /\ r[1] \in Tags /\ r[2] \in 0 .. CxWords - 1 /\ r[2] \in Nat
      /\ sp \in 0 .. CxDepth - 1
  <2>1. f.sp \in 0 .. CxDepth - 1 /\ f.stack \in [0 .. CxDepth - 1 -> Tags \X (0 .. CxWords - 1)]
    BY <1>2 DEF Cx4State
  <2>2. r \in Tags \X (0 .. CxWords - 1)
    BY <2>1
  <2>3. sp \in 0 .. CxDepth - 1
    BY <2>1, CxAssumption
  <2> QED
    BY <2>2, <2>3, CxAssumption
<1> HIDE DEF r, sp
<1>5. /\ b(sp, r[2]) \in Cx4State /\ SameCaches(s, b(sp, r[2]))
      /\ b(sp, r[2]).nextip = r[2] /\ b(sp, r[2]).next = "nop"
  <2>2. b(sp, r[2]) \in Cx4State
    BY <1>2, <1>4 DEF Cx4State
  <2>3. SameCaches(s, b(sp, r[2]))
    BY <1>2 DEF Cx4State, SameCaches
  <2>4. b(sp, r[2]).nextip = r[2] /\ b(sp, r[2]).next = "nop"
    BY <1>2 DEF Cx4State
  <2> QED
    BY <2>2, <2>3, <2>4
<1> HIDE DEF b
<1>6. /\ x \in Cx4State /\ InPage(x) /\ Kept(x)
      /\ x.nextip = r[2] /\ x.next = "nop"
  BY <1>1, <1>4, <1>5, Cx4Far
<1>7. y = [x EXCEPT !.cycles = @ - 1]
  BY <1>4, <1>5, Cx4CheckCache DEF Cx4State
<1> HIDE DEF x, y
<1>8. y \in Cx4State
  BY <1>6, <1>7 DEF Cx4State
<1>9. /\ y.run = x.run /\ y.tag = x.tag /\ y.active = x.active /\ y.at = x.at
      /\ y.nextip = x.nextip /\ y.next = x.next
  BY <1>6, <1>7 DEF Cx4State
<1>10. InPage(y) /\ Kept(y)
  BY <1>6, <1>9 DEF InPage, Kept
<1>11. InData(y)
  BY <1>4, <1>6, <1>9, CxAssumption DEF InData, Past
<1> QED
  BY <1>1, <1>3, <1>8, <1>10, <1>11, Cx4Ran

LEMMA Cx4Halt ==
  ASSUME Cx4Good(s), Capcom!Halt
  PROVE  Cx4Good(s') /\ Kept(s')
<1> DEFINE f == Capcom!Fetch(s)
           x(c) == [f EXCEPT !.run = FALSE, !.cycles = c]
           c == IF s.cycles > 1 THEN 0 ELSE f.cycles
<1>1. s \in Cx4State /\ s.next \in {"word", "halt"}
  BY DEF Cx4Good, Capcom!Halt, Capcom!Executes
<1>2. f \in Cx4State /\ SameCaches(s, f) /\ f.nextip = s.nextip + 1
  BY <1>1, Cx4Fetch
<1>3. Capcom!Ran(x(c))
  BY DEF Capcom!Halt
<1> HIDE DEF f
<1>4. c \in Int
  BY <1>2 DEF Cx4State
<1> HIDE DEF c
<1>5. x(c) \in Cx4State
  BY <1>2, <1>4 DEF Cx4State
<1>6. x(c).nextip = f.nextip /\ x(c).next = f.next /\ ~x(c).run /\ x(c).tag = s.tag
  BY <1>2 DEF Cx4State, SameCaches
<1> HIDE DEF x
<1>7. Kept(x(c)) /\ InPage(x(c))
  BY <1>6 DEF Kept, InPage
<1>8. ASSUME s.run, ~s.stray PROVE InData(x(c))
  <2>1. InData(s)
    BY <1>8 DEF Cx4Good
  <2>2. s.nextip \in Nat /\ CxWords \in Nat
    BY <1>1, CxAssumption DEF Cx4State
  <2>3. s.nextip <= CxWords + Past(s.next) /\ Past(s.next) \in {0, 2}
    BY <1>1, <1>8, <2>1 DEF InData, Past
  <2>4. f.nextip <= CxWords + 3
    BY <1>2, <2>2, <2>3
  <2> QED
    BY <1>6, <2>4 DEF InData
<1> QED
  BY <1>1, <1>3, <1>5, <1>7, <1>8, Cx4Ran

\* Steps that leave the program and its caches alone.
LEMMA Cx4Aside ==
  ASSUME Cx4Good(s), NEW d \in BOOLEAN, NEW c \in Int, NEW p \in Tags,
         NEW l \in [0 .. 1 -> BOOLEAN],
         s' = [s EXCEPT !.dma = d, !.cycles = c, !.p = p, !.locked = l]
  PROVE  Cx4Good(s') /\ Kept(s')
<1> DEFINE z == [s EXCEPT !.dma = d, !.cycles = c, !.p = p, !.locked = l]
<1>1. s \in Cx4State /\ (~s.stray => InPage(s) /\ InData(s))
  BY DEF Cx4Good
<1>2. z \in Cx4State
  BY <1>1 DEF Cx4State
<1>3. z.stray = s.stray /\ z.run = s.run /\ z.tag = s.tag /\ z.active = s.active /\ z.at = s.at
  BY <1>1 DEF Cx4State
<1>4. z.nextip = s.nextip /\ z.next = s.next
  BY <1>1 DEF Cx4State
<1>5. s' = z
  OBVIOUS
<1> HIDE DEF z
<1> QED
  BY <1>1, <1>2, <1>3, <1>4, <1>5 DEF Cx4Good, InPage, InData, Kept

\* Update: the chip runs.
LEMMA Cx4Update ==
  ASSUME Cx4Good(s), Capcom!Update
  PROVE  Cx4Good(s') /\ Kept(s')
<1>1. /\ s \in Cx4State
      /\ s.dma \in BOOLEAN /\ s.cycles \in Int /\ s.p \in Tags /\ s.locked \in [0 .. 1 -> BOOLEAN]
  BY DEF Cx4Good, Cx4State
<1>2. CASE Capcom!DmaByte
  <2>1. s' = [s EXCEPT !.cycles = s.cycles - 1]
    BY <1>2 DEF Capcom!DmaByte
  <2>2. s.cycles - 1 \in Int
    BY <1>1
  <2> DEFINE c == s.cycles - 1
  <2> HIDE DEF c
  <2>3. s' = [s EXCEPT !.dma = s.dma, !.cycles = c, !.p = s.p, !.locked = s.locked]
    BY <1>1, <2>1 DEF Cx4State, c
  <2> QED
    BY <1>1, <2>2, <2>3, Cx4Aside DEF c
<1>3. CASE Capcom!DmaEnd
  <2>1. s' = [s EXCEPT !.dma = FALSE, !.cycles = s.cycles, !.p = s.p, !.locked = s.locked]
    BY <1>1, <1>3 DEF Capcom!DmaEnd, Cx4State
  <2> QED
    BY <1>1, <2>1, Cx4Aside
<1> QED
  BY <1>2, <1>3, Cx4Ordinary, Cx4Skip, Cx4Branch, Cx4RTS, Cx4Halt DEF Capcom!Update

\* The main CPU starts a program, or has a page loaded.
LEMMA Cx4Load ==
  ASSUME Cx4Good(s), Capcom!WriteIP \/ Capcom!WriteCachePage
  PROVE  Cx4Good(s')
<1> DEFINE z(a, t, i, n, r) == [s EXCEPT !.active = a, !.tag = t, !.nextip = i, !.next = n,
                                         !.run = r, !.at = s.p]
           t(a) == [s.tag EXCEPT ![a] = s.p]
<1>1. /\ s \in Cx4State /\ (~s.stray => InPage(s) /\ InData(s))
      /\ s.active \in 0 .. 1 /\ s.tag \in [0 .. 1 -> Tags] /\ s.p \in Tags /\ s.run \in BOOLEAN
      /\ s.nextip \in Nat /\ s.next \in {"nop", "word", "halt", "beyond"}
  BY DEF Cx4Good, Cx4State
<1>2. \A a \in 0 .. 1, i \in Nat, n \in {"nop", "word", "halt", "beyond"}, r \in BOOLEAN :
        /\ z(a, t(a), i, n, r) \in Cx4State
        /\ InPage(z(a, t(a), i, n, r))
        /\ LET y == z(a, t(a), i, n, r)
           IN  y.nextip = i /\ y.next = n /\ y.run = r /\ y.stray = s.stray
  <2> SUFFICES ASSUME NEW a \in 0 .. 1, NEW i \in Nat, NEW n \in {"nop", "word", "halt", "beyond"},
                      NEW r \in BOOLEAN
               PROVE  /\ z(a, t(a), i, n, r) \in Cx4State
                      /\ InPage(z(a, t(a), i, n, r))
                      /\ LET y == z(a, t(a), i, n, r)
                         IN  y.nextip = i /\ y.next = n /\ y.run = r /\ y.stray = s.stray
    OBVIOUS
  <2> DEFINE u == t(a)
  <2>1. u \in [0 .. 1 -> Tags] /\ u[a] = s.p
    BY <1>1
  <2> HIDE DEF u
  <2>2. z(a, u, i, n, r) \in Cx4State
    BY <1>1, <2>1 DEF Cx4State
  <2>3. /\ z(a, u, i, n, r).tag = u /\ z(a, u, i, n, r).active = a
        /\ z(a, u, i, n, r).at = s.p
    BY <1>1 DEF Cx4State
  <2>4. /\ z(a, u, i, n, r).nextip = i /\ z(a, u, i, n, r).next = n
        /\ z(a, u, i, n, r).run = r /\ z(a, u, i, n, r).stray = s.stray
    BY <1>1 DEF Cx4State
  <2>5. InPage(z(a, u, i, n, r))
    BY <2>1, <2>3 DEF InPage
  <2> QED
    BY <2>2, <2>4, <2>5 DEF u
<1> HIDE DEF z, t
<1>3. CASE Capcom!WriteIP
  <2>0. PICK i \in 0 .. CxWords - 1, r \in BOOLEAN :
        s' = [Capcom!LoadCache(s, s.p) EXCEPT !.nextip = i, !.next = "nop",
                                              !.run = r, !.at = s.p]
    BY <1>3 DEF Capcom!WriteIP
  <2> DEFINE y == z(s.active, t(s.active), i, "nop", r)
  <2>1. s' = y
    BY <1>1, <2>0 DEF Capcom!LoadCache, Cx4State, z, t
  <2>2. i \in Nat /\ CxWords \in Nat /\ i < CxWords
    BY CxAssumption
  <2>3. /\ y \in Cx4State /\ InPage(y)
        /\ y.nextip = i /\ y.next = "nop"
    <3>1. s.active \in 0 .. 1
      BY <1>1
    <3> QED
      BY <1>2, <2>2, <3>1
  <2> HIDE DEF y
  <2>4. InData(y)
    BY <2>2, <2>3 DEF InData, Past
  <2> QED
    BY <2>1, <2>3, <2>4 DEF Cx4Good
<1>4. CASE Capcom!WriteCachePage
  <2>0. PICK a \in 0 .. 1 :
        s' = [Capcom!LoadCache([s EXCEPT !.active = a], s.p) EXCEPT !.at = s.p]
    BY <1>4 DEF Capcom!WriteCachePage
  <2> DEFINE y == z(a, t(a), s.nextip, s.next, s.run)
  <2>1. s' = y
    BY <1>1, <2>0 DEF Capcom!LoadCache, Cx4State, z, t
  <2>2. /\ y \in Cx4State /\ InPage(y)
        /\ y.nextip = s.nextip /\ y.next = s.next /\ y.run = s.run /\ y.stray = s.stray
    BY <1>1, <1>2
  <2> HIDE DEF y
  <2> QED
    BY <1>1, <2>1, <2>2 DEF Cx4Good, InData
<1> QED
  BY <1>3, <1>4

LEMMA Cx4Powered == Cx4Good(Capcom!PowerOn)
<1> DEFINE y == Capcom!PowerOn
<1>1. /\ 0 \in Tags /\ -1 \in Tags
      /\ 0 \in 0 .. CxDepth - 1 /\ 0 \in 0 .. CxWords - 1 /\ CxWords \in Nat
  BY CxAssumption DEF Tags
<1>2. y \in Cx4State
  BY <1>1 DEF Capcom!PowerOn, Capcom!None, Cx4State
<1>3. ~y.run /\ y.nextip = 0
  BY DEF Capcom!PowerOn
<1> HIDE DEF y
<1>4. InPage(y) /\ InData(y)
  BY <1>1, <1>3 DEF InPage, InData
<1> QED
  BY <1>2, <1>4 DEF Cx4Good, y

LEMMA Cx4MainCPU ==
  ASSUME Cx4Good(s), Capcom!MainCPU
  PROVE  Cx4Good(s')
<1>1. /\ s \in Cx4State /\ (~s.stray => InPage(s) /\ InData(s))
      /\ s.dma \in BOOLEAN /\ s.cycles \in Int /\ s.p \in Tags /\ s.locked \in [0 .. 1 -> BOOLEAN]
      /\ s.nextip \in Nat
  BY DEF Cx4Good, Cx4State
<1>2. CASE Capcom!Pass
  <2>0. PICK e \in 1 .. CxElapse :
        s' = [s EXCEPT !.cycles = IF s.run \/ s.dma THEN @ + e ELSE 0]
    BY <1>2 DEF Capcom!Pass
  <2> DEFINE c == IF s.run \/ s.dma THEN s.cycles + e ELSE 0
  <2>1. c \in Int
    BY <1>1, CxAssumption
  <2>2. s' = [s EXCEPT !.cycles = c]
    BY <2>0
  <2> HIDE DEF c
  <2>3. s' = [s EXCEPT !.dma = s.dma, !.cycles = c, !.p = s.p, !.locked = s.locked]
    BY <1>1, <2>2 DEF Cx4State
  <2> QED
    BY <1>1, <2>1, <2>3, Cx4Aside
<1>3. CASE Capcom!WriteCacheLock
  <2>0. PICK l \in [0 .. 1 -> BOOLEAN] : s' = [s EXCEPT !.locked = l]
    BY <1>3 DEF Capcom!WriteCacheLock
  <2>1. s' = [s EXCEPT !.dma = s.dma, !.cycles = s.cycles, !.p = s.p, !.locked = l]
    BY <1>1, <2>0 DEF Cx4State
  <2> QED
    BY <1>1, <2>1, Cx4Aside
<1>4. CASE Capcom!WriteProgROMPage
  <2>0. PICK p \in CxPages : s' = [s EXCEPT !.p = p]
    BY <1>4 DEF Capcom!WriteProgROMPage
  <2>1. s' = [s EXCEPT !.dma = s.dma, !.cycles = s.cycles, !.p = p, !.locked = s.locked]
    BY <1>1, <2>0 DEF Cx4State
  <2>2. p \in Tags
    BY DEF Tags
  <2> QED
    BY <1>1, <2>1, <2>2, Cx4Aside
<1>5. CASE Capcom!StartDMA
  <2>1. s' = [s EXCEPT !.dma = TRUE, !.cycles = s.cycles, !.p = s.p, !.locked = s.locked]
    BY <1>1, <1>5 DEF Capcom!StartDMA, Cx4State
  <2> QED
    BY <1>1, <2>1, Cx4Aside
<1>6. CASE Capcom!Reset
  BY <1>6, Cx4Powered DEF Capcom!Reset
<1>7. CASE Capcom!LoadState
  <2> DEFINE i == IF s.nextip > CxWords + 1 THEN CxWords + 1 ELSE s.nextip
             y == [s EXCEPT !.nextip = i]
  <2>1. s' = y
    BY <1>1, <1>7 DEF Capcom!LoadState
  <2>2. i \in Nat /\ i <= s.nextip /\ i <= CxWords + 1 /\ CxWords \in Nat
    BY <1>1, CxAssumption
  <2> HIDE DEF i
  <2>3. y \in Cx4State
    BY <1>1, <2>2 DEF Cx4State
  <2>4. /\ y.stray = s.stray /\ y.run = s.run /\ y.tag = s.tag /\ y.active = s.active
        /\ y.at = s.at /\ y.nextip = i /\ y.next = s.next
    BY <1>1 DEF Cx4State
  <2> HIDE DEF y
  <2>5. InPage(s) => InPage(y)
    BY <2>4 DEF InPage
  <2>6. InData(s) => InData(y)
    BY <1>1, <2>2, <2>4 DEF InData, Past
  <2> QED
    BY <1>1, <2>1, <2>3, <2>4, <2>5, <2>6 DEF Cx4Good
<1> QED
  BY <1>2, <1>3, <1>4, <1>5, <1>6, <1>7, Cx4Load DEF Capcom!MainCPU

----------------------------------------------------------------------------
(* The SA-1.                                                               *)

SaBits == {"irq", "dma", "nmi"}
SaMainBits == {"irq", "dma"}
Sa1State ==
  [phase : {"main", "loop", "run"}, lead : Int, next : Int, finish : Int,
   held : BOOLEAN, halted : {"dma", "not", "wai", "stp"}, fresh : BOOLEAN,
   enable : SUBSET SaBits, pending : SUBSET SaBits,
   irqLine : BOOLEAN, nmiLine : BOOLEAN, edge : BOOLEAN,
   mainEnable : SUBSET SaMainBits, mainPending : SUBSET SaMainBits, mainLine : BOOLEAN,
   stuck : BOOLEAN, sent : BOOLEAN]

\* The lines; an NMI line without an NMI is one a reset of the console left.
MainLine(x) == x.mainLine <=> x.mainPending # {}
IrqLine(x)  == ~x.held => (x.irqLine <=> x.pending \ {"nmi"} # {})
NmiLine(x)  == /\ "nmi" \in x.pending => x.nmiLine
               /\ x.nmiLine => "nmi" \in x.pending \/ x.stuck
\* A held SA-1 has brought its time to the next event before it could execute.
Still(x)    == /\ x.held <=> x.halted = "dma"
               /\ x.phase = "run" /\ x.held => x.lead >= x.next
Ended(x)    == x.phase = "main" => x.finish >= 0
\* An NMI just sent has not been taken, as the SA-1 has not run since.
Reaches(x)  == /\ x.sent /\ ~x.held /\ ~x.fresh /\ ~x.stuck => x.edge
               /\ x.phase # "main" => ~x.sent
Sa1Good(x)  == /\ x \in Sa1State
               /\ MainLine(x) /\ IrqLine(x) /\ NmiLine(x)
               /\ Still(x) /\ Ended(x) /\ Reaches(x)


\* What the SA-1's core executes with.
LinesGood(x) == MainLine(x) /\ IrqLine(x) /\ NmiLine(x)
SameRun(x, y) == /\ y.phase = x.phase /\ y.held = x.held /\ y.halted = x.halted
                 /\ y.lead = x.lead /\ y.next = x.next /\ y.sent = x.sent

LEMMA Sa1SetNMI ==
  ASSUME NEW x \in Sa1State, NEW y, y = Super!CPU_SetNMI(x)
  PROVE  /\ y \in Sa1State /\ SameRun(x, y) /\ NmiLine(y)
         /\ y.pending = x.pending /\ y.irqLine = x.irqLine
         /\ y.mainLine = x.mainLine /\ y.mainPending = x.mainPending
         /\ y.finish = x.finish /\ y.fresh = x.fresh
         /\ "nmi" \in x.pending => (~x.nmiLine => y.edge) /\ (x.stuck => y.stuck)
<1> DEFINE up == "nmi" \in x.pending
           z(e, n, k) == [x EXCEPT !.edge = e, !.nmiLine = n, !.stuck = k]
           e == x.edge \/ (up /\ ~x.nmiLine)
           k == x.stuck /\ up
<1>1. y = z(e, up, k)
  BY DEF Super!CPU_SetNMI
<1>2. e \in BOOLEAN /\ up \in BOOLEAN /\ k \in BOOLEAN
  BY DEF Sa1State
<1> HIDE DEF e, k
<1>3. y \in Sa1State
  BY <1>1, <1>2 DEF Sa1State
<1>4. SameRun(x, y)
  BY <1>1 DEF Sa1State, SameRun
<1>5. /\ y.pending = x.pending /\ y.irqLine = x.irqLine
      /\ y.mainLine = x.mainLine /\ y.mainPending = x.mainPending
      /\ y.finish = x.finish /\ y.fresh = x.fresh
  BY <1>1 DEF Sa1State
<1>6. y.nmiLine = up
  BY <1>1 DEF Sa1State
<1>7. NmiLine(y)
  BY <1>5, <1>6 DEF NmiLine
<1>8. "nmi" \in x.pending => (~x.nmiLine => y.edge) /\ (x.stuck => y.stuck)
  <2>1. y.edge = e /\ y.stuck = k
    BY <1>1 DEF Sa1State
  <2> QED
    BY <2>1 DEF e, k
<1> QED
  BY <1>3, <1>4, <1>5, <1>7, <1>8

LEMMA Sa1SetIRQ ==
  ASSUME NEW x \in Sa1State, NEW y, y = Super!CPU_SetIRQ(x)
  PROVE  /\ y \in Sa1State /\ SameRun(x, y) /\ IrqLine(y)
         /\ y.pending = x.pending /\ y.nmiLine = x.nmiLine /\ y.stuck = x.stuck
         /\ y.mainLine = x.mainLine /\ y.mainPending = x.mainPending
         /\ y.finish = x.finish /\ y.fresh = x.fresh /\ y.edge = x.edge
<1> DEFINE up == x.pending \ {"nmi"} # {}
           z(u) == [x EXCEPT !.irqLine = u]
<1>1. y = z(up)
  BY DEF Super!CPU_SetIRQ
<1>2. up \in BOOLEAN
  OBVIOUS
<1> HIDE DEF up
<1>3. y \in Sa1State
  BY <1>1, <1>2 DEF Sa1State
<1>4. SameRun(x, y)
  BY <1>1 DEF Sa1State, SameRun
<1>5. /\ y.pending = x.pending /\ y.nmiLine = x.nmiLine /\ y.stuck = x.stuck
      /\ y.mainLine = x.mainLine /\ y.mainPending = x.mainPending
      /\ y.finish = x.finish /\ y.fresh = x.fresh /\ y.edge = x.edge
  BY <1>1 DEF Sa1State
<1>6. y.irqLine = up
  BY <1>1 DEF Sa1State
<1>7. IrqLine(y)
  BY <1>5, <1>6 DEF IrqLine, up
<1> QED
  BY <1>3, <1>4, <1>5, <1>7

LEMMA Sa1MainRaise ==
  ASSUME NEW x \in Sa1State, NEW bit \in SaMainBits, NEW y, y = Super!MainRaise(x, bit)
  PROVE  /\ y \in Sa1State /\ SameRun(x, y) /\ MainLine(y)
         /\ y.pending = x.pending /\ y.nmiLine = x.nmiLine /\ y.stuck = x.stuck
         /\ y.irqLine = x.irqLine
         /\ y.finish = x.finish /\ y.fresh = x.fresh /\ y.edge = x.edge
<1> DEFINE p == x.mainPending \cup ({bit} \cap x.mainEnable)
           z(u) == [x EXCEPT !.mainPending = p, !.mainLine = u]
           up == p # {}
<1>1. y = z(up)
  <2> DEFINE w == [x EXCEPT !.mainPending = p]
  <2>1. y = [w EXCEPT !.mainLine = w.mainPending # {}]
    BY DEF Super!MainRaise, Super!Main_SetIRQ
  <2>2. w.mainPending = p
    BY DEF Sa1State
  <2> HIDE DEF p
  <2> QED
    BY <2>1, <2>2 DEF Sa1State
<1>2. up \in BOOLEAN /\ p \in SUBSET SaMainBits
  BY DEF Sa1State
<1> HIDE DEF up, p
<1>3. y \in Sa1State
  BY <1>1, <1>2 DEF Sa1State
<1>4. SameRun(x, y)
  BY <1>1 DEF Sa1State, SameRun
<1>5. /\ y.pending = x.pending /\ y.nmiLine = x.nmiLine /\ y.stuck = x.stuck
      /\ y.irqLine = x.irqLine
      /\ y.finish = x.finish /\ y.fresh = x.fresh /\ y.edge = x.edge
  BY <1>1 DEF Sa1State
<1>6. y.mainLine = up /\ y.mainPending = p
  BY <1>1 DEF Sa1State
<1>7. MainLine(y)
  BY <1>6 DEF MainLine, up
<1> QED
  BY <1>3, <1>4, <1>5, <1>7

\* An instruction, whatever it wrote.
LEMMA Sa1Takes ==
  ASSUME Sa1Good(s), Super!Runs, NEW t \in Sa1State, LinesGood(t), SameRun(s, t),
         Super!Takes(t)
  PROVE  Sa1Good(s')
<1>1. PICK cost \in 1 .. SaCost : s' = [t EXCEPT !.lead = t.lead + cost]
  BY DEF Super!Takes
<1> DEFINE l == t.lead + cost
           z == [t EXCEPT !.lead = l]
<1>2. l \in Int
  BY SaAssumption DEF Sa1State
<1> HIDE DEF l
<1>3. z \in Sa1State
  BY <1>2 DEF Sa1State
<1>4. /\ z.mainLine = t.mainLine /\ z.mainPending = t.mainPending
      /\ z.irqLine = t.irqLine /\ z.pending = t.pending
      /\ z.nmiLine = t.nmiLine /\ z.stuck = t.stuck
  BY DEF Sa1State
<1>5. z.phase = s.phase /\ z.held = s.held /\ z.halted = s.halted /\ z.sent = s.sent
  BY DEF Sa1State, SameRun
<1>6. s' = z
  BY <1>1 DEF l
<1> HIDE DEF z
<1>7. s.phase = "run" /\ ~s.held /\ ~s.sent /\ s.halted # "dma"
  <2>1. s.lead \in Int /\ s.next \in Int /\ s.lead < s.next /\ s.phase = "run"
    BY DEF Sa1Good, Sa1State, Super!Runs
  <2> QED
    BY <2>1 DEF Sa1Good, Still, Reaches
<1>8. MainLine(z) /\ IrqLine(z) /\ NmiLine(z)
  BY <1>4, <1>5, <1>7 DEF LinesGood, MainLine, IrqLine, NmiLine, SameRun
<1>9. Still(z) /\ Ended(z) /\ Reaches(z)
  BY <1>5, <1>7 DEF Still, Ended, Reaches
<1> QED
  BY <1>3, <1>6, <1>8, <1>9 DEF Sa1Good

LEMMA Sa1Instructions ==
  ASSUME Sa1Good(s),
         \/ Super!TakeReset \/ Super!Ordinary \/ Super!TakeNMI
         \/ Super!WriteMainControl \/ Super!WriteEnable \/ Super!WriteClear \/ Super!StartDMA
  PROVE  Sa1Good(s')
<1>1. s \in Sa1State /\ LinesGood(s) /\ SameRun(s, s)
  BY DEF Sa1Good, LinesGood, SameRun
<1>2. Super!Runs
  BY DEF Super!TakeReset, Super!Ordinary, Super!TakeNMI, Super!WriteMainControl,
         Super!WriteEnable, Super!WriteClear, Super!StartDMA, Super!Fetched
<1> DEFINE z(f, e, n, d) == [s EXCEPT !.fresh = f, !.edge = e, !.enable = n, !.finish = d]
<1>3. \A f \in BOOLEAN, e \in BOOLEAN, n \in SUBSET SaBits, d \in Int :
        Super!Takes(z(f, e, n, d)) => Sa1Good(s')
  <2> SUFFICES ASSUME NEW f \in BOOLEAN, NEW e \in BOOLEAN, NEW n \in SUBSET SaBits, NEW d \in Int,
                      Super!Takes(z(f, e, n, d))
               PROVE  Sa1Good(s')
    OBVIOUS
  <2> DEFINE t == z(f, e, n, d)
  <2>1. t \in Sa1State
    BY <1>1 DEF Sa1State
  <2>2. SameRun(s, t)
    BY <1>1 DEF Sa1State, SameRun
  <2>3. /\ t.mainLine = s.mainLine /\ t.mainPending = s.mainPending
        /\ t.irqLine = s.irqLine /\ t.pending = s.pending
        /\ t.nmiLine = s.nmiLine /\ t.stuck = s.stuck /\ t.held = s.held
    BY <1>1 DEF Sa1State
  <2> HIDE DEF z
  <2>4. LinesGood(t)
    BY <1>1, <2>3 DEF LinesGood, MainLine, IrqLine, NmiLine
  <2> QED
    BY <1>2, <2>1, <2>2, <2>4, Sa1Takes
<1>4. /\ s.fresh \in BOOLEAN /\ s.edge \in BOOLEAN /\ s.enable \in SUBSET SaBits /\ s.finish \in Int
      /\ s.pending \in SUBSET SaBits /\ s.lead \in Int
  BY <1>1 DEF Sa1State
<1>5. CASE Super!TakeReset
  <2>1. [s EXCEPT !.fresh = FALSE] = z(FALSE, s.edge, s.enable, s.finish)
    BY <1>1 DEF Sa1State
  <2> HIDE DEF z
  <2>2. Super!Takes(z(FALSE, s.edge, s.enable, s.finish))
    BY <1>5, <2>1 DEF Super!TakeReset
  <2>3. \E f \in BOOLEAN : Super!Takes(z(f, s.edge, s.enable, s.finish))
    BY <2>2, Zenon
  <2> QED
    BY <1>3, <1>4, <2>3
<1>6. CASE Super!Ordinary
  BY <1>1, <1>2, <1>6, Sa1Takes DEF Super!Ordinary
<1>7. CASE Super!TakeNMI
  <2>1. [s EXCEPT !.edge = FALSE] = z(s.fresh, FALSE, s.enable, s.finish)
    BY <1>1 DEF Sa1State
  <2> HIDE DEF z
  <2>2. Super!Takes(z(s.fresh, FALSE, s.enable, s.finish))
    BY <1>7, <2>1 DEF Super!TakeNMI
  <2>3. \E e \in BOOLEAN : Super!Takes(z(s.fresh, e, s.enable, s.finish))
    BY <2>2, Zenon
  <2> QED
    BY <1>3, <1>4, <2>3
<1>8. CASE Super!WriteEnable
  <2>1. PICK n \in SUBSET SaBits : Super!Takes([s EXCEPT !.enable = n])
    BY <1>8 DEF Super!WriteEnable, SaBits
  <2>2. [s EXCEPT !.enable = n] = z(s.fresh, s.edge, n, s.finish)
    BY <1>1 DEF Sa1State
  <2> HIDE DEF z
  <2> QED
    BY <1>3, <1>4, <2>1, <2>2
<1>9. ASSUME NEW n \in 0 .. SaLength, Super!Takes(Super!RunNormal(s, s.lead, n))
      PROVE  Sa1Good(s')
  <2>1. Super!RunNormal(s, s.lead, n) = z(s.fresh, s.edge, s.enable, s.lead + n)
    BY <1>1 DEF Sa1State, Super!RunNormal
  <2>2. s.lead + n \in Int
    BY <1>4, SaAssumption
  <2> HIDE DEF z
  <2> QED
    BY <1>3, <1>4, <1>9, <2>1, <2>2
<1>10. ASSUME NEW bit \in SaMainBits, Super!Takes(Super!MainRaise(s, bit))
       PROVE  Sa1Good(s')
  <2> DEFINE t == Super!MainRaise(s, bit)
  <2>1. /\ t \in Sa1State /\ SameRun(s, t) /\ MainLine(t)
        /\ t.pending = s.pending /\ t.nmiLine = s.nmiLine /\ t.stuck = s.stuck
        /\ t.irqLine = s.irqLine
    BY <1>1, Sa1MainRaise
  <2>2. Super!Takes(t)
    BY <1>10
  <2> HIDE DEF t
  <2>3. LinesGood(t)
    BY <1>1, <2>1 DEF LinesGood, IrqLine, NmiLine, SameRun
  <2> QED
    BY <1>2, <2>1, <2>2, <2>3, Sa1Takes
<1>11. CASE Super!WriteMainControl
  BY <1>10, <1>11 DEF Super!WriteMainControl, SaMainBits
<1>12. CASE Super!StartDMA
  BY <1>9, <1>10, <1>12 DEF Super!StartDMA, Super!CharConv, SaMainBits
<1>13. CASE Super!WriteClear
  <2>1. PICK c \in SUBSET s.pending :
          Super!Takes(Super!CPU_SetIRQ(Super!CPU_SetNMI([s EXCEPT !.pending = s.pending \ c])))
    BY <1>13 DEF Super!WriteClear
  <2> DEFINE x == [s EXCEPT !.pending = s.pending \ c]
             n == Super!CPU_SetNMI(x)
             t == Super!CPU_SetIRQ(n)
  <2>2. x \in Sa1State
    BY <1>1, <1>4 DEF Sa1State
  <2>3. x.mainLine = s.mainLine /\ x.mainPending = s.mainPending /\ SameRun(s, x)
    BY <1>1 DEF Sa1State, SameRun
  <2> HIDE DEF x
  <2>4. /\ n \in Sa1State /\ SameRun(x, n) /\ NmiLine(n)
        /\ n.mainLine = x.mainLine /\ n.mainPending = x.mainPending
    BY <2>2, Sa1SetNMI
  <2> HIDE DEF n
  <2>5. /\ t \in Sa1State /\ SameRun(n, t) /\ IrqLine(t)
        /\ t.pending = n.pending /\ t.nmiLine = n.nmiLine /\ t.stuck = n.stuck
        /\ t.mainLine = n.mainLine /\ t.mainPending = n.mainPending
    BY <2>4, Sa1SetIRQ
  <2>6. Super!Takes(t)
    BY <2>1 DEF n, x
  <2> HIDE DEF t
  <2>7. LinesGood(t)
    BY <1>1, <2>3, <2>4, <2>5 DEF LinesGood, MainLine, NmiLine
  <2>8. SameRun(s, t)
    BY <2>3, <2>4, <2>5 DEF SameRun
  <2> QED
    BY <1>2, <2>5, <2>6, <2>7, <2>8, Sa1Takes
<1> QED
  BY <1>5, <1>6, <1>7, <1>8, <1>11, <1>12, <1>13

\* Time passes and the loop goes on, with the lines as they are.
LEMMA Sa1Clock ==
  ASSUME NEW x \in Sa1State, LinesGood(x),
         NEW p \in {"main", "loop", "run"}, NEW l \in Int, NEW n \in Int, NEW f \in Int,
         NEW h \in {"dma", "not", "wai", "stp"},
         x.held <=> h = "dma", p = "run" /\ x.held => l >= n, p = "main" => f >= 0,
         s' = [x EXCEPT !.phase = p, !.lead = l, !.next = n, !.finish = f, !.halted = h,
                        !.sent = FALSE]
  PROVE  Sa1Good(s')
<1> DEFINE z == [x EXCEPT !.phase = p, !.lead = l, !.next = n, !.finish = f, !.halted = h,
                        !.sent = FALSE]
<1>1. z \in Sa1State
  BY DEF Sa1State
<1>2. /\ z.mainLine = x.mainLine /\ z.mainPending = x.mainPending
      /\ z.irqLine = x.irqLine /\ z.pending = x.pending
      /\ z.nmiLine = x.nmiLine /\ z.stuck = x.stuck /\ z.held = x.held
  BY DEF Sa1State
<1>3. /\ z.phase = p /\ z.lead = l /\ z.next = n /\ z.finish = f /\ z.halted = h /\ ~z.sent
  BY DEF Sa1State
<1> HIDE DEF z
<1>4. LinesGood(z)
  BY <1>2 DEF LinesGood, MainLine, IrqLine, NmiLine
<1>5. Still(z) /\ Ended(z)
  BY <1>2, <1>3 DEF Still, Ended
<1>6. Reaches(z)
  BY <1>3 DEF Reaches
<1> QED
  BY <1>1, <1>4, <1>5, <1>6 DEF Sa1Good, LinesGood, z

LEMMA Sa1Loop ==
  ASSUME Sa1Good(s), Super!Head \/ Super!WAI \/ Super!STP \/ Super!Update
  PROVE  Sa1Good(s')
<1>1. /\ s \in Sa1State /\ LinesGood(s)
      /\ s.phase # "main" => ~s.sent
      /\ s.held <=> s.halted = "dma"
  BY DEF Sa1Good, LinesGood, Reaches, Still
<1>2. /\ s.lead \in Int /\ s.next \in Int /\ s.finish \in Int
      /\ s.halted \in {"dma", "not", "wai", "stp"} /\ s.held \in BOOLEAN /\ s.sent \in BOOLEAN
  BY <1>1 DEF Sa1State
<1> DEFINE z(p, l, n, f, h) ==
             [s EXCEPT !.phase = p, !.lead = l, !.next = n, !.finish = f, !.halted = h,
                       !.sent = FALSE]
<1>3. ASSUME NEW p \in {"main", "loop", "run"}, NEW l \in Int, NEW n \in Int, NEW f \in Int,
             NEW h \in {"dma", "not", "wai", "stp"}, s' = z(p, l, n, f, h),
             s.held <=> h = "dma", p = "run" /\ s.held => l >= n, p # "main"
      PROVE  Sa1Good(s')
  BY <1>1, <1>3, Sa1Clock
<1>4. ASSUME s.phase # "main"
      PROVE  s.sent = FALSE
  BY <1>1, <1>2, <1>4
<1>5. CASE Super!Head
  <2>0. s.phase = "loop" /\ s.sent = FALSE
    BY <1>4, <1>5 DEF Super!Head
  <2>1. \E l \in Int, h \in {"dma", "not", "wai", "stp"} :
          /\ s' = z("run", l, s.next, s.finish, h)
          /\ h = "dma" <=> s.halted = "dma"
          /\ h = "dma" => l >= s.next
    <3>1. CASE s.halted = "dma"
      <4>1. s' = [s EXCEPT !.phase = "run", !.lead = s.next]
        BY <1>5, <3>1 DEF Super!Head
      <4>2. s' = z("run", s.next, s.next, s.finish, s.halted)
        BY <1>1, <2>0, <4>1 DEF Sa1State
      <4> HIDE DEF z
      <4> QED
        BY <1>2, <3>1, <4>2
    <3>2. CASE s.halted = "wai" /\ (s.edge \/ s.irqLine)
      <4>1. s' = [s EXCEPT !.phase = "run", !.halted = "not", !.lead = s.lead + 1]
        BY <1>5, <3>2 DEF Super!Head
      <4>2. s' = z("run", s.lead + 1, s.next, s.finish, "not")
        BY <1>1, <2>0, <4>1 DEF Sa1State
      <4>3. s.lead + 1 \in Int
        BY <1>2
      <4> HIDE DEF z
      <4> QED
        BY <1>2, <3>2, <4>2, <4>3
    <3>3. CASE s.halted = "not"
      <4>1. s' = [s EXCEPT !.phase = "run"]
        BY <1>5, <3>3 DEF Super!Head
      <4>2. s' = z("run", s.lead, s.next, s.finish, s.halted)
        BY <1>1, <2>0, <4>1 DEF Sa1State
      <4> HIDE DEF z
      <4> QED
        BY <1>2, <3>3, <4>2
    <3>4. CASE s.halted \in {"wai", "stp"} /\ ~(s.halted = "wai" /\ (s.edge \/ s.irqLine))
      <4> DEFINE l == IF s.lead < s.next THEN s.next ELSE s.lead
      <4>1. s' = [s EXCEPT !.phase = "run", !.lead = l]
        BY <1>5, <3>4 DEF Super!Head, Super!Skip
      <4>2. l \in Int
        BY <1>2
      <4> HIDE DEF l
      <4>3. s' = z("run", l, s.next, s.finish, s.halted)
        BY <1>1, <2>0, <4>1 DEF Sa1State
      <4> HIDE DEF z
      <4> QED
        BY <1>2, <3>4, <4>2, <4>3
    <3> QED
      BY <1>2, <3>1, <3>2, <3>3, <3>4
  <2> HIDE DEF z
  <2> QED
    BY <1>1, <1>2, <1>3, <2>1
<1>6. CASE Super!WAI \/ Super!STP
  <2>1. /\ s.phase = "run" /\ s.lead < s.next
        /\ \E h \in {"wai", "stp"} : s' = [s EXCEPT !.halted = h, !.lead = s.next]
    BY <1>6 DEF Super!WAI, Super!STP, Super!Fetched, Super!Runs
  <2>2. s.sent = FALSE /\ ~s.held
    <3>1. s.phase = "run" /\ s.held => s.lead >= s.next
      BY DEF Sa1Good, Still
    <3>2. s.phase = "run" /\ s.lead < s.next
      BY <2>1
    <3>3. ~s.held
      BY <1>2, <3>1, <3>2
    <3> QED
      BY <1>4, <3>2, <3>3
  <2>3. PICK h \in {"wai", "stp"} : s' = [s EXCEPT !.halted = h, !.lead = s.next]
    BY <2>1
  <2>4. s' = z("run", s.next, s.next, s.finish, h)
    BY <1>1, <2>1, <2>2, <2>3 DEF Sa1State
  <2> HIDE DEF z
  <2> QED
    BY <1>2, <1>3, <2>2, <2>4
<1>7. CASE Super!Update
  <2>1. PICK d \in 1 .. SaSlice :
          LET finish == IF s.finish = Super!Never THEN Super!Never ELSE s.finish - d
          IN  s' = [s EXCEPT !.phase = "loop", !.lead = s.lead - d, !.finish = finish,
                             !.next = Super!Earliest(finish, 0), !.sent = FALSE]
    BY <1>7 DEF Super!Update
  <2> DEFINE f == IF s.finish = Super!Never THEN Super!Never ELSE s.finish - d
             n == Super!Earliest(f, 0)
  <2>2. s' = [s EXCEPT !.phase = "loop", !.lead = s.lead - d, !.finish = f, !.next = n,
                       !.sent = FALSE]
    BY <2>1
  <2>3. f \in Int /\ n \in Int /\ s.lead - d \in Int
    BY <1>2, SaAssumption DEF Super!Never, Super!Earliest
  <2> HIDE DEF f, n
  <2>4. s' = z("loop", s.lead - d, n, f, s.halted)
    BY <1>1, <2>2 DEF Sa1State
  <2> HIDE DEF z
  <2> QED
    BY <1>1, <1>2, <1>3, <2>3, <2>4
<1> QED
  BY <1>5, <1>6, <1>7

LEMMA Sa1EventHandler ==
  ASSUME Sa1Good(s), Super!EventHandler
  PROVE  Sa1Good(s')
<1>1. /\ s \in Sa1State /\ LinesGood(s) /\ ~s.sent /\ s.phase = "run"
      /\ s.held <=> s.halted = "dma"
  BY DEF Sa1Good, LinesGood, Reaches, Still, Super!EventHandler
<1>2. /\ s.lead \in Int /\ s.next \in Int /\ s.finish \in Int
      /\ s.halted \in {"dma", "not", "wai", "stp"} /\ s.held \in BOOLEAN /\ s.sent \in BOOLEAN
      /\ s.pending \in SUBSET SaBits /\ s.enable \in SUBSET SaBits
  BY <1>1 DEF Sa1State
<1> DEFINE ended == s.lead >= s.finish
           x == Super!Raise(s, "dma")
           r == [x EXCEPT !.finish = Super!Never]
           i == Super!CPU_SetIRQ(r)
           t == IF ended THEN i ELSE s
           n == IF s.lead >= 0 THEN 0 ELSE Super!Earliest(t.finish, 0)
           p == IF s.lead >= 0 THEN "main" ELSE "loop"
<1>3. s' = [t EXCEPT !.next = n, !.phase = p]
  BY DEF Super!EventHandler
<1>4. /\ r \in Sa1State /\ SameRun(s, r) /\ r.finish = Super!Never
      /\ "nmi" \in r.pending <=> "nmi" \in s.pending
      /\ r.nmiLine = s.nmiLine /\ r.stuck = s.stuck
      /\ r.mainLine = s.mainLine /\ r.mainPending = s.mainPending
  <2> DEFINE q == s.pending \cup ({"dma"} \cap s.enable)
             y == [s EXCEPT !.pending = q, !.finish = Super!Never]
  <2>1. r = y
    BY <1>1 DEF Super!Raise, Sa1State
  <2>2. q \in SUBSET SaBits /\ ("nmi" \in q <=> "nmi" \in s.pending)
    BY <1>2
  <2> HIDE DEF q, r
  <2>3. y \in Sa1State
    <3>1. \A f \in Int, c \in SUBSET SaBits : [s EXCEPT !.pending = c, !.finish = f] \in Sa1State
      BY <1>1 DEF Sa1State
    <3>2. Super!Never \in Int
      BY DEF Super!Never
    <3> QED
      BY <2>2, <3>1, <3>2
  <2>4. SameRun(s, y)
    BY <1>1 DEF Sa1State, SameRun
  <2>5. /\ y.finish = Super!Never /\ y.pending = q
        /\ y.nmiLine = s.nmiLine /\ y.stuck = s.stuck
        /\ y.mainLine = s.mainLine /\ y.mainPending = s.mainPending
    BY <1>1 DEF Sa1State
  <2> HIDE DEF y
  <2> QED
    BY <2>1, <2>2, <2>3, <2>4, <2>5
<1> HIDE DEF x, r
<1>5. /\ i \in Sa1State /\ SameRun(s, i) /\ i.finish = Super!Never /\ LinesGood(i)
  <2>1. /\ i \in Sa1State /\ SameRun(r, i) /\ IrqLine(i)
        /\ i.pending = r.pending /\ i.nmiLine = r.nmiLine /\ i.stuck = r.stuck
        /\ i.mainLine = r.mainLine /\ i.mainPending = r.mainPending
        /\ i.finish = r.finish
    BY <1>4, Sa1SetIRQ
  <2> HIDE DEF i
  <2>2. LinesGood(i)
    BY <1>1, <1>4, <2>1 DEF LinesGood, MainLine, NmiLine
  <2>3. SameRun(s, i)
    BY <1>4, <2>1 DEF SameRun
  <2> QED
    BY <1>4, <2>1, <2>2, <2>3
<1> HIDE DEF i
<1>6. /\ t \in Sa1State /\ SameRun(s, t) /\ LinesGood(t)
      /\ s.lead >= 0 => t.finish >= 0
  <2>1. CASE ended
    BY <1>5, <2>1 DEF Super!Never
  <2>2. CASE ~ended
    BY <1>1, <1>2, <2>2 DEF SameRun
  <2> QED
    BY <2>1, <2>2
<1> HIDE DEF t, ended
<1>7. t.finish \in Int /\ t.lead = s.lead /\ t.halted = s.halted /\ t.sent = FALSE /\ t.held = s.held
  BY <1>1, <1>2, <1>6 DEF Sa1State, SameRun
<1>8. n \in Int /\ p \in {"main", "loop", "run"} /\ p # "run" /\ (p = "main" => t.finish >= 0)
  BY <1>6, <1>7 DEF Super!Earliest
<1> HIDE DEF n, p
<1>9. s' = [t EXCEPT !.phase = p, !.lead = s.lead, !.next = n, !.finish = t.finish,
                     !.halted = s.halted, !.sent = FALSE]
  BY <1>3, <1>6, <1>7 DEF Sa1State
<1>10. t.held <=> s.halted = "dma"
  BY <1>1, <1>7
<1>11. p = "run" /\ t.held => s.lead >= n
  BY <1>8
<1> QED
  BY <1>2, <1>6, <1>7, <1>8, <1>9, <1>10, <1>11, Sa1Clock

----------------------------------------------------------------------------
\* An access of the main CPU to its own interrupts, or to a DMA.
LEMMA Sa1Access ==
  ASSUME Sa1Good(s), s.phase = "main",
         NEW n \in SUBSET SaMainBits, NEW m \in SUBSET SaMainBits, NEW u \in BOOLEAN,
         u <=> m # {}, NEW f \in Int, f >= 0,
         s' = [s EXCEPT !.mainEnable = n, !.mainPending = m, !.mainLine = u, !.finish = f,
                        !.sent = FALSE]
  PROVE  Sa1Good(s')
<1> DEFINE z == [s EXCEPT !.mainEnable = n, !.mainPending = m, !.mainLine = u, !.finish = f,
                        !.sent = FALSE]
<1>1. s \in Sa1State
  BY DEF Sa1Good
<1>2. z \in Sa1State
  BY <1>1 DEF Sa1State
<1>3. z.mainPending = m /\ z.mainLine = u /\ z.finish = f /\ ~z.sent
  BY <1>1 DEF Sa1State
<1>4. /\ z.phase = s.phase /\ z.held = s.held /\ z.halted = s.halted
      /\ z.irqLine = s.irqLine /\ z.pending = s.pending /\ z.nmiLine = s.nmiLine
      /\ z.stuck = s.stuck
  BY <1>1 DEF Sa1State
<1> HIDE DEF z
<1>5. MainLine(z) /\ Ended(z) /\ Reaches(z)
  BY <1>3 DEF MainLine, Ended, Reaches
<1>6. IrqLine(z) /\ NmiLine(z) /\ Still(z)
  BY <1>4 DEF Sa1Good, IrqLine, NmiLine, Still
<1> QED
  BY <1>2, <1>5, <1>6 DEF Sa1Good, z

LEMMA Sa1MainAccess ==
  ASSUME Sa1Good(s), Super!WriteMainEnable \/ Super!WriteMainClear \/ Super!MainStartsDMA
  PROVE  Sa1Good(s')
<1>1. s \in Sa1State /\ s.phase = "main" /\ MainLine(s) /\ s.finish >= 0
  BY DEF Sa1Good, Ended, Super!WriteMainEnable, Super!WriteMainClear, Super!MainStartsDMA,
         Super!Access
<1>2. /\ s.mainEnable \in SUBSET SaMainBits /\ s.mainPending \in SUBSET SaMainBits
      /\ s.mainLine \in BOOLEAN /\ s.finish \in Int
      /\ s.mainLine <=> s.mainPending # {}
  BY <1>1 DEF Sa1State, MainLine
<1> DEFINE z(n, m, u, f) == [s EXCEPT !.mainEnable = n, !.mainPending = m, !.mainLine = u,
                                      !.finish = f, !.sent = FALSE]
<1>3. \A n \in SUBSET SaMainBits, m \in SUBSET SaMainBits, u \in BOOLEAN, f \in Int :
        s' = z(n, m, u, f) /\ (u <=> m # {}) /\ f >= 0 => Sa1Good(s')
  BY <1>1, Sa1Access
<1>4. CASE Super!WriteMainEnable
  <2>1. PICK e \in SUBSET SaMainBits : s' = [s EXCEPT !.mainEnable = e, !.sent = FALSE]
    BY <1>4 DEF Super!WriteMainEnable, SaMainBits
  <2>2. s' = z(e, s.mainPending, s.mainLine, s.finish)
    BY <1>1, <2>1 DEF Sa1State
  <2> HIDE DEF z
  <2> QED
    BY <1>1, <1>2, <1>3, <2>2
<1>5. CASE Super!WriteMainClear
  <2>1. PICK c \in SUBSET SaMainBits :
          s' = Super!Main_SetIRQ([s EXCEPT !.mainPending = s.mainPending \ c, !.sent = FALSE])
    BY <1>5 DEF Super!WriteMainClear, SaMainBits
  <2> DEFINE m == s.mainPending \ c
             u == m # {}
  <2>2. s' = [[s EXCEPT !.mainPending = m, !.sent = FALSE] EXCEPT !.mainLine = u]
    BY <1>1, <2>1 DEF Super!Main_SetIRQ, Sa1State
  <2>3. m \in SUBSET SaMainBits /\ u \in BOOLEAN
    BY <1>2
  <2> HIDE DEF m, u
  <2>4. s' = z(s.mainEnable, m, u, s.finish)
    BY <1>1, <2>2 DEF Sa1State
  <2>5. u <=> m # {}
    BY DEF u
  <2> HIDE DEF z
  <2> QED
    BY <1>1, <1>2, <1>3, <2>3, <2>4, <2>5
<1>6. ASSUME NEW n \in 0 .. SaLength, s' = Super!RunNormal([s EXCEPT !.sent = FALSE], 0, n)
      PROVE  Sa1Good(s')
  <2>1. n \in Int /\ n >= 0 /\ 0 + n = n
    BY SaAssumption
  <2>2. s' = [[s EXCEPT !.sent = FALSE] EXCEPT !.finish = n]
    <3> DEFINE x == [s EXCEPT !.sent = FALSE]
    <3>1. s' = [x EXCEPT !.finish = 0 + n]
      BY <1>6 DEF Super!RunNormal
    <3> HIDE DEF x
    <3> QED
      BY <2>1, <3>1 DEF x
  <2>3. s' = z(s.mainEnable, s.mainPending, s.mainLine, n)
    BY <1>1, <2>2 DEF Sa1State
  <2> HIDE DEF z
  <2> QED
    BY <1>2, <1>3, <2>1, <2>3
<1>7. ASSUME s' = Super!CharConv([s EXCEPT !.sent = FALSE])
      PROVE  Sa1Good(s')
  <2> DEFINE x == [s EXCEPT !.sent = FALSE]
             m == s.mainPending \cup ({"dma"} \cap s.mainEnable)
             u == m # {}
  <2>1. x.mainPending = s.mainPending /\ x.mainEnable = s.mainEnable /\ x \in Sa1State
    BY <1>1 DEF Sa1State
  <2>2. s' = [[x EXCEPT !.mainPending = m] EXCEPT !.mainLine = u]
    <3>1. s' = Super!Main_SetIRQ([x EXCEPT !.mainPending = m])
      BY <1>7, <2>1 DEF Super!CharConv, Super!MainRaise
    <3> HIDE DEF x
    <3> QED
      BY <2>1, <3>1 DEF Super!Main_SetIRQ, Sa1State
  <2>3. m \in SUBSET SaMainBits /\ u \in BOOLEAN
    BY <1>2 DEF SaMainBits
  <2> HIDE DEF m, u
  <2>4. s' = z(s.mainEnable, m, u, s.finish)
    BY <1>1, <2>2 DEF Sa1State
  <2>5. u <=> m # {}
    BY DEF u
  <2> HIDE DEF z
  <2> QED
    BY <1>1, <1>2, <1>3, <2>3, <2>4, <2>5
<1>8. CASE Super!MainStartsDMA
  BY <1>6, <1>7, <1>8 DEF Super!MainStartsDMA
<1> QED
  BY <1>4, <1>5, <1>8

LEMMA Sa1Powered == Sa1Good(Super!PowerOn)
<1> DEFINE y == Super!PowerOn
<1>1. y \in Sa1State
  BY DEF Super!PowerOn, Super!Never, Sa1State
<1>2. /\ ~y.mainLine /\ y.mainPending = {} /\ y.held /\ y.halted = "dma" /\ y.phase = "main"
      /\ y.pending = {} /\ ~y.nmiLine /\ ~y.sent /\ y.finish = Super!Never
  BY DEF Super!PowerOn
<1> HIDE DEF y
<1>3. MainLine(y) /\ IrqLine(y) /\ NmiLine(y)
  BY <1>2 DEF MainLine, IrqLine, NmiLine
<1>4. Still(y) /\ Ended(y) /\ Reaches(y)
  BY <1>2 DEF Still, Ended, Reaches, Super!Never
<1> QED
  BY <1>1, <1>3, <1>4 DEF Sa1Good, y

LEMMA Sa1Reset ==
  ASSUME Sa1Good(s), Super!Reset
  PROVE  Sa1Good(s')
<1> DEFINE y == Super!PowerOn
           z == [y EXCEPT !.lead = s.lead, !.edge = s.edge, !.fresh = s.fresh,
                          !.irqLine = s.irqLine, !.nmiLine = s.nmiLine, !.stuck = s.nmiLine]
<1>1. y \in Sa1State
  BY Sa1Powered DEF Sa1Good
<1>2. s' = z
  BY DEF Super!Reset
<1>3. /\ s.lead \in Int /\ s.edge \in BOOLEAN /\ s.fresh \in BOOLEAN /\ s.irqLine \in BOOLEAN
      /\ s.nmiLine \in BOOLEAN
  BY DEF Sa1Good, Sa1State
<1>4. y.mainPending = {} /\ ~y.mainLine /\ y.held /\ y.halted = "dma" /\ y.phase = "main"
      /\ y.pending = {} /\ ~y.sent /\ y.finish = Super!Never
  BY DEF Super!PowerOn
<1> HIDE DEF y
<1>5. z \in Sa1State
  BY <1>1, <1>3 DEF Sa1State
<1>6. /\ z.mainPending = y.mainPending /\ z.mainLine = y.mainLine /\ z.held = y.held
      /\ z.halted = y.halted /\ z.phase = y.phase
      /\ z.pending = y.pending /\ z.sent = y.sent /\ z.finish = y.finish
      /\ z.nmiLine = s.nmiLine /\ z.stuck = s.nmiLine
  BY <1>1 DEF Sa1State
<1> HIDE DEF z
<1>7. MainLine(z) /\ IrqLine(z) /\ NmiLine(z)
  BY <1>4, <1>6 DEF MainLine, IrqLine, NmiLine
<1>8. Still(z) /\ Ended(z) /\ Reaches(z)
  BY <1>4, <1>6 DEF Still, Ended, Reaches, Super!Never
<1> QED
  BY <1>2, <1>5, <1>7, <1>8 DEF Sa1Good

LEMMA Sa1WriteControl ==
  ASSUME Sa1Good(s), Super!WriteControl
  PROVE  Sa1Good(s')
<1>1. /\ s \in Sa1State /\ LinesGood(s) /\ s.phase = "main" /\ s.finish >= 0
      /\ s.held <=> s.halted = "dma"
  BY DEF Sa1Good, LinesGood, Still, Ended, Super!WriteControl, Super!Access
<1>2. s.held \in BOOLEAN /\ s.pending \in SUBSET SaBits /\ s.enable \in SUBSET SaBits
  BY <1>1 DEF Sa1State
<1>3. PICK v \in SUBSET {"nmi", "irq", "reset"} :
        LET nmi == IF "nmi" \in v \cap s.enable THEN Super!CPU_SetNMI(Super!Raise(s, "nmi")) ELSE s
            irq == IF "irq" \in v \cap s.enable THEN Super!CPU_SetIRQ(Super!Raise(nmi, "irq")) ELSE nmi
            w   == [irq EXCEPT !.held = "reset" \in v,
                               !.sent = "nmi" \in (v \cap s.enable) \ s.pending]
        IN  s' = CASE s.held /\ "reset" \notin v ->
                        Super!CPU_SetIRQ([w EXCEPT !.halted = "not", !.edge = FALSE, !.fresh = TRUE])
                   [] "reset" \in v -> [w EXCEPT !.halted = "dma"]
                   [] OTHER -> w
  BY DEF Super!WriteControl
<1> DEFINE reset == "reset" \in v
           e == "nmi" \in (v \cap s.enable) \ s.pending
           x == Super!Raise(s, "nmi")
           nmi == IF "nmi" \in v \cap s.enable THEN Super!CPU_SetNMI(x) ELSE s
           y == Super!Raise(nmi, "irq")
           irq == IF "irq" \in v \cap s.enable THEN Super!CPU_SetIRQ(y) ELSE nmi
           w == [irq EXCEPT !.held = reset, !.sent = e]
\* The NMI.
<1>4. /\ nmi \in Sa1State /\ SameRun(s, nmi) /\ LinesGood(nmi)
      /\ nmi.finish = s.finish
      /\ e => nmi.edge \/ nmi.stuck
  <2>1. CASE "nmi" \in v \cap s.enable
    <3>1. /\ x \in Sa1State /\ SameRun(s, x)
          /\ x.pending \ {"nmi"} = s.pending \ {"nmi"} /\ "nmi" \in x.pending
          /\ x.nmiLine = s.nmiLine /\ x.stuck = s.stuck /\ x.irqLine = s.irqLine
          /\ x.mainLine = s.mainLine /\ x.mainPending = s.mainPending /\ x.finish = s.finish
      <4> DEFINE q == s.pending \cup ({"nmi"} \cap s.enable)
                 z == [s EXCEPT !.pending = q]
      <4>1. x = z
        BY DEF Super!Raise
      <4>2. q \in SUBSET SaBits /\ q \ {"nmi"} = s.pending \ {"nmi"} /\ "nmi" \in q
        BY <1>2, <2>1
      <4> HIDE DEF x, q
      <4>3. z \in Sa1State
        BY <1>1, <4>2 DEF Sa1State
      <4>4. SameRun(s, z)
        BY <1>1 DEF Sa1State, SameRun
      <4>5. /\ z.pending = q /\ z.finish = s.finish
            /\ z.nmiLine = s.nmiLine /\ z.stuck = s.stuck /\ z.irqLine = s.irqLine
            /\ z.mainLine = s.mainLine /\ z.mainPending = s.mainPending
        BY <1>1 DEF Sa1State
      <4> HIDE DEF z
      <4> QED
        BY <4>1, <4>2, <4>3, <4>4, <4>5
    <3> HIDE DEF x
    <3> DEFINE n == Super!CPU_SetNMI(x)
    <3>2. /\ n \in Sa1State /\ SameRun(x, n) /\ NmiLine(n)
          /\ n.pending = x.pending /\ n.irqLine = x.irqLine
          /\ n.mainLine = x.mainLine /\ n.mainPending = x.mainPending
          /\ n.finish = x.finish
          /\ (~x.nmiLine => n.edge) /\ (x.stuck => n.stuck)
      BY <3>1, Sa1SetNMI
    <3> HIDE DEF n
    <3>3. e => n.edge \/ n.stuck
      <4>1. "nmi" \notin s.pending /\ s.nmiLine => s.stuck
        BY <1>1 DEF LinesGood, NmiLine
      <4>2. x.nmiLine => s.nmiLine
        BY <3>1
      <4>3. s.stuck => x.stuck
        BY <3>1
      <4> QED
        BY <3>2, <4>1, <4>2, <4>3
    <3>4. LinesGood(n)
      BY <1>1, <3>1, <3>2 DEF LinesGood, MainLine, IrqLine, SameRun
    <3>5. SameRun(s, n)
      BY <3>1, <3>2 DEF SameRun
    <3>6. nmi = n
      BY <2>1 DEF n
    <3> HIDE DEF e, nmi
    <3> QED
      BY <3>1, <3>2, <3>3, <3>4, <3>5, <3>6
  <2>2. CASE "nmi" \notin v \cap s.enable
    <3>1. nmi = s /\ ~e
      BY <2>2
    <3> HIDE DEF e, nmi
    <3> QED
      BY <1>1, <3>1 DEF SameRun
  <2> QED
    BY <2>1, <2>2
<1> HIDE DEF nmi
\* The interrupt.
<1>5. /\ irq \in Sa1State /\ SameRun(s, irq) /\ LinesGood(irq)
      /\ irq.finish = s.finish
      /\ e => irq.edge \/ irq.stuck
  <2>1. CASE "irq" \in v \cap s.enable
    <3>1. /\ y \in Sa1State /\ SameRun(nmi, y)
          /\ "nmi" \in y.pending <=> "nmi" \in nmi.pending
          /\ y.nmiLine = nmi.nmiLine /\ y.stuck = nmi.stuck /\ y.edge = nmi.edge
          /\ y.mainLine = nmi.mainLine /\ y.mainPending = nmi.mainPending
          /\ y.finish = nmi.finish
      <4> DEFINE q == nmi.pending \cup ({"irq"} \cap nmi.enable)
                 z == [nmi EXCEPT !.pending = q]
      <4>1. y = z
        BY DEF Super!Raise
      <4>2. q \in SUBSET SaBits /\ ("nmi" \in q <=> "nmi" \in nmi.pending)
        BY <1>4 DEF Sa1State
      <4> HIDE DEF y, q
      <4>3. z \in Sa1State
        BY <1>4, <4>2 DEF Sa1State
      <4>4. SameRun(nmi, z)
        BY <1>4 DEF Sa1State, SameRun
      <4>5. /\ z.pending = q /\ z.finish = nmi.finish
            /\ z.nmiLine = nmi.nmiLine /\ z.stuck = nmi.stuck /\ z.edge = nmi.edge
            /\ z.mainLine = nmi.mainLine /\ z.mainPending = nmi.mainPending
        BY <1>4 DEF Sa1State
      <4> HIDE DEF z
      <4> QED
        BY <4>1, <4>2, <4>3, <4>4, <4>5
    <3> HIDE DEF y
    <3> DEFINE i == Super!CPU_SetIRQ(y)
    <3>2. /\ i \in Sa1State /\ SameRun(y, i) /\ IrqLine(i)
          /\ i.pending = y.pending /\ i.nmiLine = y.nmiLine /\ i.stuck = y.stuck
          /\ i.mainLine = y.mainLine /\ i.mainPending = y.mainPending
          /\ i.finish = y.finish /\ i.edge = y.edge
      BY <3>1, Sa1SetIRQ
    <3> HIDE DEF i
    <3>3. LinesGood(i)
      BY <1>4, <3>1, <3>2 DEF LinesGood, MainLine, NmiLine
    <3>4. SameRun(s, i)
      BY <1>4, <3>1, <3>2 DEF SameRun
    <3>5. irq = i
      BY <2>1 DEF i
    <3> HIDE DEF e, irq
    <3> QED
      BY <1>4, <3>1, <3>2, <3>3, <3>4, <3>5
  <2>2. CASE "irq" \notin v \cap s.enable
    <3>1. irq = nmi
      BY <2>2
    <3> HIDE DEF e, irq
    <3> QED
      BY <1>4, <3>1
  <2> QED
    BY <2>1, <2>2
<1>6. s' = CASE s.held /\ ~reset ->
                  Super!CPU_SetIRQ([w EXCEPT !.halted = "not", !.edge = FALSE, !.fresh = TRUE])
             [] reset -> [w EXCEPT !.halted = "dma"]
             [] OTHER -> w
  BY <1>3 DEF nmi
<1>7. reset \in BOOLEAN /\ e \in BOOLEAN
  OBVIOUS
<1> HIDE DEF irq, e, reset
\* The reset line, and its falling edge.
<1> DEFINE z(h, d, f) == [w EXCEPT !.halted = h, !.edge = d, !.fresh = f]
<1>8. w \in Sa1State /\ w.edge = irq.edge /\ w.fresh = irq.fresh /\ w.halted = irq.halted
  <2>1. w \in Sa1State
    BY <1>5, <1>7 DEF Sa1State
  <2> QED
    BY <1>5, <2>1 DEF Sa1State
<1>9. ASSUME NEW h \in {"dma", "not", "wai", "stp"}, NEW d \in BOOLEAN, NEW f \in BOOLEAN
      PROVE  /\ z(h, d, f) \in Sa1State
             /\ z(h, d, f).halted = h /\ z(h, d, f).edge = d /\ z(h, d, f).fresh = f
             /\ (z(h, d, f).held <=> reset) /\ (z(h, d, f).sent <=> e) /\ z(h, d, f).phase = "main"
             /\ z(h, d, f).finish = s.finish
             /\ z(h, d, f).pending = irq.pending /\ z(h, d, f).irqLine = irq.irqLine
             /\ z(h, d, f).nmiLine = irq.nmiLine /\ z(h, d, f).stuck = irq.stuck
             /\ z(h, d, f).mainLine = irq.mainLine /\ z(h, d, f).mainPending = irq.mainPending
  <2>1. z(h, d, f) \in Sa1State
    <3> HIDE DEF w
    <3> QED
      BY <1>8 DEF Sa1State
  <2>2. z(h, d, f).halted = h /\ z(h, d, f).edge = d /\ z(h, d, f).fresh = f
    <3> HIDE DEF w
    <3> QED
      BY <1>8 DEF Sa1State
  <2>3. /\ (w.held <=> reset) /\ (w.sent <=> e) /\ w.phase = "main" /\ w.finish = s.finish
        /\ w.pending = irq.pending /\ w.irqLine = irq.irqLine
        /\ w.nmiLine = irq.nmiLine /\ w.stuck = irq.stuck
        /\ w.mainLine = irq.mainLine /\ w.mainPending = irq.mainPending
    BY <1>1, <1>5 DEF Sa1State, SameRun
  <2> HIDE DEF w
  <2>4. /\ z(h, d, f).held = w.held /\ z(h, d, f).sent = w.sent /\ z(h, d, f).phase = w.phase
        /\ z(h, d, f).finish = w.finish
        /\ z(h, d, f).pending = w.pending /\ z(h, d, f).irqLine = w.irqLine
        /\ z(h, d, f).nmiLine = w.nmiLine /\ z(h, d, f).stuck = w.stuck
        /\ z(h, d, f).mainLine = w.mainLine /\ z(h, d, f).mainPending = w.mainPending
    BY <1>8 DEF Sa1State
  <2> HIDE DEF z
  <2> QED
    BY <2>1, <2>2, <2>3, <2>4
<1> HIDE DEF w
<1>10. CASE s.held /\ ~reset
  <2> DEFINE t == z("not", FALSE, TRUE)
             r == Super!CPU_SetIRQ(t)
  <2>1. s' = r
    BY <1>6, <1>10
  <2>2. PICK d \in BOOLEAN, f \in BOOLEAN : t = z("not", d, f) /\ f = TRUE
    OBVIOUS
  <2> HIDE DEF z, t
  <2>3. /\ t \in Sa1State /\ t.halted = "not" /\ t.fresh /\ ~t.held /\ t.phase = "main"
        /\ t.finish = s.finish
        /\ t.pending = irq.pending /\ t.nmiLine = irq.nmiLine /\ t.stuck = irq.stuck
        /\ t.mainLine = irq.mainLine /\ t.mainPending = irq.mainPending
    <3>1. /\ t \in Sa1State /\ t.halted = "not" /\ t.fresh = f /\ t.phase = "main"
          /\ (t.held <=> reset) /\ t.finish = s.finish
          /\ t.pending = irq.pending /\ t.nmiLine = irq.nmiLine /\ t.stuck = irq.stuck
          /\ t.mainLine = irq.mainLine /\ t.mainPending = irq.mainPending
      <4>1. t = z("not", d, f)
        BY <2>2
      <4> QED
        BY <1>9, <4>1
    <3> QED
      BY <1>10, <2>2, <3>1
  <2>4. /\ r \in Sa1State /\ SameRun(t, r) /\ IrqLine(r)
        /\ r.pending = t.pending /\ r.nmiLine = t.nmiLine /\ r.stuck = t.stuck
        /\ r.mainLine = t.mainLine /\ r.mainPending = t.mainPending
        /\ r.finish = t.finish /\ r.fresh = t.fresh
    BY <2>3, Sa1SetIRQ
  <2> HIDE DEF r
  <2>5. MainLine(r) /\ NmiLine(r)
    BY <1>5, <2>3, <2>4 DEF LinesGood, MainLine, NmiLine
  <2>6. Still(r) /\ Ended(r) /\ Reaches(r)
    BY <1>1, <2>3, <2>4 DEF Still, Ended, Reaches, SameRun
  <2> QED
    BY <2>1, <2>4, <2>5, <2>6 DEF Sa1Good
<1>11. CASE reset
  <2>1. s' = z("dma", w.edge, w.fresh)
    BY <1>6, <1>8, <1>11 DEF Sa1State
  <2>2. w.edge \in BOOLEAN /\ w.fresh \in BOOLEAN
    BY <1>8 DEF Sa1State
  <2> DEFINE t == z("dma", w.edge, w.fresh)
  <2> HIDE DEF z
  <2>3. /\ t \in Sa1State /\ t.halted = "dma" /\ t.held /\ t.phase = "main"
        /\ t.finish = s.finish
        /\ t.pending = irq.pending /\ t.nmiLine = irq.nmiLine /\ t.stuck = irq.stuck
        /\ t.mainLine = irq.mainLine /\ t.mainPending = irq.mainPending
    BY <1>9, <1>11, <2>2
  <2> HIDE DEF t
  <2>4. MainLine(t) /\ NmiLine(t) /\ IrqLine(t)
    BY <1>5, <2>3 DEF LinesGood, MainLine, NmiLine, IrqLine
  <2>5. Still(t) /\ Ended(t) /\ Reaches(t)
    BY <1>1, <2>3 DEF Still, Ended, Reaches
  <2> QED
    BY <2>1, <2>3, <2>4, <2>5 DEF Sa1Good, t
<1>12. CASE ~s.held /\ ~reset
  <2>1. s' = z(w.halted, w.edge, w.fresh)
    BY <1>6, <1>8, <1>12 DEF Sa1State
  <2>2. w.edge \in BOOLEAN /\ w.fresh \in BOOLEAN /\ w.halted \in {"dma", "not", "wai", "stp"}
    BY <1>8 DEF Sa1State
  <2> DEFINE t == z(w.halted, w.edge, w.fresh)
  <2> HIDE DEF z
  <2>3. /\ t \in Sa1State /\ t.halted = w.halted /\ ~t.held /\ t.phase = "main"
        /\ t.finish = s.finish /\ t.edge = w.edge /\ (t.sent <=> e) /\ t.irqLine = irq.irqLine
        /\ t.pending = irq.pending /\ t.nmiLine = irq.nmiLine /\ t.stuck = irq.stuck
        /\ t.mainLine = irq.mainLine /\ t.mainPending = irq.mainPending
    BY <1>9, <1>12, <2>2
  <2> HIDE DEF t
  <2>4. w.halted = s.halted /\ ~irq.held /\ s.halted # "dma"
    BY <1>1, <1>5, <1>8, <1>12 DEF SameRun
  <2>5. MainLine(t) /\ NmiLine(t)
    BY <1>5, <2>3 DEF LinesGood, MainLine, NmiLine
  <2>6. IrqLine(t)
    BY <1>5, <2>3, <2>4 DEF LinesGood, IrqLine
  <2>7. Still(t) /\ Ended(t)
    BY <1>1, <2>3, <2>4 DEF Still, Ended
  <2>8. Reaches(t)
    BY <1>5, <1>8, <2>3 DEF Reaches
  <2> QED
    BY <2>1, <2>3, <2>5, <2>6, <2>7, <2>8 DEF Sa1Good, t
<1> QED
  BY <1>2, <1>7, <1>10, <1>11, <1>12

----------------------------------------------------------------------------
\* A cartridge keeps its kind, and only the part it names moves.
LEMMA StepOfKind ==
  ASSUME Next
  PROVE  /\ kind' = kind
         /\ kind = "gsu" => Gsu!Next
         /\ kind = "cx4" => Capcom!Next
         /\ kind = "sa1" => Super!Next
BY DEF Next, Step

GsuInv == kind = "gsu" => GsuGood(s)

LEMMA GsuNext ==
  ASSUME GsuInv, [Next]_vars
  PROVE  GsuInv'
<1>1. CASE Next
  <2>1. CASE kind = "gsu"
    <3>1. kind' = "gsu" /\ Gsu!Next /\ GsuGood(s)
      BY <1>1, <2>1, StepOfKind DEF GsuInv
    <3>2. ASSUME Gsu!MainCPU PROVE GsuGood(s')
      <4>1. CASE Gsu!Reset
        <5>1. s' = Gsu!PowerOn(s.icache)
          BY <4>1 DEF Gsu!Reset
        <5>2. s.icache \in BOOLEAN
          BY <3>1 DEF GsuGood, Core, GsuState
        <5> QED
          BY <5>1, <5>2, GsuPowered
      <4> QED
        BY <3>1, <3>2, <4>1, GsuRegisters, GsuMemory DEF Gsu!MainCPU
    <3>3. GsuGood(s')
      BY <3>1, <3>2, GsuUpdate DEF Gsu!Next
    <3> QED
      BY <3>3 DEF GsuInv, GsuGood, Core, Fresh, Cause, Scoped, Paid
  <2>2. CASE kind # "gsu"
    BY <1>1, <2>2, StepOfKind DEF GsuInv
  <2> QED
    BY <2>1, <2>2
<1>2. CASE UNCHANGED vars
  BY <1>2 DEF vars, GsuInv, GsuGood, Core, Fresh, Cause, Scoped, Paid
<1> QED
  BY <1>1, <1>2

LEMMA GsuInit ==
  ASSUME Init PROVE GsuInv
<1>1. kind = "gsu" => Gsu!Init
  BY DEF Init
<1> QED
  BY <1>1, GsuPowered DEF GsuInv, Gsu!Init

\* What the Super FX (superfx.cpp) fetches through its code cache is the code at R15,
\* a prefix reaches one instruction, the interrupt line has a cause, and a stopped
\* chip owes no time; for caches, banks and instructions of any size.
THEOREM GsuIsSound == Spec => []GsuRuns
<1>1. ASSUME GsuInv PROVE GsuRuns
  <2>1. SUFFICES ASSUME kind = "gsu" PROVE Gsu!GsuSound
    BY DEF GsuRuns
  <2>2. GsuGood(s)
    BY <1>1, <2>1 DEF GsuInv
  <2>3. Gsu!CodeFresh /\ Gsu!LineHasCause
    BY <2>2 DEF GsuGood, Core, Fresh, Cause, Gsu!CodeFresh, Gsu!LineHasCause
  <2>4. Gsu!PrefixScoped /\ Gsu!NothingOwed
    BY <2>2 DEF GsuGood, Scoped, Paid, Gsu!PrefixScoped, Gsu!NothingOwed
  <2> QED
    BY <2>3, <2>4 DEF Gsu!GsuSound
<1> QED
  BY <1>1, GsuInit, GsuNext, PTL DEF Spec

Cx4Inv == kind = "cx4" => Cx4Good(s)

LEMMA Cx4Next ==
  ASSUME Cx4Inv, [Next]_vars
  PROVE  Cx4Inv' /\ (kind = "cx4" /\ Capcom!Update => Kept(s'))
<1>1. CASE Next
  <2>1. CASE kind = "cx4"
    <3>1. kind' = "cx4" /\ Capcom!Next /\ Cx4Good(s)
      BY <1>1, <2>1, StepOfKind DEF Cx4Inv
    <3>2. Cx4Good(s')
      BY <3>1, Cx4Update, Cx4MainCPU DEF Capcom!Next
    <3>3. Capcom!Update => Kept(s')
      BY <3>1, Cx4Update
    <3> QED
      BY <3>1, <3>2, <3>3 DEF Cx4Inv, Cx4Good, InPage, InData
  <2>2. CASE kind # "cx4"
    BY <1>1, <2>2, StepOfKind DEF Cx4Inv
  <2> QED
    BY <2>1, <2>2
<1>2. CASE UNCHANGED vars
  <2>1. kind' = kind /\ s' = s
    BY <1>2 DEF vars
  <2>2. Cx4Inv'
    BY <2>1 DEF Cx4Inv, Cx4Good, InPage, InData
  <2>3. Kept(s')
    BY <2>1 DEF Kept
  <2> QED
    BY <2>2, <2>3
<1> QED
  BY <1>1, <1>2

LEMMA Cx4Init ==
  ASSUME Init PROVE Cx4Inv
<1>1. kind = "cx4" => Capcom!Init
  BY DEF Init
<1> QED
  BY <1>1, Cx4Powered DEF Cx4Inv, Capcom!Init

\* The CX4 (cx4.cpp CheckCache, Update) runs the page it was started in, branched
\* or returned to, in whichever cache that is, and never a word past a page's
\* halts, for any number of pages, words of a page and entries of its stack.
THEOREM Cx4RunsItsPages == Spec => []Cx4Runs
<1>1. ASSUME Cx4Inv PROVE Cx4Runs
  <2>1. SUFFICES ASSUME kind = "cx4" PROVE Capcom!RunsItsPage /\ Capcom!StopsAtTail
    BY DEF Cx4Runs
  <2>2. s \in Cx4State /\ (~s.stray => InPage(s) /\ InData(s))
    BY <1>1, <2>1 DEF Cx4Inv, Cx4Good
  <2> QED
    BY <2>2 DEF Capcom!RunsItsPage, Capcom!StopsAtTail, InPage, InData
<1> QED
  BY <1>1, Cx4Init, Cx4Next, PTL DEF Spec

\* What the CX4 executes replaces no locked page of its cache (CheckCache).
THEOREM Cx4KeepsLocked == Spec => Cx4Locks
<1>1. ASSUME Cx4Inv, [Next]_vars PROVE [kind = "cx4" => Capcom!LockedStays]_vars
  <2>1. kind = "cx4" /\ Capcom!Update => Kept(s')
    BY <1>1, Cx4Next
  <2> QED
    BY <2>1 DEF Kept, Capcom!LockedStays
<1> QED
  BY <1>1, Cx4Init, Cx4Next, PTL DEF Spec, Cx4Locks

Sa1Inv == kind = "sa1" => Sa1Good(s)

LEMMA Sa1Next ==
  ASSUME Sa1Inv, [Next]_vars
  PROVE  Sa1Inv'
<1>1. CASE Next
  <2>1. CASE kind = "sa1"
    <3>1. kind' = "sa1" /\ Super!Next /\ Sa1Good(s)
      BY <1>1, <2>1, StepOfKind DEF Sa1Inv
    <3>2. ASSUME Super!CPU_Run PROVE Sa1Good(s')
      BY <3>1, <3>2, Sa1Loop, Sa1Instructions, Sa1EventHandler DEF Super!CPU_Run
    <3>3. ASSUME Super!MainCPU PROVE Sa1Good(s')
      BY <3>1, <3>3, Sa1Loop, Sa1WriteControl, Sa1MainAccess, Sa1Reset DEF Super!MainCPU
    <3>4. Sa1Good(s')
      BY <3>1, <3>2, <3>3 DEF Super!Next
    <3> QED
      BY <3>4 DEF Sa1Inv, Sa1Good, MainLine, IrqLine, NmiLine, Still, Ended, Reaches
  <2>2. CASE kind # "sa1"
    BY <1>1, <2>2, StepOfKind DEF Sa1Inv
  <2> QED
    BY <2>1, <2>2
<1>2. CASE UNCHANGED vars
  BY <1>2 DEF vars, Sa1Inv, Sa1Good, MainLine, IrqLine, NmiLine, Still, Ended, Reaches
<1> QED
  BY <1>1, <1>2

LEMMA Sa1Init ==
  ASSUME Init PROVE Sa1Inv
<1>1. kind = "sa1" => Super!Init
  BY DEF Init
<1> QED
  BY <1>1, Sa1Powered DEF Sa1Inv, Super!Init

\* What one CPU of an SA-1 cartridge asks of the other (sa1.cpp) arrives: interrupt
\* lines are up while an interrupt is pending, a held SA-1 executes nothing, no
\* DMA's end is passed, and an NMI reaches the core; for instructions, transfers
\* and turns of the main CPU of any length.
THEOREM MessagesReachTheOther == Spec => []Sa1Answers
<1>1. ASSUME Sa1Inv PROVE Sa1Answers
  <2>1. SUFFICES ASSUME kind = "sa1" PROVE Super!MessagesArrive
    BY DEF Sa1Answers
  <2>2. Sa1Good(s)
    BY <1>1, <2>1 DEF Sa1Inv
  <2>3. Super!LinesAgree
    BY <2>2 DEF Sa1Good, MainLine, IrqLine, NmiLine, Super!LinesAgree
  <2>4. Super!HeldStill /\ Super!EndNoticed /\ Super!NmiReaches
    BY <2>2 DEF Sa1Good, Still, Ended, Reaches, Super!HeldStill, Super!EndNoticed, Super!NmiReaches
  <2> QED
    BY <2>3, <2>4 DEF Super!MessagesArrive
<1> QED
  BY <1>1, Sa1Init, Sa1Next, PTL DEF Spec

----------------------------------------------------------------------------
(* The DSPs.                                                               *)

DspFields  == {"rqm", "eight", "half", "data", "call", "at", "args", "params"}
HostFields == {"chip", "call", "written", "read", "got", "v", "sent"}

\* What the protocol needs of a command: a parameter it sets it does not use.
IsCall(c) ==
  /\ DOMAIN c = {"cmd", "uses", "sets", "w", "asks", "offers"}
  /\ c.w \in {1, 2} /\ c.asks \in Nat /\ c.offers \in Nat
  /\ c.uses \in Nec!Params /\ c.sets \in Nec!Params /\ (c.uses = "none" \/ c.sets # c.uses)
  /\ c.sets # "none" => c.asks > 0
  /\ c.cmd = <<"raster">> => c.w = 2 /\ c.asks = 1 /\ c.offers = 4 /\ c.sets = "none"
  /\ c # Nec!Idle
Length(c) == c.asks + c.offers

\* The i-th piece of what the host sends for a call, and the first n.
Piece(c, v, i)  == [h \in 1 .. c.w |-> Nec!Byte((i - 1) * c.w + h, v)]
Pieces(c, v, n) == [i \in 1 .. n |-> Piece(c, v, i)]

\* The parameters once a call has what it asks for.
Parameters(c, v, sent) ==
  IF c.sets = "none" THEN sent ELSE [sent EXCEPT ![c.sets] = Pieces(c, v, c.asks)]
Answer(c, v, sent, k) == <<c.cmd, k, Pieces(c, v, c.asks), sent[c.uses]>>

IsChip(d) == /\ DOMAIN d = DspFields /\ d.data = <<d.data[1], d.data[2]>> /\ DOMAIN d.params = Nec!Params
             /\ {d.rqm, d.eight, d.half} \subseteq BOOLEAN /\ d.at \in Nat

\* The chip waits for a command.
AtCommand(d, sent) ==
  /\ IsChip(d) /\ d.rqm /\ d.eight /\ ~d.half /\ d.call = Nec!Idle /\ d.at = 0 /\ d.args = <<>>
  /\ d.params = sent

\* The chip waits for the access after h bytes of call c's j-th piece.
Stands(d, c, j, h) ==
  /\ IsChip(d) /\ d.rqm /\ d.call = c /\ d.at = j /\ j \in 1 .. Length(c) /\ h \in 0 .. c.w - 1
  /\ (d.eight <=> c.w = 1) /\ (d.half <=> h = 1)
Asks(d, c, v, sent, j, h) ==
  j <= c.asks => /\ d.args = Pieces(c, v, j - 1) /\ d.params = sent
                 /\ h = 1 => d.data[1] = Piece(c, v, j)[1]
Offers(d, c, v, sent, j) ==
  j > c.asks => /\ d.args = Pieces(c, v, c.asks) /\ d.params = Parameters(c, v, sent)
                /\ d.data[1] = Nec!Half(Answer(c, v, sent, j - c.asks), 0)
                /\ c.w = 2 => d.data[2] = Nec!Half(Answer(c, v, sent, j - c.asks), 1)
Waits(d, c, v, sent, j, h) ==
  Stands(d, c, j, h) /\ Asks(d, c, v, sent, j, h) /\ Offers(d, c, v, sent, j)

\* A call's j-th piece has passed (none, for j = 0), and the chip has not gone on.
HasPassed(d, c, v, sent, j) ==
  /\ IsChip(d) /\ ~d.rqm /\ ~d.half /\ d.call = c /\ d.at = j /\ j \in 0 .. Length(c)
  /\ j > 0 => (d.eight <=> c.w = 1)
  /\ j = 0 => d.args = <<>> /\ d.params = sent
  /\ j > 0 /\ j <= c.asks =>
       /\ d.args = Pieces(c, v, j - 1) /\ d.params = sent
       /\ d.data[1] = Piece(c, v, j)[1] /\ (c.w = 2 => d.data[2] = Piece(c, v, j)[2])
  /\ j > c.asks => /\ d.args = Pieces(c, v, c.asks) /\ d.params = Parameters(c, v, sent)

IsHost(h) ==
  /\ DOMAIN h = HostFields /\ h.chip \in {"DSP1", "DSP2"} /\ DOMAIN h.sent = Nec!Params
  /\ h.call = Nec!Idle \/ /\ IsCall(h.call)
                          /\ h.written \in 0 .. h.call.asks * h.call.w
                          /\ h.read \in 0 .. h.call.offers * h.call.w
                          /\ h.read > 0 => h.written = h.call.asks * h.call.w
  /\ h.call = Nec!Idle => h.written = 0 /\ h.read = 0

\* The chip has gone on from the b-th byte of a call.
Reached(d, c, v, sent, b) ==
  /\ b < Length(c) * c.w => Waits(d, c, v, sent, b \div c.w + 1, b % c.w)
  /\ b = Length(c) * c.w =>
       IF c.cmd = <<"raster">> THEN Waits(d, c, v, sent, c.asks + 1, 0)
       ELSE AtCommand(d, Parameters(c, v, sent))

\* The byte the host read last.
Received(h) ==
  h.read > 0 =>
    h.got = <<Nec!Half(Answer(h.call, h.v, h.sent, (h.read - 1) \div h.call.w + 1),
                       (h.read - 1) % h.call.w)>>

\* How far the chip is, by what the host has passed.
DspGood(d, h) ==
  /\ IsChip(d) /\ IsHost(h) /\ Received(h)
  /\ IF h.call = Nec!Idle THEN AtCommand(Nec!Run(d), h.sent)
     ELSE Reached(Nec!Run(d), h.call, h.v, h.sent, h.written + h.read)

\* Every command of both chips is one of these.
LEMMA DspCalls ==
  ASSUME NEW chip PROVE \A c \in Nec!Calls(chip) : IsCall(c)
<1> DEFINE Common(c) == /\ DOMAIN c = {"cmd", "uses", "sets", "w", "asks", "offers"}
                        /\ c.w \in {1, 2} /\ c.asks \in Nat /\ c.offers \in Nat
                        /\ c.cmd # <<"idle">>
                        /\ c.uses \in Nec!Params /\ c.sets \in Nec!Params
                        /\ (c.sets = "none" \/ c.sets # c.uses)
                        /\ c.sets # "none" => c.asks > 0
                        /\ c.cmd = <<"raster">> => c.w = 2 /\ c.asks = 1 /\ c.offers = 4 /\ c.sets = "none"
<1>1. Nec!Idle.cmd = <<"idle">>
  BY DEF Nec!Idle, Nec!Bytes, Nec!Script
<1>2. ASSUME NEW c, Common(c) PROVE IsCall(c)
  BY <1>1, <1>2 DEF IsCall
<1>3. ASSUME NEW w \in {1, 2}, NEW m, NEW uses \in Nec!Params, NEW sets \in Nec!Params,
             NEW a \in Nat, NEW o \in Nat, m # <<"idle">>, sets = "none" \/ sets # uses,
             sets # "none" => a > 0, m = <<"raster">> => w = 2 /\ a = 1 /\ o = 4 /\ sets = "none"
      PROVE  IsCall(Nec!Script(w, m, uses, sets, a, o))
  BY <1>2, <1>3 DEF Nec!Script
<1> HIDE DEF Common
<1>4. Nec!Params = {"matrix0", "matrix1", "matrix2", "projection", "color", "none"}
  BY DEF Nec!Params, Nec!Matrices
<1>5. ASSUME NEW c \in Nec!DSP1 PROVE IsCall(c)
  <2>1. CASE c \in Nec!Unknown \cup Nec!Multiplication \cup Nec!InverseOf \cup Nec!Triangle
    BY <1>3, <1>4, <2>1 DEF Nec!Unknown, Nec!Multiplication, Nec!InverseOf, Nec!Triangle, Nec!Words
  <2>2. CASE c \in Nec!Gyrate \cup Nec!Rotate \cup Nec!Polar
    BY <1>3, <1>4, <2>2 DEF Nec!Gyrate, Nec!Rotate, Nec!Polar, Nec!Words
  <2>3. ASSUME c \in Nec!Attitude \cup Nec!Objective \cup Nec!Subjective \cup Nec!Scalar
        PROVE  IsCall(c)
    <3>1. PICK k \in Nec!Matrices :
            \/ c = Nec!Words(<<"attitude", k>>, "none", k, 4, 0)
            \/ c = Nec!Words(<<"objective", k>>, k, "none", 3, 3)
            \/ c = Nec!Words(<<"subjective", k>>, k, "none", 3, 3)
            \/ c = Nec!Words(<<"scalar", k>>, k, "none", 3, 1)
      BY <2>3 DEF Nec!Attitude, Nec!Objective, Nec!Subjective, Nec!Scalar
    <3>2. k \in Nec!Params /\ k # "none" /\ "none" \in Nec!Params
      BY <1>4, <3>1 DEF Nec!Matrices
    <3>3. \A m : <<m, k>> # <<"idle">> /\ <<m, k>> # <<"raster">>
      OBVIOUS
    <3> QED
      BY <1>3, <3>1, <3>2, <3>3 DEF Nec!Words
  <2>4. CASE c \in Nec!Parameter \cup Nec!Project \cup Nec!Target \cup Nec!Raster
    BY <1>3, <1>4, <2>4 DEF Nec!Parameter, Nec!Project, Nec!Target, Nec!Raster, Nec!Words
  <2>5. CASE c \in Nec!Vectors \cup Nec!Tests
    <3>1. DspDump \in Nat
      BY DspAssumption DEF DspAssumption
    <3> QED
      BY <1>3, <1>4, <2>5, <3>1 DEF Nec!Vectors, Nec!Tests, Nec!Words
  <2> QED
    BY <2>1, <2>2, <2>3, <2>4, <2>5 DEF Nec!DSP1
<1>6. ASSUME NEW c \in Nec!DSP2 PROVE IsCall(c)
  <2>1. CASE c \in Nec!Unknown \cup Nec!Convert \cup Nec!Transparent \cup Nec!Multiply \cup Nec!Sync
    BY <1>3, <1>4, <2>1 DEF Nec!Unknown, Nec!Convert, Nec!Transparent, Nec!Multiply, Nec!Sync,
       Nec!Words, Nec!Bytes
  <2>2. ASSUME c \in Nec!Replace \cup Nec!Backwards PROVE IsCall(c)
    <3>1. PICK n \in Nat, len \in Nat :
            \/ c = Nec!Bytes(<<"replace", len>>, "color", "none", 1 + 2 * n, n)
            \/ c = Nec!Bytes(<<"reverse", len>>, "none", "none", 1 + len, len)
      <4>1. \A len \in DspLens \cup {0} : len \in Nat /\ Nec!Shorter(len, DspLimit) \in Nat
        BY DspAssumption DEF DspAssumption, Nec!Shorter
      <4> QED
        BY <2>2, <4>1 DEF Nec!Replace, Nec!Backwards
    <3>2. <<"replace", len>> # <<"idle">> /\ <<"replace", len>> # <<"raster">>
          /\ <<"reverse", len>> # <<"idle">> /\ <<"reverse", len>> # <<"raster">>
      OBVIOUS
    <3>3. 1 + 2 * n \in Nat /\ 1 + len \in Nat
      OBVIOUS
    <3> QED
      BY <1>3, <1>4, <3>1, <3>2, <3>3 DEF Nec!Bytes
  <2>3. ASSUME c \in Nec!Scale PROVE IsCall(c)
    <3> DEFINE F(i, o) == Nec!Bytes(<<"scale", i, o>>, "none", "none",
                                   2 + (i + 1) \div 2, (o + 1) \div 2)
    <3>0. Nec!Scale = {F(i, o) : i \in DspLens, o \in DspLens}
      BY DEF Nec!Scale
    <3> HIDE DEF F
    <3>1. PICK i \in DspLens, o \in DspLens : c = F(i, o)
      BY <2>3, <3>0
    <3>2. <<"scale", i, o>> # <<"idle">> /\ <<"scale", i, o>> # <<"raster">>
      OBVIOUS
    <3>3. 2 + ((i + 1) \div 2) \in Nat /\ (o + 1) \div 2 \in Nat
      BY DspAssumption DEF DspAssumption
    <3> QED
      BY <1>3, <1>4, <3>1, <3>2, <3>3 DEF Nec!Bytes, F
  <2> QED
    BY <2>1, <2>2, <2>3 DEF Nec!DSP2
<1> QED
  BY <1>5, <1>6 DEF Nec!Calls

\* What has been sent grows by a piece.
LEMMA DspPieces ==
  ASSUME NEW c, IsCall(c), NEW v, NEW n \in Nat
  PROVE  /\ Pieces(c, v, 0) = <<>>
         /\ Append(Pieces(c, v, n), Piece(c, v, n + 1)) = Pieces(c, v, n + 1)
<1> DEFINE F(i) == Piece(c, v, i)
<1>1. Pieces(c, v, 0) = [i \in 1 .. 0 |-> F(i)] /\ Pieces(c, v, n) = [i \in 1 .. n |-> F(i)]
      /\ Pieces(c, v, n + 1) = [i \in 1 .. n + 1 |-> F(i)] /\ Piece(c, v, n + 1) = F(n + 1)
  BY DEF Pieces
<1> HIDE DEF F
<1> DEFINE S == {F(i) : i \in 1 .. n + 1}
           p == [i \in 1 .. n |-> F(i)]
           q == [i \in 1 .. n + 1 |-> F(i)]
<1>2. p \in Seq(S) /\ Len(p) = n /\ q \in Seq(S) /\ Len(q) = n + 1 /\ F(n + 1) \in S
  OBVIOUS
<1>3. /\ Append(p, F(n + 1)) \in Seq(S) /\ Len(Append(p, F(n + 1))) = n + 1
      /\ \A i \in 1 .. n + 1 : Append(p, F(n + 1))[i] = q[i]
  BY <1>2
<1>4. Append(p, F(n + 1)) = q
  BY <1>2, <1>3
<1> QED
  BY <1>1, <1>4

LEMMA DspPiece ==
  ASSUME NEW c, IsCall(c), NEW v, NEW i \in Nat, NEW d, d = <<d[1], d[2]>>
  PROVE  /\ c.w = 1 /\ d[1] = Piece(c, v, i)[1] => <<d[1]>> = Piece(c, v, i)
         /\ c.w = 2 /\ d[1] = Piece(c, v, i)[1] /\ d[2] = Piece(c, v, i)[2] => d = Piece(c, v, i)
<1> DEFINE p == Piece(c, v, i)
<1>1. p = [h \in 1 .. c.w |-> p[h]] /\ c.w \in {1, 2}
  BY DEF Piece, IsCall
<1> HIDE DEF p
<1>2. ASSUME c.w = 1, d[1] = p[1] PROVE <<d[1]>> = p
  BY <1>1, <1>2
<1>3. ASSUME c.w = 2, d[1] = p[1], d[2] = p[2] PROVE d = p
  <2>1. <<p[1], p[2]>> = p
    BY <1>1, <1>3
  <2> QED
    BY <1>3, <2>1
<1> QED
  BY <1>2, <1>3 DEF p

\* The chip's next wait: for the j-th piece, or with it.
LEMMA DspWait ==
  ASSUME NEW c, IsCall(c), NEW v, NEW sent, DOMAIN sent = Nec!Params,
         NEW j \in 1 .. Length(c), NEW d, IsChip(d), ~d.half, d.call = c, d.at = j,
         j <= c.asks => d.args = Pieces(c, v, j - 1) /\ d.params = sent,
         j > c.asks => d.args = Pieces(c, v, c.asks) /\ d.params = Parameters(c, v, sent)
  PROVE  Waits(Nec!Wait(d), c, v, sent, j, 0)
<1> DEFINE r == Nec!Result(d, j - c.asks)
           t == [d EXCEPT !.rqm = TRUE, !.eight = c.w = 1]
           x == <<Nec!Half(r, 0), IF c.w = 1 THEN d.data[2] ELSE Nec!Half(r, 1)>>
           u == [t EXCEPT !.data = x]
<1>1. j \in Nat /\ c.asks \in Nat /\ c.w \in {1, 2} /\ c.uses \in Nec!Params
  BY DEF IsCall, Length
<1>2. d.at \in Nat /\ DOMAIN d = DspFields /\ DOMAIN d.params = Nec!Params
  BY DEF IsChip
<1>3. PICK e \in BOOLEAN : e = (c.w = 1)
  OBVIOUS
<1>4. t = [d EXCEPT !.rqm = TRUE, !.eight = e]
  BY <1>3
<1> HIDE DEF t
<1>5. /\ DOMAIN t = DspFields /\ t.rqm = TRUE /\ t.eight = e /\ t.half = d.half /\ t.data = d.data
      /\ t.call = c /\ t.at = j /\ t.args = d.args /\ t.params = d.params
  BY <1>2, <1>4 DEF DspFields
<1>6. IsChip(t)
  BY <1>2, <1>5 DEF IsChip
<1>7. Nec!Wait(d) = IF j <= c.asks THEN t ELSE u
  BY DEF Nec!Wait, t
<1>8. Stands(t, c, j, 0)
  <2>1. t.eight <=> c.w = 1
    BY <1>3, <1>5, Zenon
  <2>2. ~t.half /\ t.rqm
    BY <1>5, Zenon
  <2>3. 0 \in 0 .. c.w - 1
    BY <1>1
  <2> QED
    BY <1>5, <1>6, <2>1, <2>2, <2>3 DEF Stands
<1>9. CASE j <= c.asks
  <2>1. Asks(t, c, v, sent, j, 0) /\ Offers(t, c, v, sent, j)
    BY <1>1, <1>5, <1>9 DEF Asks, Offers
  <2> QED
    BY <1>7, <1>8, <1>9, <2>1 DEF Waits
<1>10. CASE j > c.asks
  <2>1. r = Answer(c, v, sent, j - c.asks)
    <3>1. d.params[c.uses] = sent[c.uses]
      BY <1>1, <1>10 DEF Parameters, IsCall
    <3> QED
      BY <1>10, <3>1 DEF Nec!Result, Answer
  <2>2. x = <<x[1], x[2]>> /\ x[1] = Nec!Half(r, 0) /\ (c.w = 2 => x[2] = Nec!Half(r, 1))
    OBVIOUS
  <2> HIDE DEF x, r
  <2>3. /\ DOMAIN u = DspFields /\ u.rqm = t.rqm /\ u.eight = t.eight /\ u.half = t.half
        /\ u.data = x /\ u.call = t.call /\ u.at = t.at /\ u.args = t.args /\ u.params = t.params
    BY <1>5 DEF DspFields
  <2>4. Nec!Wait(d) = u
    BY <1>1, <1>7, <1>10
  <2> HIDE DEF u
  <2>5. IsChip(u)
    BY <1>5, <1>6, <2>2, <2>3 DEF IsChip
  <2>6. Stands(u, c, j, 0)
    BY <1>8, <2>3, <2>5 DEF Stands
  <2>7. Asks(u, c, v, sent, j, 0) /\ Offers(u, c, v, sent, j)
    BY <1>1, <1>5, <1>10, <2>1, <2>2, <2>3 DEF Asks, Offers
  <2> QED
    BY <2>4, <2>6, <2>7 DEF Waits
<1> QED
  BY <1>1, <1>9, <1>10

\* An argument is taken, and with the last the parameter it sets.
LEMMA DspTook ==
  ASSUME NEW c, IsCall(c), NEW v, NEW sent, DOMAIN sent = Nec!Params, NEW d, NEW j \in Nat,
         HasPassed(d, c, v, sent, j), j > 0, j <= c.asks
  PROVE  LET t == Nec!Took(d)
         IN  /\ IsChip(t) /\ t.call = c /\ t.at = j /\ ~t.half /\ t.args = Pieces(c, v, j)
             /\ t.params = IF j = c.asks THEN Parameters(c, v, sent) ELSE sent
<1> DEFINE a == Append(d.args, IF d.eight THEN <<d.data[1]>> ELSE d.data)
           q == IF c.sets # "none" /\ j = c.asks THEN [d.params EXCEPT ![c.sets] = a] ELSE d.params
           t == [d EXCEPT !.args = a, !.params = q]
<1>1. /\ IsChip(d) /\ ~d.half /\ d.call = c /\ d.at = j /\ (d.eight <=> c.w = 1)
      /\ d.args = Pieces(c, v, j - 1) /\ d.params = sent
      /\ d.data[1] = Piece(c, v, j)[1] /\ (c.w = 2 => d.data[2] = Piece(c, v, j)[2])
      /\ d.data = <<d.data[1], d.data[2]>>
  BY DEF HasPassed, IsChip
<1>2. c.asks \in Nat /\ c.w \in {1, 2} /\ c.sets \in Nec!Params
  BY DEF IsCall
<1>3. Nec!Took(d) = t
  BY <1>1, <1>2 DEF Nec!Took
<1>4. a = Pieces(c, v, j)
  <2>1. Append(Pieces(c, v, j - 1), Piece(c, v, j)) = Pieces(c, v, j)
    <3>1. j - 1 \in Nat /\ (j - 1) + 1 = j
      OBVIOUS
    <3> QED
      BY <3>1, DspPieces
  <2>2. CASE c.w = 1
    <3>1. <<d.data[1]>> = Piece(c, v, j)
      BY <1>1, <2>2, DspPiece
    <3> QED
      BY <1>1, <2>1, <2>2, <3>1
  <2>3. CASE c.w = 2
    <3>1. d.data[1] = Piece(c, v, j)[1] /\ d.data[2] = Piece(c, v, j)[2]
          /\ d.data = <<d.data[1], d.data[2]>>
      BY <1>1, <2>3
    <3>2. d.data = Piece(c, v, j)
      BY <2>3, <3>1, DspPiece
    <3> QED
      BY <1>1, <2>1, <2>3, <3>2
  <2> QED
    BY <1>2, <2>2, <2>3
<1> HIDE DEF a
<1>5. q = IF j = c.asks THEN Parameters(c, v, sent) ELSE sent
  BY <1>1, <1>4 DEF Parameters
<1>6. DOMAIN q = Nec!Params
  BY <1>1
<1> HIDE DEF q
<1>7. /\ DOMAIN t = DspFields /\ t.rqm = d.rqm /\ t.eight = d.eight /\ t.half = d.half /\ t.data = d.data
      /\ t.call = d.call /\ t.at = d.at /\ t.args = a /\ t.params = q
  BY <1>1 DEF IsChip, DspFields
<1> HIDE DEF t
<1>8. IsChip(t)
  BY <1>1, <1>6, <1>7 DEF IsChip
<1>9. ~t.half
  BY <1>1, <1>7, Zenon
<1> QED
  BY <1>1, <1>3, <1>4, <1>5, <1>7, <1>8, <1>9

\* What a Run goes on with.
LEMMA DspTaken ==
  ASSUME NEW c, IsCall(c), NEW v, NEW sent, DOMAIN sent = Nec!Params, NEW d, NEW j \in Nat,
         HasPassed(d, c, v, sent, j)
  PROVE  LET t == IF d.at = 0 THEN d ELSE Nec!Took(d)
         IN  /\ IsChip(t) /\ t.call = c /\ t.at = j /\ ~t.half
             /\ j < c.asks => t.args = Pieces(c, v, j) /\ t.params = sent
             /\ j >= c.asks => t.args = Pieces(c, v, c.asks) /\ t.params = Parameters(c, v, sent)
<1> DEFINE t == IF d.at = 0 THEN d ELSE Nec!Took(d)
<1>1. IsChip(d) /\ ~d.rqm /\ ~d.half /\ d.call = c /\ d.at = j
  BY DEF HasPassed
<1>2. c.asks \in Nat /\ c.offers \in Nat /\ (c.sets # "none" => c.asks > 0)
  BY DEF IsCall
<1>3. /\ IsChip(t) /\ t.call = c /\ t.at = j /\ ~t.half
      /\ j < c.asks => t.args = Pieces(c, v, j) /\ t.params = sent
      /\ j >= c.asks => t.args = Pieces(c, v, c.asks) /\ t.params = Parameters(c, v, sent)
  <2>1. CASE j = 0
    <3>1. t = d /\ d.args = <<>> /\ d.params = sent
      BY <1>1, <2>1 DEF HasPassed
    <3>2. Pieces(c, v, 0) = <<>>
      BY DspPieces
    <3>3. c.asks = 0 => Parameters(c, v, sent) = sent
      BY <1>2 DEF Parameters
    <3> HIDE DEF t
    <3> QED
      BY <1>1, <1>2, <2>1, <3>1, <3>2, <3>3
  <2>2. CASE j > 0 /\ j <= c.asks
    <3>1. t = Nec!Took(d)
      BY <1>1, <2>2
    <3> HIDE DEF t
    <3> QED
      BY <1>2, <2>2, <3>1, DspTook
  <2>3. CASE j > c.asks
    <3>1. t = d
      BY <1>1, <2>3 DEF Nec!Took
    <3>2. d.args = Pieces(c, v, c.asks) /\ d.params = Parameters(c, v, sent)
      BY <2>3 DEF HasPassed
    <3> HIDE DEF t
    <3> QED
      BY <1>1, <1>2, <2>3, <3>1, <3>2
  <2> QED
    BY <1>2, <2>1, <2>2, <2>3
<1> QED
  BY <1>3

\* With the next Run the chip goes on to the next piece ...
LEMMA DspRunOn ==
  ASSUME NEW c, IsCall(c), NEW v, NEW sent, DOMAIN sent = Nec!Params, NEW d, NEW j \in Nat,
         HasPassed(d, c, v, sent, j), j < Length(c)
  PROVE  Waits(Nec!Run(d), c, v, sent, j + 1, 0)
<1> DEFINE t == IF d.at = 0 THEN d ELSE Nec!Took(d)
           e == [t EXCEPT !.at = t.at + 1]
<1>1. IsChip(d) /\ ~d.rqm /\ ~d.half /\ d.call = c /\ d.at = j
  BY DEF HasPassed
<1>2. c.asks \in Nat /\ c.offers \in Nat
  BY DEF IsCall
<1>3. /\ IsChip(t) /\ t.call = c /\ t.at = j /\ ~t.half
      /\ j < c.asks => t.args = Pieces(c, v, j) /\ t.params = sent
      /\ j >= c.asks => t.args = Pieces(c, v, c.asks) /\ t.params = Parameters(c, v, sent)
  BY DspTaken
<1>4. Nec!Run(d) = Nec!Wait(e)
  BY <1>1 DEF Nec!Run, Length
<1> HIDE DEF t
<1>5. /\ DOMAIN e = DspFields /\ e.rqm = t.rqm /\ e.eight = t.eight /\ e.half = t.half
      /\ e.data = t.data /\ e.call = t.call /\ e.at = j + 1 /\ e.args = t.args /\ e.params = t.params
  BY <1>3 DEF IsChip, DspFields
<1> HIDE DEF e
<1>6. IsChip(e)
  BY <1>3, <1>5 DEF IsChip
<1>7. ~e.half
  BY <1>3, <1>5, Zenon
<1>8. j + 1 \in 1 .. Length(c)
  BY <1>2 DEF Length
<1>9. /\ j + 1 <= c.asks => e.args = Pieces(c, v, (j + 1) - 1) /\ e.params = sent
      /\ j + 1 > c.asks => e.args = Pieces(c, v, c.asks) /\ e.params = Parameters(c, v, sent)
  <2>1. (j + 1) - 1 = j
    OBVIOUS
  <2> QED
    BY <1>2, <1>3, <1>5, <2>1
<1>10. Waits(Nec!Wait(e), c, v, sent, j + 1, 0)
  BY <1>3, <1>5, <1>6, <1>7, <1>8, <1>9, DspWait
<1> QED
  BY <1>4, <1>10

LEMMA DspFinished ==
  ASSUME NEW t, IsChip(t), ~t.half
  PROVE  AtCommand(Nec!Finished(t), t.params)
<1> DEFINE e == [t EXCEPT !.data = <<Nec!Zero, Nec!Zero>>]
           f == [e EXCEPT !.call = Nec!Idle, !.at = 0, !.args = <<>>, !.rqm = TRUE, !.eight = TRUE]
<1>1. Nec!Finished(t) = f
  BY DEF Nec!Finished, Nec!AwaitCommand
<1>2. /\ DOMAIN e = DspFields /\ e.half = t.half /\ e.data = <<Nec!Zero, Nec!Zero>> /\ e.params = t.params
  BY DEF IsChip, DspFields
<1> HIDE DEF e
<1>3. /\ DOMAIN f = DspFields /\ f.half = t.half /\ f.data = <<Nec!Zero, Nec!Zero>> /\ f.params = t.params
      /\ f.call = Nec!Idle /\ f.at = 0 /\ f.args = <<>> /\ f.rqm = TRUE /\ f.eight = TRUE
  BY <1>2 DEF DspFields
<1> HIDE DEF f
<1>4. ~f.half /\ f.rqm /\ f.eight
  BY <1>3, Zenon
<1>5. {f.rqm, f.eight, f.half} \subseteq BOOLEAN
  BY <1>3 DEF IsChip
<1>6. f.data = <<f.data[1], f.data[2]>> /\ DOMAIN f.params = Nec!Params
  BY <1>3 DEF IsChip
<1>7. IsChip(f)
  BY <1>3, <1>5, <1>6 DEF IsChip
<1> QED
  BY <1>1, <1>3, <1>4, <1>7 DEF AtCommand

\* ... or, after the last, to the next command ...
LEMMA DspRunEnd ==
  ASSUME NEW c, IsCall(c), NEW v, NEW sent, DOMAIN sent = Nec!Params, NEW d,
         HasPassed(d, c, v, sent, Length(c)), ~Nec!Again(d)
  PROVE  AtCommand(Nec!Run(d), Parameters(c, v, sent))
<1> DEFINE t == IF d.at = 0 THEN d ELSE Nec!Took(d)
<1>1. c.asks \in Nat /\ c.offers \in Nat /\ Length(c) \in Nat /\ Length(c) >= c.asks
      /\ Length(c) = c.asks + c.offers
  BY DEF IsCall, Length
<1>2. ~d.rqm /\ d.call = c /\ d.at = Length(c)
  BY DEF HasPassed
<1>3. IsChip(t) /\ ~t.half /\ t.params = Parameters(c, v, sent)
  <2> DEFINE j == Length(c)
  <2>1. j \in Nat /\ HasPassed(d, c, v, sent, j) /\ j >= c.asks
    BY <1>1
  <2> HIDE DEF j
  <2> QED
    BY <2>1, DspTaken
<1>4. Nec!Run(d) = Nec!Finished(t)
  BY <1>1, <1>2 DEF Nec!Run
<1> HIDE DEF t
<1> QED
  BY <1>3, <1>4, DspFinished

\* ... but from a line of the mode 7 matrices to the next line.
LEMMA DspRunLines ==
  ASSUME NEW c, IsCall(c), NEW v, NEW sent, DOMAIN sent = Nec!Params, NEW d,
         HasPassed(d, c, v, sent, Length(c)), c.cmd = <<"raster">>
  PROVE  /\ /\ d.data[1] = Nec!Half(Answer(c, v, sent, 4), 0)
            /\ d.data[2] = Nec!Half(Answer(c, v, sent, 4), 1)
            => Waits(Nec!Run(d), c, v, sent, 2, 0)
         /\ d.data = <<Nec!Other, Nec!Other>> => ~Nec!Again(d)
<1>1. c.w = 2 /\ c.asks = 1 /\ c.offers = 4 /\ c.sets = "none" /\ c.uses \in Nec!Params
      /\ Length(c) = 5
  BY DEF IsCall, Length
<1>2. /\ IsChip(d) /\ ~d.rqm /\ ~d.half /\ d.call = c /\ d.at = 5
      /\ d.args = Pieces(c, v, c.asks) /\ d.params = sent /\ d.data = <<d.data[1], d.data[2]>>
  BY <1>1 DEF HasPassed, Parameters, IsChip
<1>3. Nec!Result(d, 4) = Answer(c, v, sent, 4)
  BY <1>2 DEF Nec!Result, Answer
<1>4. ASSUME d.data[1] = Nec!Half(Answer(c, v, sent, 4), 0),
             d.data[2] = Nec!Half(Answer(c, v, sent, 4), 1)
      PROVE  Waits(Nec!Run(d), c, v, sent, 2, 0)
  <2> DEFINE e == [d EXCEPT !.at = 2]
  <2>1. Nec!Again(d)
    BY <1>2, <1>3, <1>4 DEF Nec!Again
  <2>2. (IF d.at = 0 THEN d ELSE Nec!Took(d)) = d
    BY <1>1, <1>2 DEF Nec!Took
  <2>3. Nec!Run(d) = Nec!Wait(e)
    <3>1. d.call.asks = 1 /\ d.call.offers = 4
      BY <1>1, <1>2
    <3> QED
      BY <1>2, <2>1, <2>2, <3>1 DEF Nec!Run
  <2>4. /\ DOMAIN e = DspFields /\ e.rqm = d.rqm /\ e.eight = d.eight /\ e.half = d.half
        /\ e.data = d.data /\ e.call = c /\ e.at = 2 /\ e.args = d.args /\ e.params = d.params
    BY <1>2 DEF IsChip, DspFields
  <2> HIDE DEF e
  <2>5. IsChip(e)
    BY <1>2, <2>4 DEF IsChip
  <2>6. ~e.half
    BY <1>2, <2>4, Zenon
  <2>7. e.params = Parameters(c, v, sent)
    BY <1>1, <1>2, <2>4 DEF Parameters
  <2> QED
    BY <1>1, <1>2, <2>3, <2>4, <2>5, <2>6, <2>7, DspWait
<1>5. ASSUME d.data = <<Nec!Other, Nec!Other>> PROVE ~Nec!Again(d)
  <2>1. d.data[1] # Nec!Half(Nec!Result(d, 4), 0)
    BY <1>5 DEF Nec!Other, Nec!Half
  <2> QED
    BY <2>1 DEF Nec!Again
<1> QED
  BY <1>4, <1>5

\* An access passes a byte, and with a piece's last the piece.
LEMMA DspPassed ==
  ASSUME NEW c, IsCall(c), NEW d, NEW j, NEW h, Stands(d, c, j, h)
  PROVE  LET p == Nec!Passed(d)
         IN  /\ IsChip(p) /\ p.data = d.data /\ p.call = c /\ p.at = j
             /\ p.args = d.args /\ p.params = d.params /\ (p.eight <=> c.w = 1)
             /\ h + 1 < c.w => Stands(p, c, j, h + 1)
             /\ h + 1 >= c.w => ~p.rqm /\ ~p.half
<1>1. /\ IsChip(d) /\ d.rqm /\ d.call = c /\ d.at = j /\ j \in 1 .. Length(c) /\ h \in 0 .. c.w - 1
      /\ (d.eight <=> c.w = 1) /\ (d.half <=> h = 1) /\ c.w \in {1, 2}
  BY DEF Stands, IsCall
<1> DEFINE last == IF d.eight THEN d.half ELSE ~d.half
<1>2. last <=> h + 1 < c.w
  BY <1>1
<1>3. PICK x \in BOOLEAN : x = last
  BY <1>1 DEF IsChip
<1>4. d.rqm \in BOOLEAN /\ d.rqm = TRUE
  <2>1. d.rqm \in BOOLEAN
    BY <1>1 DEF IsChip
  <2> QED
    BY <1>1, <2>1
<1> DEFINE p == [d EXCEPT !.half = last, !.rqm = d.rqm /\ last]
           q == [d EXCEPT !.half = x, !.rqm = x]
<1>5. Nec!Passed(d) = p
  BY DEF Nec!Passed
<1>6. (d.rqm /\ last) = x
  BY <1>3, <1>4
<1>7. p = q
  BY <1>3, <1>6
<1> HIDE DEF p, last
<1>8. /\ DOMAIN q = DspFields /\ q.rqm = x /\ q.half = x /\ q.eight = d.eight /\ q.data = d.data
      /\ q.call = d.call /\ q.at = d.at /\ q.args = d.args /\ q.params = d.params
  BY <1>1 DEF IsChip, DspFields
<1> HIDE DEF q
<1>9. {q.rqm, q.eight, q.half} \subseteq BOOLEAN
  BY <1>1, <1>3, <1>8 DEF IsChip
<1>10. IsChip(q)
  BY <1>1, <1>8, <1>9 DEF IsChip
<1>11. q.eight <=> c.w = 1
  BY <1>1, <1>8, Zenon
<1>12. x <=> h + 1 < c.w
  BY <1>2, <1>3
<1>13. ASSUME h + 1 < c.w PROVE Stands(q, c, j, h + 1)
  <2>1. q.rqm /\ q.half
    BY <1>8, <1>12, <1>13, Zenon
  <2>2. h + 1 = 1 /\ h + 1 \in 0 .. c.w - 1
    BY <1>1, <1>13
  <2> QED
    BY <1>1, <1>8, <1>10, <1>11, <2>1, <2>2 DEF Stands
<1>14. ASSUME h + 1 >= c.w PROVE ~q.rqm /\ ~q.half
  <2>1. ~(h + 1 < c.w)
    BY <1>1, <1>14
  <2> QED
    BY <1>8, <1>12, <2>1, Zenon
<1> QED
  BY <1>1, <1>5, <1>7, <1>8, <1>10, <1>11, <1>13, <1>14

\* A byte is written in its half of the port.
LEMMA DspPut ==
  ASSUME NEW c, IsCall(c), NEW d, NEW j, NEW h, Stands(d, c, j, h), NEW x
  PROVE  LET e == [d EXCEPT !.data[IF d.half THEN 2 ELSE 1] = x]
         IN  /\ Stands(e, c, j, h) /\ e.args = d.args /\ e.params = d.params
             /\ h = 0 => e.data[1] = x
             /\ h = 1 => e.data[2] = x /\ e.data[1] = d.data[1]
<1>1. /\ IsChip(d) /\ d.rqm /\ d.call = c /\ d.at = j /\ h \in {0, 1}
      /\ (d.eight <=> c.w = 1) /\ (d.half <=> h = 1) /\ c.w \in {1, 2}
  BY DEF Stands, IsCall
<1> DEFINE i == IF d.half THEN 2 ELSE 1
           y == [d.data EXCEPT ![i] = x]
           e == [d EXCEPT !.data = y]
<1>2. i = h + 1
  BY <1>1
<1>3. d.data = <<d.data[1], d.data[2]>>
  BY <1>1 DEF IsChip
<1> HIDE DEF i
<1>4. /\ y = <<y[1], y[2]>>
      /\ h = 0 => y[1] = x
      /\ h = 1 => y[2] = x /\ y[1] = d.data[1]
  BY <1>1, <1>2, <1>3
<1> HIDE DEF y
<1>5. /\ DOMAIN e = DspFields /\ e.rqm = d.rqm /\ e.half = d.half /\ e.eight = d.eight /\ e.data = y
      /\ e.call = d.call /\ e.at = d.at /\ e.args = d.args /\ e.params = d.params
  BY <1>1 DEF IsChip, DspFields
<1>6. [d EXCEPT !.data[IF d.half THEN 2 ELSE 1] = x] = e
  BY DEF i, y
<1> HIDE DEF e
<1>7. IsChip(e)
  BY <1>1, <1>4, <1>5 DEF IsChip
<1>8. e.rqm /\ (e.eight <=> c.w = 1) /\ (e.half <=> h = 1)
  BY <1>1, <1>5, Zenon
<1>9. Stands(e, c, j, h)
  BY <1>1, <1>5, <1>7, <1>8 DEF Stands
<1> QED
  BY <1>4, <1>5, <1>6, <1>9

\* An argument's byte, written while the chip asks for it ...
LEMMA DspWritten ==
  ASSUME NEW c, IsCall(c), NEW v, NEW sent, DOMAIN sent = Nec!Params, NEW d, NEW j, NEW h,
         Waits(d, c, v, sent, j, h), j <= c.asks
  PROVE  LET p == Nec!WriteData(d, Piece(c, v, j)[h + 1])
         IN  /\ IsChip(p)
             /\ h + 1 < c.w => Waits(p, c, v, sent, j, h + 1)
             /\ h + 1 >= c.w => HasPassed(p, c, v, sent, j)
<1> DEFINE x == Piece(c, v, j)[h + 1]
           e == [d EXCEPT !.data[IF d.half THEN 2 ELSE 1] = x]
           p == Nec!Passed(e)
<1>1. Nec!WriteData(d, x) = p
  BY DEF Nec!WriteData
<1>2. Stands(d, c, j, h) /\ j \in 1 .. Length(c) /\ h \in {0, 1} /\ c.w \in {1, 2} /\ c.asks \in Nat
      /\ c.offers \in Nat /\ j \in 0 .. Length(c) /\ j > 0
  BY DEF Waits, Stands, IsCall, Length
<1>3. d.args = Pieces(c, v, j - 1) /\ d.params = sent /\ (h = 1 => d.data[1] = Piece(c, v, j)[1])
  BY DEF Waits, Asks
<1> HIDE DEF x
<1>4. /\ Stands(e, c, j, h) /\ e.args = d.args /\ e.params = d.params
      /\ h = 0 => e.data[1] = x
      /\ h = 1 => e.data[2] = x /\ e.data[1] = d.data[1]
  BY <1>2, DspPut
<1> HIDE DEF e
<1>5. /\ IsChip(p) /\ p.data = e.data /\ p.call = c /\ p.at = j
      /\ p.args = e.args /\ p.params = e.params /\ (p.eight <=> c.w = 1)
      /\ h + 1 < c.w => Stands(p, c, j, h + 1)
      /\ h + 1 >= c.w => ~p.rqm /\ ~p.half
  BY <1>4, DspPassed
<1> HIDE DEF p
<1>6. ASSUME h + 1 < c.w PROVE Waits(p, c, v, sent, j, h + 1)
  <2>1. h = 0 /\ h + 1 = 1
    BY <1>2, <1>6
  <2>2. Asks(p, c, v, sent, j, h + 1)
    BY <1>3, <1>4, <1>5, <2>1 DEF Asks, x
  <2>3. Offers(p, c, v, sent, j)
    BY <1>2 DEF Offers
  <2> QED
    BY <1>5, <1>6, <2>2, <2>3 DEF Waits
<1>7. ASSUME h + 1 >= c.w PROVE HasPassed(p, c, v, sent, j)
  <2>1. p.data[1] = Piece(c, v, j)[1] /\ (c.w = 2 => p.data[2] = Piece(c, v, j)[2])
    BY <1>2, <1>3, <1>4, <1>5, <1>7 DEF x
  <2>2. ~p.rqm /\ ~p.half
    BY <1>5, <1>7
  <2>3. p.args = Pieces(c, v, j - 1) /\ p.params = sent
    BY <1>3, <1>4, <1>5
  <2> QED
    BY <1>2, <1>5, <2>1, <2>2, <2>3 DEF HasPassed
<1> QED
  BY <1>1, <1>5, <1>6, <1>7 DEF x

\* ... and a result's, read while it offers it: the half that is due.
LEMMA DspRead ==
  ASSUME NEW c, IsCall(c), NEW v, NEW sent, DOMAIN sent = Nec!Params, NEW d, NEW j, NEW h,
         Waits(d, c, v, sent, j, h), j > c.asks
  PROVE  LET p == Nec!Passed(d)
         IN  /\ IsChip(p) /\ p.data = d.data
             /\ h + 1 < c.w => Waits(p, c, v, sent, j, h + 1)
             /\ h + 1 >= c.w => HasPassed(p, c, v, sent, j)
             /\ Nec!ReadData(d) = Nec!Half(Answer(c, v, sent, j - c.asks), h)
<1> DEFINE p == Nec!Passed(d)
<1>1. Stands(d, c, j, h) /\ j \in 1 .. Length(c) /\ h \in {0, 1} /\ c.w \in {1, 2} /\ c.asks \in Nat
      /\ c.offers \in Nat /\ j \in 0 .. Length(c) /\ j > 0 /\ (d.half <=> h = 1) /\ h < c.w
  BY DEF Waits, Stands, IsCall, Length
<1>2. /\ d.args = Pieces(c, v, c.asks) /\ d.params = Parameters(c, v, sent)
      /\ d.data[1] = Nec!Half(Answer(c, v, sent, j - c.asks), 0)
      /\ c.w = 2 => d.data[2] = Nec!Half(Answer(c, v, sent, j - c.asks), 1)
  BY DEF Waits, Offers
<1>3. /\ IsChip(p) /\ p.data = d.data /\ p.call = c /\ p.at = j
      /\ p.args = d.args /\ p.params = d.params /\ (p.eight <=> c.w = 1)
      /\ h + 1 < c.w => Stands(p, c, j, h + 1)
      /\ h + 1 >= c.w => ~p.rqm /\ ~p.half
  BY <1>1, DspPassed
<1> HIDE DEF p
<1>4. ASSUME h + 1 < c.w PROVE Waits(p, c, v, sent, j, h + 1)
  <2>1. Asks(p, c, v, sent, j, h + 1)
    BY <1>1 DEF Asks
  <2>2. Offers(p, c, v, sent, j)
    BY <1>2, <1>3 DEF Offers
  <2> QED
    BY <1>3, <1>4, <2>1, <2>2 DEF Waits
<1>5. ASSUME h + 1 >= c.w PROVE HasPassed(p, c, v, sent, j)
  <2>1. ~p.rqm /\ ~p.half
    BY <1>3, <1>5
  <2>2. p.args = Pieces(c, v, c.asks) /\ p.params = Parameters(c, v, sent)
    BY <1>2, <1>3
  <2> QED
    BY <1>1, <1>3, <2>1, <2>2 DEF HasPassed
<1>6. Nec!ReadData(d) = Nec!Half(Answer(c, v, sent, j - c.asks), h)
  BY <1>1, <1>2 DEF Nec!ReadData
<1> QED
  BY <1>3, <1>4, <1>5, <1>6 DEF p

LEMMA DspStill ==
  ASSUME NEW d, d.rqm PROVE Nec!Run(d) = d
BY DEF Nec!Run

\* After a piece the chip goes on to what the number of bytes says ...
LEMMA DspReach ==
  ASSUME NEW c, IsCall(c), NEW v, NEW sent, DOMAIN sent = Nec!Params, NEW d, NEW j \in Nat,
         HasPassed(d, c, v, sent, j),
         c.cmd = <<"raster">> /\ j = 5 => /\ d.data[1] = Nec!Half(Answer(c, v, sent, 4), 0)
                                        /\ d.data[2] = Nec!Half(Answer(c, v, sent, 4), 1)
  PROVE  Reached(Nec!Run(d), c, v, sent, j * c.w)
<1>1. c.asks \in Nat /\ c.offers \in Nat /\ c.w \in {1, 2} /\ Length(c) \in Nat /\ j <= Length(c)
  BY DEF IsCall, Length, HasPassed
<1>2. /\ (j * c.w) \div c.w = j /\ (j * c.w) % c.w = 0
      /\ j * c.w < Length(c) * c.w <=> j < Length(c)
      /\ j * c.w = Length(c) * c.w <=> j = Length(c)
  BY <1>1
<1>3. CASE j < Length(c)
  <2>1. Waits(Nec!Run(d), c, v, sent, j + 1, 0)
    BY <1>3, DspRunOn
  <2> QED
    BY <1>1, <1>2, <1>3, <2>1 DEF Reached
<1>4. CASE j = Length(c) /\ c.cmd # <<"raster">>
  <2>1. ~Nec!Again(d)
    BY <1>4 DEF Nec!Again, HasPassed
  <2>2. AtCommand(Nec!Run(d), Parameters(c, v, sent))
    BY <1>4, <2>1, DspRunEnd
  <2> QED
    BY <1>1, <1>2, <1>4, <2>2 DEF Reached
<1>5. CASE j = Length(c) /\ c.cmd = <<"raster">>
  <2>1. Length(c) = 5 /\ c.asks = 1
    BY <1>5 DEF IsCall, Length
  <2>2. Waits(Nec!Run(d), c, v, sent, 2, 0)
    BY <1>5, <2>1, DspRunLines
  <2> QED
    BY <1>1, <1>2, <1>5, <2>1, <2>2 DEF Reached
<1> QED
  BY <1>1, <1>3, <1>4, <1>5

\* ... and within one it waits for the other half.
LEMMA DspWithin ==
  ASSUME NEW c, IsCall(c), NEW v, NEW sent, NEW d, NEW j \in Nat,
         Waits(d, c, v, sent, j, 1)
  PROVE  Reached(Nec!Run(d), c, v, sent, (j - 1) * c.w + 1)
<1>1. c.w = 2 /\ j \in 1 .. Length(c) /\ d.rqm /\ c.asks \in Nat /\ c.offers \in Nat
  BY DEF IsCall, Waits, Stands
<1>2. Nec!Run(d) = d
  BY <1>1, DspStill
<1> DEFINE b == (j - 1) * c.w + 1
<1>3. b < Length(c) * c.w /\ b \div c.w + 1 = j /\ b % c.w = 1
  BY <1>1 DEF Length
<1> HIDE DEF b
<1>4. b # Length(c) * c.w
  BY <1>1, <1>3 DEF Length
<1>5. Reached(d, c, v, sent, b)
  BY <1>3, <1>4 DEF Reached
<1> QED
  BY <1>2, <1>5 DEF b

LEMMA DspPowered ==
  /\ IsChip(Nec!PowerOn) /\ AtCommand(Nec!PowerOn, [k \in Nec!Params |-> <<>>])
  /\ Nec!Run(Nec!PowerOn) = Nec!PowerOn
<1> DEFINE z == [rqm |-> FALSE, eight |-> FALSE, half |-> FALSE, data |-> <<Nec!Zero, Nec!Zero>>,
                 call |-> Nec!Idle, at |-> 0, args |-> <<>>, params |-> [k \in Nec!Params |-> <<>>]]
           f == [z EXCEPT !.call = Nec!Idle, !.at = 0, !.args = <<>>, !.rqm = TRUE, !.eight = TRUE]
<1>1. Nec!PowerOn = f
  BY DEF Nec!PowerOn, Nec!AwaitCommand
<1>2. /\ DOMAIN z = DspFields /\ z.half = FALSE /\ z.data = <<Nec!Zero, Nec!Zero>>
      /\ z.params = [k \in Nec!Params |-> <<>>]
  BY DEF DspFields
<1> HIDE DEF z
<1>3. /\ DOMAIN f = DspFields /\ f.half = FALSE /\ f.data = <<Nec!Zero, Nec!Zero>>
      /\ f.params = [k \in Nec!Params |-> <<>>]
      /\ f.call = Nec!Idle /\ f.at = 0 /\ f.args = <<>> /\ f.rqm = TRUE /\ f.eight = TRUE
  BY <1>2 DEF DspFields
<1> HIDE DEF f
<1>4. f.rqm /\ f.eight /\ ~f.half
  BY <1>3, Zenon
<1>5. {f.rqm, f.eight, f.half} \subseteq BOOLEAN
  BY <1>3
<1>6. f.data = <<f.data[1], f.data[2]>> /\ DOMAIN f.params = Nec!Params
  BY <1>3
<1>7. IsChip(f)
  BY <1>3, <1>5, <1>6 DEF IsChip
<1> QED
  BY <1>1, <1>3, <1>4, <1>7, DspStill DEF AtCommand

\* A host without a call.
LEMMA DspRests ==
  ASSUME NEW chip \in {"DSP1", "DSP2"}
  PROVE  IsHost(Nec!AtRest(chip)) /\ Received(Nec!AtRest(chip)) /\ Nec!AtRest(chip).call = Nec!Idle
         /\ Nec!AtRest(chip).sent = [k \in Nec!Params |-> <<>>]
         /\ DOMAIN Nec!AtRest(chip) = HostFields /\ Nec!AtRest(chip).chip = chip
         /\ Nec!AtRest(chip).written = 0 /\ Nec!AtRest(chip).read = 0
<1> DEFINE r == Nec!AtRest(chip)
<1>1. /\ DOMAIN r = HostFields /\ r.chip = chip /\ r.call = Nec!Idle /\ r.written = 0 /\ r.read = 0
      /\ r.sent = [k \in Nec!Params |-> <<>>]
  BY DEF Nec!AtRest, HostFields
<1> HIDE DEF r
<1>2. IsHost(r) /\ Received(r)
  BY <1>1 DEF IsHost, Received
<1> QED
  BY <1>1, <1>2 DEF r

\* A host that has ended a call keeps the parameters it has set.
LEMMA DspKept ==
  ASSUME NEW chip \in {"DSP1", "DSP2"}, NEW sent, DOMAIN sent = Nec!Params
  PROVE  LET h == [Nec!AtRest(chip) EXCEPT !.sent = sent]
         IN  IsHost(h) /\ Received(h) /\ h.call = Nec!Idle /\ h.sent = sent
<1> DEFINE r == Nec!AtRest(chip)
           h == [r EXCEPT !.sent = sent]
<1>1. /\ DOMAIN r = HostFields /\ r.chip = chip /\ r.call = Nec!Idle /\ r.written = 0 /\ r.read = 0
  BY DspRests
<1> HIDE DEF r
<1>2. /\ DOMAIN h = HostFields /\ h.chip = chip /\ h.call = Nec!Idle /\ h.written = 0 /\ h.read = 0
      /\ h.sent = sent
  BY <1>1 DEF HostFields
<1> HIDE DEF h
<1>3. IsHost(h) /\ Received(h)
  BY <1>2 DEF IsHost, Received
<1> QED
  BY <1>2, <1>3 DEF h, r

LEMMA DspCommand ==
  ASSUME DspGood(s, s2), Nec!Command
  PROVE  DspGood(s', s2')
<1>1. PICK c \in Nec!Calls(s2.chip), v \in DspVersions :
        /\ s2.call = Nec!Idle
        /\ s' = [Nec!Passed(Nec!Run(s)) EXCEPT !.call = c, !.at = 0]
        /\ s2' = [s2 EXCEPT !.call = c, !.v = v, !.written = 0, !.read = 0, !.got = <<>>]
  BY DEF Nec!Command
<1> DEFINE r == Nec!Run(s)
           p == Nec!Passed(r)
           sent == s2.sent
<1>2. IsCall(c) /\ c # Nec!Idle
  BY DspCalls DEF IsCall
<1>3. IsHost(s2) /\ AtCommand(r, sent) /\ DOMAIN sent = Nec!Params /\ DOMAIN s2 = HostFields
      /\ s2.chip \in {"DSP1", "DSP2"}
  BY <1>1 DEF DspGood, IsHost
<1> HIDE DEF r, p
<1>4. /\ IsChip(p) /\ ~p.rqm /\ ~p.half /\ p.args = <<>> /\ p.params = sent
  <2>1. /\ IsChip(r) /\ r.rqm /\ r.eight /\ ~r.half /\ r.args = <<>> /\ r.params = sent
        /\ r.rqm \in BOOLEAN /\ r.eight \in BOOLEAN /\ r.half \in BOOLEAN /\ DOMAIN r = DspFields
    BY <1>3 DEF AtCommand, IsChip
  <2>2. r.rqm = TRUE /\ r.eight = TRUE /\ r.half = FALSE
    BY <2>1
  <2> DEFINE half == IF r.eight THEN r.half ELSE ~r.half
  <2>3. half = FALSE /\ (r.rqm /\ half) = FALSE
    BY <2>2
  <2>4. p = [r EXCEPT !.half = half, !.rqm = r.rqm /\ half]
    BY DEF Nec!Passed, p
  <2> HIDE DEF half
  <2>5. p = [r EXCEPT !.half = FALSE, !.rqm = FALSE]
    BY <2>3, <2>4
  <2>6. /\ DOMAIN p = DspFields /\ p.rqm = FALSE /\ p.half = FALSE /\ p.eight = r.eight /\ p.data = r.data
        /\ p.at = r.at /\ p.args = r.args /\ p.params = r.params
    BY <2>1, <2>5 DEF DspFields
  <2>7. {p.rqm, p.eight, p.half} \subseteq BOOLEAN
    BY <2>1, <2>6
  <2>8. IsChip(p)
    BY <2>1, <2>6, <2>7 DEF IsChip
  <2>9. ~p.rqm /\ ~p.half
    BY <2>6, Zenon
  <2> QED
    BY <2>1, <2>6, <2>8, <2>9
<1> DEFINE e == [p EXCEPT !.call = c, !.at = 0]
<1>5. s' = e
  BY <1>1 DEF p, r
<1>6. /\ DOMAIN e = DspFields /\ e.rqm = p.rqm /\ e.half = p.half /\ e.eight = p.eight /\ e.data = p.data
      /\ e.call = c /\ e.at = 0 /\ e.args = p.args /\ e.params = p.params
  BY <1>4 DEF IsChip, DspFields
<1> HIDE DEF e
<1>7. IsChip(e) /\ ~e.rqm /\ ~e.half
  <2>1. ~e.rqm /\ ~e.half
    BY <1>4, <1>6, Zenon
  <2>2. IsChip(e)
    BY <1>4, <1>6 DEF IsChip
  <2> QED
    BY <2>1, <2>2
<1>8. HasPassed(e, c, v, sent, 0)
  <2>1. 0 \in 0 .. Length(c) /\ ~(0 > c.asks)
    BY <1>2 DEF IsCall, Length
  <2> QED
    BY <1>4, <1>6, <1>7, <2>1 DEF HasPassed
<1>9. Reached(Nec!Run(e), c, v, sent, 0)
  <2>1. Reached(Nec!Run(e), c, v, sent, 0 * c.w)
    <3>1. 0 \in Nat /\ 0 # 5
      OBVIOUS
    <3> QED
      BY <1>2, <1>3, <1>8, <3>1, DspReach
  <2>2. 0 * c.w = 0
    BY <1>2 DEF IsCall
  <2> QED
    BY <2>1, <2>2
<1> DEFINE h == [s2 EXCEPT !.call = c, !.v = v, !.written = 0, !.read = 0, !.got = <<>>]
<1>10. s2' = h
  BY <1>1
<1>11. /\ DOMAIN h = HostFields /\ h.chip = s2.chip /\ h.call = c /\ h.v = v /\ h.written = 0
       /\ h.read = 0 /\ h.sent = sent
  BY <1>3 DEF HostFields
<1> HIDE DEF h
<1>12. IsHost(h) /\ Received(h)
  <2>1. 0 \in 0 .. c.asks * c.w /\ 0 \in 0 .. c.offers * c.w
    BY <1>2 DEF IsCall
  <2> QED
    BY <1>2, <1>3, <1>11, <2>1 DEF IsHost, Received
<1>13. h.written + h.read = 0
  BY <1>11
<1>14. DspGood(e, h)
  BY <1>2, <1>7, <1>9, <1>11, <1>12, <1>13 DEF DspGood
<1> QED
  BY <1>5, <1>10, <1>14

\* Where the host is in a call.
LEMMA DspMidCall ==
  ASSUME DspGood(s, s2), s2.call # Nec!Idle
  PROVE  LET c == s2.call
         IN  /\ IsCall(c) /\ DOMAIN s2 = HostFields /\ DOMAIN s2.sent = Nec!Params
             /\ s2.chip \in {"DSP1", "DSP2"}
             /\ s2.written \in 0 .. c.asks * c.w /\ s2.read \in 0 .. c.offers * c.w
             /\ s2.read > 0 => s2.written = c.asks * c.w
             /\ c.w \in {1, 2} /\ c.asks \in Nat /\ c.offers \in Nat
             /\ Length(c) = c.asks + c.offers
             /\ Length(c) * c.w = c.asks * c.w + c.offers * c.w
             /\ Reached(Nec!Run(s), c, s2.v, s2.sent, s2.written + s2.read)
<1>1. IsHost(s2) /\ Reached(Nec!Run(s), s2.call, s2.v, s2.sent, s2.written + s2.read)
  BY DEF DspGood
<1>2. IsCall(s2.call)
  BY <1>1 DEF IsHost
<1> QED
  BY <1>1, <1>2 DEF IsHost, IsCall, Length

\* The piece, and the byte of it, that a byte's number tells.
LEMMA DspHalves ==
  ASSUME NEW w \in {1, 2}, NEW n \in Nat, NEW m \in Nat, n < m * w
  PROVE  /\ n \div w \in Nat /\ n \div w < m /\ n % w \in 0 .. w - 1
         /\ n = (n \div w) * w + (n % w)
<1>1. CASE w = 1
  BY <1>1
<1>2. CASE w = 2
  BY <1>2
<1> QED
  BY <1>1, <1>2

LEMMA DspWriteArgument ==
  ASSUME DspGood(s, s2), Nec!WriteArgument
  PROVE  DspGood(s', s2')
<1> DEFINE c == s2.call
           v == s2.v
           sent == s2.sent
           n == s2.written
           r == Nec!Run(s)
           j == n \div c.w + 1
           h == n % c.w
           p == Nec!WriteData(r, Piece(c, v, j)[h + 1])
           k == [s2 EXCEPT !.written = n + 1]
<1>1. c # Nec!Idle /\ n < c.asks * c.w /\ s' = Nec!WriteData(r, Nec!Byte(n + 1, v)) /\ s2' = k
  BY DEF Nec!WriteArgument
<1>2. /\ IsCall(c) /\ DOMAIN s2 = HostFields /\ DOMAIN sent = Nec!Params
      /\ s2.chip \in {"DSP1", "DSP2"}
      /\ n \in 0 .. c.asks * c.w /\ s2.read \in 0 .. c.offers * c.w
      /\ s2.read > 0 => n = c.asks * c.w
      /\ c.w \in {1, 2} /\ c.asks \in Nat /\ c.offers \in Nat
      /\ Length(c) = c.asks + c.offers
      /\ Length(c) * c.w = c.asks * c.w + c.offers * c.w
      /\ Reached(r, c, v, sent, n + s2.read)
  BY <1>1, DspMidCall
<1> HIDE DEF r
<1>3. s2.read = 0 /\ n \in Nat /\ n + s2.read = n /\ n < Length(c) * c.w
  BY <1>1, <1>2
<1>4. Waits(r, c, v, sent, j, h)
  BY <1>2, <1>3 DEF Reached
<1>5. /\ j \in Nat /\ j > 0 /\ j <= c.asks /\ h \in 0 .. c.w - 1 /\ n = (j - 1) * c.w + h
  BY <1>1, <1>2, <1>3
<1> HIDE DEF j, h
<1>6. Piece(c, v, j)[h + 1] = Nec!Byte(n + 1, v)
  <2>1. h + 1 \in 1 .. c.w /\ (j - 1) * c.w + (h + 1) = n + 1
    BY <1>2, <1>5
  <2> QED
    BY <2>1 DEF Piece
<1>7. /\ IsChip(p)
      /\ h + 1 < c.w => Waits(p, c, v, sent, j, h + 1)
      /\ h + 1 >= c.w => HasPassed(p, c, v, sent, j)
  BY <1>2, <1>4, <1>5, DspWritten
<1>8. s' = p
  BY <1>1, <1>6
<1> HIDE DEF p
<1>9. Reached(Nec!Run(p), c, v, sent, n + 1)
  <2>1. CASE h + 1 < c.w
    <3>1. h + 1 = 1 /\ (j - 1) * c.w + 1 = n + 1
      BY <1>2, <1>5, <2>1
    <3>2. Waits(p, c, v, sent, j, 1)
      BY <1>7, <2>1, <3>1
    <3> QED
      BY <1>2, <1>5, <3>1, <3>2, DspWithin
  <2>2. CASE h + 1 >= c.w
    <3>1. j * c.w = n + 1
      BY <1>2, <1>5, <2>2
    <3>2. ~(c.cmd = <<"raster">> /\ j = 5)
      BY <1>2, <1>5 DEF IsCall
    <3>3. HasPassed(p, c, v, sent, j)
      BY <1>7, <2>2
    <3>4. Reached(Nec!Run(p), c, v, sent, j * c.w)
      BY <1>2, <1>5, <3>2, <3>3, DspReach
    <3> QED
      BY <3>1, <3>4
  <2> QED
    BY <1>2, <1>5, <2>1, <2>2
<1>10. /\ DOMAIN k = HostFields /\ k.chip = s2.chip /\ k.call = c /\ k.v = v /\ k.written = n + 1
       /\ k.read = s2.read /\ k.sent = sent /\ k.got = s2.got
  BY <1>2 DEF HostFields
<1> HIDE DEF k
<1>11. IsHost(k) /\ Received(k)
  <2>1. n + 1 \in 0 .. c.asks * c.w
    BY <1>1, <1>2, <1>3
  <2>2. k.read = 0 /\ 0 \in 0 .. c.offers * c.w /\ ~(k.read > 0)
    BY <1>2, <1>3, <1>10
  <2>3. IsHost(k)
    BY <1>1, <1>2, <1>10, <2>1, <2>2 DEF IsHost
  <2>4. Received(k)
    BY <2>2 DEF Received
  <2> QED
    BY <2>3, <2>4
<1>12. k.written + k.read = n + 1
  BY <1>3, <1>10
<1>13. DspGood(p, k)
  BY <1>1, <1>7, <1>9, <1>10, <1>11, <1>12 DEF DspGood
<1> QED
  BY <1>1, <1>8, <1>13

LEMMA DspReadResult ==
  ASSUME DspGood(s, s2), Nec!ReadResult
  PROVE  DspGood(s', s2')
<1> DEFINE c == s2.call
           v == s2.v
           sent == s2.sent
           n == s2.read
           r == Nec!Run(s)
           i == n \div c.w + 1
           j == c.asks + i
           h == n % c.w
           p == Nec!Passed(r)
           k == [s2 EXCEPT !.read = n + 1, !.got = <<Nec!ReadData(r)>>]
<1>1. c # Nec!Idle /\ s2.written = c.asks * c.w /\ n < c.offers * c.w /\ s' = p /\ s2' = k
  BY DEF Nec!ReadResult, Nec!AllWritten
<1>2. /\ IsCall(c) /\ DOMAIN s2 = HostFields /\ DOMAIN sent = Nec!Params
      /\ s2.chip \in {"DSP1", "DSP2"}
      /\ n \in 0 .. c.offers * c.w
      /\ c.w \in {1, 2} /\ c.asks \in Nat /\ c.offers \in Nat
      /\ Length(c) = c.asks + c.offers
      /\ Length(c) * c.w = c.asks * c.w + c.offers * c.w
      /\ Reached(r, c, v, sent, s2.written + n)
  BY <1>1, DspMidCall
<1> HIDE DEF r
<1> DEFINE b == c.asks * c.w + n
<1>3. n \in Nat /\ b < Length(c) * c.w /\ b \div c.w + 1 = j /\ b % c.w = h
  BY <1>1, <1>2
<1>4. Waits(r, c, v, sent, j, h)
  BY <1>1, <1>2, <1>3 DEF Reached
<1>5. /\ i \in Nat /\ i > 0 /\ i <= c.offers /\ h \in 0 .. c.w - 1 /\ n = (i - 1) * c.w + h
      /\ j \in Nat /\ j > c.asks /\ j - c.asks = i /\ b = (j - 1) * c.w + h /\ b \in Nat
  <2>1. n \div c.w \in Nat /\ n % c.w \in 0 .. c.w - 1 /\ n \div c.w < c.offers
    BY <1>1, <1>2, <1>3, DspHalves
  <2>2. n = (n \div c.w) * c.w + (n % c.w)
    BY <1>1, <1>2, <1>3, DspHalves
  <2>3. i \in Nat /\ i > 0 /\ i <= c.offers /\ h \in 0 .. c.w - 1 /\ i - 1 = n \div c.w
    BY <1>2, <2>1, <2>2
  <2>4. n = (i - 1) * c.w + h
    BY <2>2, <2>3
  <2> HIDE DEF i, h
  <2>5. j \in Nat /\ j > c.asks /\ j - c.asks = i /\ j - 1 = c.asks + (i - 1)
    BY <1>2, <2>3
  <2> HIDE DEF j
  <2>6. b = (j - 1) * c.w + h /\ b \in Nat
    BY <1>2, <1>3, <2>3, <2>4, <2>5
  <2> QED
    BY <2>3, <2>4, <2>5, <2>6
<1> HIDE DEF i, j, h, b
<1>6. /\ IsChip(p) /\ p.data = r.data
      /\ h + 1 < c.w => Waits(p, c, v, sent, j, h + 1)
      /\ h + 1 >= c.w => HasPassed(p, c, v, sent, j)
      /\ Nec!ReadData(r) = Nec!Half(Answer(c, v, sent, i), h)
  <2>1. /\ IsChip(p) /\ p.data = r.data
        /\ h + 1 < c.w => Waits(p, c, v, sent, j, h + 1)
        /\ h + 1 >= c.w => HasPassed(p, c, v, sent, j)
        /\ Nec!ReadData(r) = Nec!Half(Answer(c, v, sent, j - c.asks), h)
    <3> HIDE DEF c, v, sent, n
    <3>0. IsCall(c) /\ DOMAIN sent = Nec!Params /\ Waits(r, c, v, sent, j, h) /\ j > c.asks
      BY <1>2, <1>4, <1>5
    <3>1. IsChip(Nec!Passed(r)) /\ Nec!Passed(r).data = r.data
      BY <3>0, DspRead
    <3>2. h + 1 < c.w => Waits(Nec!Passed(r), c, v, sent, j, h + 1)
      BY <3>0, DspRead
    <3>3. h + 1 >= c.w => HasPassed(Nec!Passed(r), c, v, sent, j)
      BY <3>0, DspRead
    <3>4. Nec!ReadData(r) = Nec!Half(Answer(c, v, sent, j - c.asks), h)
      BY <3>0, DspRead
    <3> QED
      BY <3>1, <3>2, <3>3, <3>4
  <2> QED
    BY <1>5, <2>1
<1> HIDE DEF p
<1>7. Reached(Nec!Run(p), c, v, sent, b + 1)
  <2>1. CASE h + 1 < c.w
    <3>1. h + 1 = 1 /\ (j - 1) * c.w + 1 = b + 1
      BY <1>2, <1>5, <2>1
    <3>2. Waits(p, c, v, sent, j, 1)
      BY <1>6, <2>1, <3>1
    <3> QED
      BY <1>2, <1>5, <3>1, <3>2, DspWithin
  <2>2. CASE h + 1 >= c.w
    <3>1. j * c.w = b + 1
      <4>1. CASE c.w = 1
        BY <1>5, <2>2, <4>1
      <4>2. CASE c.w = 2
        BY <1>5, <2>2, <4>2
      <4> QED
        BY <1>2, <4>1, <4>2
    <3>2. ASSUME c.cmd = <<"raster">>, j = 5
          PROVE  /\ p.data[1] = Nec!Half(Answer(c, v, sent, 4), 0)
                 /\ p.data[2] = Nec!Half(Answer(c, v, sent, 4), 1)
      <4>1. c.asks = 1 /\ c.w = 2 /\ j - c.asks = 4 /\ j > c.asks
        BY <1>2, <3>2 DEF IsCall
      <4> QED
        BY <1>4, <1>6, <4>1 DEF Waits, Offers
    <3>3. HasPassed(p, c, v, sent, j)
      BY <1>6, <2>2
    <3>4. Reached(Nec!Run(p), c, v, sent, j * c.w)
      BY <1>2, <1>5, <3>2, <3>3, DspReach
    <3> QED
      BY <3>1, <3>4
  <2> QED
    BY <1>2, <1>5, <2>1, <2>2
<1>8. /\ DOMAIN k = HostFields /\ k.chip = s2.chip /\ k.call = c /\ k.v = v /\ k.written = s2.written
      /\ k.read = n + 1 /\ k.sent = sent /\ k.got = <<Nec!Half(Answer(c, v, sent, i), h)>>
  BY <1>2, <1>6 DEF HostFields
<1> HIDE DEF k
<1>9. IsHost(k)
  <2>1. n + 1 \in 0 .. c.offers * c.w /\ s2.written \in 0 .. c.asks * c.w
    BY <1>1, <1>2, <1>3
  <2> QED
    BY <1>1, <1>2, <1>8, <2>1 DEF IsHost
<1>10. Received(k)
  <2>1. ((n + 1) - 1) \div c.w + 1 = i /\ ((n + 1) - 1) % c.w = h
    BY <1>2, <1>3 DEF i, h
  <2> QED
    BY <1>8, <2>1 DEF Received
<1>11. k.written + k.read = b + 1
  BY <1>1, <1>2, <1>3, <1>8 DEF b
<1>12. DspGood(p, k)
  BY <1>1, <1>6, <1>7, <1>8, <1>9, <1>10, <1>11 DEF DspGood
<1> QED
  BY <1>1, <1>12

LEMMA DspDone ==
  ASSUME DspGood(s, s2), Nec!Done
  PROVE  DspGood(s', s2')
<1> DEFINE c == s2.call
           v == s2.v
           sent == s2.sent
           r == Nec!Run(s)
<1>1. c # Nec!Idle /\ s2.written = c.asks * c.w /\ s2.read = c.offers * c.w /\ s' = s
  BY DEF Nec!Done, Nec!AllWritten
<1>2. /\ IsCall(c) /\ DOMAIN s2 = HostFields /\ DOMAIN sent = Nec!Params
      /\ s2.chip \in {"DSP1", "DSP2"}
      /\ c.w \in {1, 2} /\ c.asks \in Nat /\ c.offers \in Nat
      /\ Length(c) = c.asks + c.offers
      /\ Length(c) * c.w = c.asks * c.w + c.offers * c.w
      /\ Reached(r, c, v, sent, s2.written + s2.read)
  BY <1>1, DspMidCall
<1>3. IF c.cmd = <<"raster">> THEN Waits(r, c, v, sent, c.asks + 1, 0)
      ELSE AtCommand(r, Parameters(c, v, sent))
  BY <1>1, <1>2 DEF Reached
<1>4. IsChip(s)
  BY DEF DspGood
<1>5. CASE c.cmd = <<"raster">>
  <2> DEFINE k == [s2 EXCEPT !.read = 0]
  <2>1. s2' = k
    BY <1>5 DEF Nec!Done
  <2>2. /\ DOMAIN k = HostFields /\ k.chip = s2.chip /\ k.call = c /\ k.v = v /\ k.written = s2.written
        /\ k.read = 0 /\ k.sent = sent
    BY <1>2 DEF HostFields
  <2> HIDE DEF k
  <2>3. c.w = 2 /\ c.asks = 1 /\ c.offers = 4 /\ Length(c) = 5
    BY <1>2, <1>5 DEF IsCall
  <2>4. Waits(r, c, v, sent, 2, 0)
    BY <1>3, <1>5, <2>3
  <2>5. Reached(r, c, v, sent, 2)
    BY <2>3, <2>4 DEF Reached
  <2>6. k.written + k.read = 2 /\ k.written = c.asks * c.w
    BY <1>1, <2>2, <2>3
  <2>7. IsHost(k)
    <3>1. c.asks * c.w \in 0 .. c.asks * c.w /\ 0 \in 0 .. c.offers * c.w
      BY <2>3
    <3> QED
      BY <1>1, <1>2, <2>2, <2>6, <3>1 DEF IsHost
  <2>8. Received(k)
    BY <2>2 DEF Received
  <2>9. DspGood(s, k)
    BY <1>1, <1>4, <2>2, <2>5, <2>6, <2>7, <2>8 DEF DspGood
  <2> QED
    BY <1>1, <2>1, <2>9
<1>6. CASE c.cmd # <<"raster">>
  <2> DEFINE q == Parameters(c, v, sent)
             k == [Nec!AtRest(s2.chip) EXCEPT !.sent = q]
  <2>1. q = IF c.sets = "none" THEN sent ELSE [sent EXCEPT ![c.sets] = Nec!Sent(c, v)]
    BY DEF Parameters, Pieces, Piece, Nec!Sent
  <2>2. s2' = k
    BY <1>6, <2>1 DEF Nec!Done
  <2>3. DOMAIN q = Nec!Params
    BY <1>2, <2>1
  <2> HIDE DEF q
  <2>4. IsHost(k) /\ Received(k) /\ k.call = Nec!Idle /\ k.sent = q
    BY <1>2, <2>3, DspKept
  <2> HIDE DEF k
  <2>5. AtCommand(r, q)
    BY <1>3, <1>6 DEF q
  <2>6. DspGood(s, k)
    BY <1>4, <2>4, <2>5 DEF DspGood
  <2> QED
    BY <1>1, <2>2, <2>6
<1> QED
  BY <1>5, <1>6

\* A word of the host's in place of a line's last ends the lines.
LEMMA DspStopLines ==
  ASSUME DspGood(s, s2), Nec!StopLines
  PROVE  DspGood(s', s2')
<1> DEFINE c == s2.call
           v == s2.v
           sent == s2.sent
           r == Nec!Run(s)
           e == [r EXCEPT !.data[IF r.half THEN 2 ELSE 1] = Nec!Other]
           w1 == Nec!Passed(e)
           f == [w1 EXCEPT !.data[IF w1.half THEN 2 ELSE 1] = Nec!Other]
           w2 == Nec!Passed(f)
           k == [Nec!AtRest(s2.chip) EXCEPT !.sent = sent]
<1>1. /\ c # Nec!Idle /\ s2.written = c.asks * c.w /\ s2.read = c.offers * c.w - 2
      /\ c.cmd = <<"raster">> /\ s' = Nec!WriteData(Nec!Run(Nec!WriteData(r, Nec!Other)), Nec!Other)
      /\ s2' = k
  BY DEF Nec!StopLines, Nec!AllWritten
<1>2. /\ IsCall(c) /\ DOMAIN sent = Nec!Params /\ s2.chip \in {"DSP1", "DSP2"}
      /\ Reached(r, c, v, sent, s2.written + s2.read) /\ Length(c) = c.asks + c.offers
  BY <1>1, DspMidCall
<1> HIDE DEF c, v, sent, r
<1>3. c.w = 2 /\ c.asks = 1 /\ c.offers = 4 /\ c.sets = "none" /\ Length(c) = 5
  BY <1>1, <1>2 DEF IsCall
<1>4. Waits(r, c, v, sent, 5, 0)
  <2>1. s2.written + s2.read = 8
    BY <1>1, <1>3
  <2>2. 8 < Length(c) * c.w /\ 8 \div c.w + 1 = 5 /\ 8 % c.w = 0
    BY <1>3
  <2> QED
    BY <1>2, <2>1, <2>2 DEF Reached
<1>5. /\ Stands(r, c, 5, 0) /\ r.args = Pieces(c, v, c.asks) /\ r.params = Parameters(c, v, sent)
  BY <1>3, <1>4 DEF Waits, Offers
<1>6. Stands(e, c, 5, 0) /\ e.args = r.args /\ e.params = r.params /\ e.data[1] = Nec!Other
  BY <1>2, <1>5, DspPut
<1> HIDE DEF e
<1>7. Stands(w1, c, 5, 1) /\ w1.args = e.args /\ w1.params = e.params /\ w1.data = e.data
  <2>1. 0 + 1 < c.w /\ 0 + 1 = 1
    BY <1>3
  <2> QED
    BY <1>2, <1>6, <2>1, DspPassed
<1>8. Nec!Run(w1) = w1 /\ Nec!WriteData(r, Nec!Other) = w1
  <2>1. w1.rqm
    BY <1>7 DEF Stands
  <2>2. Nec!WriteData(r, Nec!Other) = w1
    BY DEF Nec!WriteData, e
  <2> HIDE DEF w1
  <2> QED
    BY <2>1, <2>2, DspStill
<1> HIDE DEF w1
<1>9. Stands(f, c, 5, 1) /\ f.args = w1.args /\ f.params = w1.params
      /\ f.data[2] = Nec!Other /\ f.data[1] = w1.data[1]
  BY <1>2, <1>7, DspPut
<1>10. s' = w2
  BY <1>1, <1>8 DEF Nec!WriteData
<1> HIDE DEF f
<1>11. /\ IsChip(w2) /\ w2.data = f.data /\ w2.call = c /\ w2.at = 5
       /\ w2.args = f.args /\ w2.params = f.params /\ (w2.eight <=> c.w = 1)
       /\ ~w2.rqm /\ ~w2.half
  <2>1. 1 + 1 >= c.w
    BY <1>3
  <2> QED
    BY <1>2, <1>9, <2>1, DspPassed
<1> HIDE DEF w2
<1>12. HasPassed(w2, c, v, sent, Length(c))
  <2>1. w2.args = Pieces(c, v, c.asks) /\ w2.params = Parameters(c, v, sent)
    BY <1>5, <1>6, <1>7, <1>9, <1>11
  <2>2. 5 \in 0 .. Length(c) /\ ~(5 <= c.asks) /\ 5 # 0
    BY <1>3
  <2> QED
    BY <1>3, <1>11, <2>1, <2>2 DEF HasPassed
<1>13. w2.data = <<Nec!Other, Nec!Other>>
  <2>1. w2.data = <<w2.data[1], w2.data[2]>>
    BY <1>11 DEF IsChip
  <2> QED
    BY <1>6, <1>7, <1>9, <1>11, <2>1
<1>14. ~Nec!Again(w2)
  BY <1>1, <1>2, <1>12, <1>13, DspRunLines DEF c
<1>15. AtCommand(Nec!Run(w2), sent)
  <2>1. AtCommand(Nec!Run(w2), Parameters(c, v, sent))
    BY <1>2, <1>12, <1>14, DspRunEnd
  <2> QED
    BY <1>3, <2>1 DEF Parameters
<1>16. IsHost(k) /\ Received(k) /\ k.call = Nec!Idle /\ k.sent = sent
  BY <1>2, DspKept
<1>17. s2' = k
  BY <1>1
<1> HIDE DEF k
<1>18. DspGood(w2, k)
  BY <1>11, <1>15, <1>16 DEF DspGood
<1> QED
  BY <1>10, <1>17, <1>18

\* Run leaves nothing to a second one.
LEMMA DspReadStatus ==
  ASSUME DspGood(s, s2), Nec!ReadStatus
  PROVE  DspGood(s', s2')
<1> DEFINE r == Nec!Run(s)
<1>1. s' = r /\ s2' = s2
  BY DEF Nec!ReadStatus
<1>2. IsChip(r) /\ r.rqm
  <2>1. CASE s2.call = Nec!Idle
    BY <2>1 DEF DspGood, AtCommand
  <2>2. CASE s2.call # Nec!Idle
    <3> DEFINE c == s2.call
               b == s2.written + s2.read
    <3>1. /\ s2.written \in 0 .. c.asks * c.w /\ s2.read \in 0 .. c.offers * c.w
          /\ c.w \in {1, 2} /\ c.asks \in Nat /\ c.offers \in Nat
          /\ Length(c) * c.w = c.asks * c.w + c.offers * c.w
          /\ Reached(r, c, s2.v, s2.sent, b)
      BY <2>2, DspMidCall
    <3>2. b < Length(c) * c.w \/ b = Length(c) * c.w
      <4> DEFINE x == c.asks * c.w
                 y == c.offers * c.w
      <4>1. x \in Nat /\ y \in Nat /\ s2.written \in 0 .. x /\ s2.read \in 0 .. y
            /\ Length(c) * c.w = x + y
        BY <3>1
      <4> HIDE DEF x, y
      <4> QED
        BY <4>1
    <3> HIDE DEF b, c, r
    <3> QED
      BY <3>1, <3>2 DEF Reached, Waits, Stands, AtCommand
  <2> QED
    BY <2>1, <2>2
<1>3. Nec!Run(r) = r
  BY <1>2, DspStill
<1>4. DspGood(r, s2)
  BY <1>2, <1>3 DEF DspGood
<1> QED
  BY <1>1, <1>4

LEMMA DspRestarted ==
  ASSUME NEW chip \in {"DSP1", "DSP2"}
  PROVE  DspGood(Nec!PowerOn, Nec!AtRest(chip))
BY DspPowered, DspRests DEF DspGood

DspInv == kind = "dsp" => DspGood(s, s2)

LEMMA DspNext ==
  ASSUME DspInv, [Next]_vars
  PROVE  DspInv'
<1>1. CASE Next
  <2>1. kind' = kind /\ (kind = "dsp" => Nec!Next)
    BY <1>1 DEF Next, Step
  <2>2. ASSUME DspGood(s, s2), Nec!Reset PROVE DspGood(s', s2')
    BY <2>2, DspRestarted DEF Nec!Reset, DspGood, IsHost
  <2>3. ASSUME DspGood(s, s2), Nec!Next PROVE DspGood(s', s2')
    BY <2>2, <2>3, DspCommand, DspWriteArgument, DspReadResult, DspDone, DspStopLines, DspReadStatus
       DEF Nec!Next
  <2> QED
    BY <2>1, <2>3 DEF DspInv
<1>2. CASE UNCHANGED vars
  BY <1>2 DEF vars, DspInv
<1> QED
  BY <1>1, <1>2

LEMMA DspInit ==
  ASSUME Init PROVE DspInv
<1>1. kind = "dsp" => Nec!Init
  BY DEF Init
<1> QED
  BY <1>1, DspRestarted DEF DspInv, Nec!Init

\* What is read from a DSP-1 or DSP-2 (dsp1chip.h, dsp2chip.h) is, byte by byte, the
\* result due for the arguments of this call and the parameters last set, and
\* between two calls it waits for a command; for any lengths of its commands.
THEOREM DspIsServed == Spec => []DspAnswers
<1>1. ASSUME DspInv PROVE DspAnswers
  <2>1. SUFFICES ASSUME kind = "dsp" PROVE Nec!DspServes
    BY DEF DspAnswers
  <2>2. DspGood(s, s2)
    BY <1>1, <2>1 DEF DspInv
  <2>3. Nec!InStep
    BY <2>2 DEF DspGood, AtCommand, Nec!InStep
  <2>4. Nec!Sent(s2.call, s2.v) = Pieces(s2.call, s2.v, s2.call.asks)
    BY DEF Nec!Sent, Pieces, Piece
  <2>5. Nec!ResultsDue
    BY <2>2, <2>4 DEF DspGood, Received, Answer, Nec!ResultsDue
  <2> QED
    BY <2>3, <2>5 DEF Nec!DspServes
<1> QED
  BY <1>1, DspInit, DspNext, PTL DEF Spec

----------------------------------------------------------------------------
(* MSU1.                                                                   *)

MsuChip ==
  [data_busy_until : 0 .. MsuNever, audio_busy_until : 0 .. MsuNever,
   status : SUBSET Media!Flags, track : MsuTracks \cup {MsuNone}, play_pos : Nat, play_count : Nat]
MsuReader == [track : MsuTracks \cup {MsuNone}, skip : Nat, lead : Nat, taken : Nat]

\* A chip whose busy flags have their deadlines, and one none of whose has come.
Timed(c) ==
  /\ c \in MsuChip
  /\ "dataBusy" \in c.status <=> c.data_busy_until # MsuNever
  /\ "audioBusy" \in c.status <=> c.audio_busy_until # MsuNever
Due(c, t) == c.data_busy_until > t /\ c.audio_busy_until > t

\* The stream r is where chip c plays.
Streams(c, r) ==
  /\ r.track = c.track
  /\ IF c.play_pos < MsuLead
     THEN r.skip = 0 /\ r.lead - r.taken = MsuLead - c.play_pos
     ELSE r.taken >= r.lead /\ r.skip + r.taken - r.lead = c.play_pos - MsuLead

MsuGood ==
  /\ s \in 0 .. MsuFrameTime + MsuStep /\ s2 \in {"stopped", "loop", "instr", "dispatch"}
  /\ s3 \in Nat /\ s7 \in BOOLEAN
  /\ Timed(s5) /\ s6 \in MsuReader
  /\ s8 \in [chip : MsuChip, inStep : BOOLEAN] /\ Timed(s8.chip) /\ Due(s8.chip, 0)
  /\ s2 = "stopped" => Due(s5, 0) /\ s3 > 0
  /\ s7 => Streams(s5, s6)

\* What Update leaves: the chip's deadlines that have not come.
LEMMA MsuUpdate ==
  ASSUME NEW c, NEW t \in Nat, NEW n \in Nat, Timed(c)
  PROVE  /\ Timed(Media!Update(c, t, n))
         /\ t < MsuNever => Due(Media!Update(c, t, n), t)
         /\ Media!Update(c, t, n).track = c.track
         /\ Media!Update(c, t, n).play_pos = c.play_pos + n
<1> USE MsuAssumption
<1> DEFINE u == Media!Update(c, t, n)
           data == IF t >= c.data_busy_until THEN MsuNever ELSE c.data_busy_until
           audio == IF t >= c.audio_busy_until THEN MsuNever ELSE c.audio_busy_until
           ended == n > 0 /\ c.play_pos + n >= c.play_count /\ "repeat" \notin c.status
           gone == (IF ended THEN {"playing"} ELSE {})
                   \cup (IF t >= c.data_busy_until THEN {"dataBusy"} ELSE {})
                   \cup (IF t >= c.audio_busy_until THEN {"audioBusy"} ELSE {})
<1>1. u = [c EXCEPT !.play_pos = c.play_pos + n, !.status = c.status \ gone,
                    !.data_busy_until = data, !.audio_busy_until = audio]
  BY DEF Media!Update
<1>2. c \in MsuChip
  BY DEF Timed
<1>3. data \in 0 .. MsuNever /\ audio \in 0 .. MsuNever /\ c.play_pos + n \in Nat
      /\ c.status \ gone \in SUBSET Media!Flags
  BY <1>2 DEF MsuChip, MsuAssumption
<1>4. /\ "dataBusy" \in c.status \ gone <=> data # MsuNever
      /\ "audioBusy" \in c.status \ gone <=> audio # MsuNever
  BY <1>2 DEF Timed
<1>5. t < MsuNever => data > t /\ audio > t
  BY <1>2 DEF MsuChip, MsuAssumption
<1> HIDE DEF data, audio, gone
<1>6. u \in MsuChip /\ u.status = c.status \ gone /\ u.data_busy_until = data
      /\ u.audio_busy_until = audio /\ u.track = c.track /\ u.play_pos = c.play_pos + n
  BY <1>1, <1>2, <1>3 DEF MsuChip
<1> HIDE DEF u
<1>7. Timed(u) /\ (t < MsuNever => Due(u, t))
  BY <1>4, <1>5, <1>6 DEF Timed, Due
<1> QED
  BY <1>6, <1>7 DEF u

\* The stream moves with the position.
LEMMA MsuAdvance ==
  ASSUME MsuGood, NEW n \in Nat, NEW c, c \in MsuChip,
         c.track = s5.track, c.play_pos = s5.play_pos + n
  PROVE  Media!Advance(n) \in MsuReader /\ (s7 => Streams(c, Media!Advance(n)))
<1> USE MsuAssumption
<1>1. s6 \in MsuReader /\ s5 \in MsuChip
  BY DEF MsuGood, Timed
<1>2. s6.skip \in Nat /\ s6.lead \in Nat /\ s6.taken \in Nat /\ s5.play_pos \in Nat
  BY <1>1 DEF MsuReader, MsuChip
<1> DEFINE r == [s6 EXCEPT !.taken = s6.taken + n]
<1>3. Media!Advance(n) = r
  BY DEF Media!Advance
<1>4. r \in MsuReader
  BY <1>1, <1>2 DEF MsuReader
<1>5. r.track = s6.track /\ r.skip = s6.skip /\ r.lead = s6.lead /\ r.taken = s6.taken + n
  BY <1>1 DEF MsuReader
<1> HIDE DEF r
<1>6. s7 => Streams(c, r)
  BY <1>2, <1>5 DEF MsuGood, Streams, MsuAssumption
<1> QED
  BY <1>3, <1>4, <1>6

\* A register write leaves the CPU in an instruction, with time for a deadline.
LEMMA MsuAccess ==
  ASSUME MsuGood, NEW n \in Nat, Media!Write(n)
  PROVE  /\ s' \in 0 .. MsuFrameTime + MsuStep /\ s2' = "instr" /\ s8' = s8
         /\ s' + MsuBusy \in 0 .. MsuNever /\ s' + MsuBusy # MsuNever /\ s' \in Nat
         /\ Timed(Media!Current(n)) /\ Media!Current(n).track = s5.track
         /\ Media!Current(n).play_pos = s5.play_pos + n
<1> USE MsuAssumption
<1>1. s \in Nat /\ s' \in s + 1 .. s + MsuStep /\ s' <= MsuFrameTime + MsuStep
      /\ s2' = "instr" /\ s8' = s8
  BY DEF Media!Write, Media!BusAccess, MsuGood
<1>2. s' \in 0 .. MsuFrameTime + MsuStep /\ s' + MsuBusy \in 0 .. MsuNever
      /\ s' + MsuBusy # MsuNever /\ s' \in Nat
  BY <1>1 DEF MsuAssumption
<1>3. Timed(s5)
  BY DEF MsuGood
<1>4. /\ Timed(Media!Current(n)) /\ Media!Current(n).track = s5.track
      /\ Media!Current(n).play_pos = s5.play_pos + n
  <2>1. Media!Current(n) = Media!Update(s5, s', n)
    BY DEF Media!Current
  <2> QED
    <3>1. Timed(Media!Update(s5, s', n))
      BY <1>2, <1>3, MsuUpdate
    <3>2. Media!Update(s5, s', n).track = s5.track
      BY <1>2, <1>3, MsuUpdate
    <3>3. Media!Update(s5, s', n).play_pos = s5.play_pos + n
      BY <1>2, <1>3, MsuUpdate
    <3> QED
      BY <2>1, <3>1, <3>2, <3>3
<1> QED
  BY <1>1, <1>2, <1>4

\* The next event of a chip is a time.
LEMMA MsuNextEvent ==
  ASSUME NEW c \in MsuChip
  PROVE  Media!CalcNextEventTS(c) \in Nat /\ Media!CalcNextEventTS(c) >= c.data_busy_until
BY MsuAssumption DEF Media!CalcNextEventTS, Media!Later, MsuChip, MsuAssumption

\* The registers.
LEMMA MsuRegisters ==
  ASSUME MsuGood, NEW n \in Nat,
         Media!WriteDataSeek(n) \/ Media!WriteVolume(n)
           \/ \E flags \in SUBSET {"repeat", "playing"} : Media!WriteControl(n, flags)
  PROVE  MsuGood'
<1> USE MsuAssumption
<1> DEFINE u == Media!Current(n)
<1>1. Media!Write(n)
  BY DEF Media!WriteDataSeek, Media!WriteVolume, Media!WriteControl
<1>2. /\ s' \in 0 .. MsuFrameTime + MsuStep /\ s2' = "instr" /\ s8' = s8
      /\ s' + MsuBusy \in 0 .. MsuNever /\ s' + MsuBusy # MsuNever /\ s' \in Nat
      /\ Timed(u) /\ u.track = s5.track /\ u.play_pos = s5.play_pos + n
  BY <1>1, MsuAccess
<1> HIDE DEF u
<1>3. u \in MsuChip
  BY <1>2 DEF Timed
<1>4. s6' = Media!Advance(n) /\ s7' = s7
  BY DEF Media!WriteDataSeek, Media!WriteVolume, Media!WriteControl
<1>5. s5' \in MsuChip /\ Timed(s5') /\ s5'.track = u.track /\ s5'.play_pos = u.play_pos /\ s3' \in Nat
  <2>1. CASE Media!WriteDataSeek(n)
    <3>1. s5' = [u EXCEPT !.status = u.status \cup {"dataBusy"}, !.data_busy_until = s' + MsuBusy]
          /\ s3' = Media!CalcNextEventTS(s5')
      BY <2>1 DEF Media!WriteDataSeek, u
    <3>2. u.status \cup {"dataBusy"} \in SUBSET Media!Flags
      BY <1>3 DEF MsuChip, Media!Flags
    <3>3. /\ s5' \in MsuChip /\ s5'.status = u.status \cup {"dataBusy"}
          /\ s5'.data_busy_until = s' + MsuBusy /\ s5'.audio_busy_until = u.audio_busy_until
          /\ s5'.track = u.track /\ s5'.play_pos = u.play_pos
      BY <1>2, <1>3, <3>1, <3>2 DEF MsuChip
    <3>4. Timed(s5')
      BY <1>2, <3>3 DEF Timed
    <3> QED
      BY <3>1, <3>3, <3>4, MsuNextEvent
  <2>2. CASE Media!WriteVolume(n)
    BY <1>2, <1>3, <2>2 DEF Media!WriteVolume, u, MsuGood
  <2>3. ASSUME NEW flags \in SUBSET {"repeat", "playing"}, Media!WriteControl(n, flags)
        PROVE  s5' \in MsuChip /\ Timed(s5') /\ s5'.track = u.track /\ s5'.play_pos = u.play_pos
               /\ s3' \in Nat
    <3>1. s3' \in Nat
      BY <2>3 DEF Media!WriteControl, MsuGood
    <3>2. CASE s5' = u
      BY <1>2, <1>3, <3>1, <3>2
    <3>3. CASE s5' = [u EXCEPT !.status = (u.status \ {"repeat", "playing"}) \cup flags]
      <4> DEFINE st == (u.status \ {"repeat", "playing"}) \cup flags
      <4>1. st \in SUBSET Media!Flags
        BY <1>3 DEF MsuChip, Media!Flags
      <4>2. /\ "dataBusy" \in st <=> "dataBusy" \in u.status
            /\ "audioBusy" \in st <=> "audioBusy" \in u.status
        OBVIOUS
      <4> HIDE DEF st
      <4>3. /\ s5' \in MsuChip /\ s5'.status = st
            /\ s5'.data_busy_until = u.data_busy_until /\ s5'.audio_busy_until = u.audio_busy_until
            /\ s5'.track = u.track /\ s5'.play_pos = u.play_pos
        BY <1>3, <3>3, <4>1 DEF MsuChip, st
      <4>4. Timed(s5')
        BY <1>2, <4>2, <4>3 DEF Timed
      <4> QED
        BY <3>1, <4>3, <4>4
    <3> QED
      BY <2>3, <3>2, <3>3 DEF Media!WriteControl, u
  <2> QED
    BY <2>1, <2>2, <2>3
<1>6. s6' \in MsuReader /\ (s7 => Streams(s5', s6'))
  BY <1>2, <1>4, <1>5, MsuAdvance
<1> QED
  BY <1>2, <1>4, <1>5, <1>6 DEF MsuGood

LEMMA MsuTrack ==
  ASSUME MsuGood, NEW n \in Nat, NEW t \in MsuTracks \cup {MsuNone},
         Media!WriteTrack(n, t)
  PROVE  MsuGood'
<1> USE MsuAssumption
<1> DEFINE u == Media!Current(n)
           off == u.status \ {"audioBusy", "repeat", "playing", "missing"}
           stopped == [u EXCEPT !.status = off, !.play_pos = 0, !.play_count = 0,
                                !.audio_busy_until = MsuNever]
<1>1. Media!Write(n)
  BY DEF Media!WriteTrack
<1>2. /\ s' \in 0 .. MsuFrameTime + MsuStep /\ s2' = "instr" /\ s8' = s8
      /\ s' + MsuBusy \in 0 .. MsuNever /\ s' + MsuBusy # MsuNever /\ s' \in Nat
      /\ Timed(u) /\ u.track = s5.track /\ u.play_pos = s5.play_pos + n
  BY <1>1, MsuAccess
<1>3. /\ t \in MsuTracks =>
           /\ s5' = [stopped EXCEPT !.status = off \cup {"audioBusy"}, !.track = t,
                       !.play_count = MsuFrames + MsuLead, !.audio_busy_until = s' + MsuBusy]
           /\ s6' = Media!Stream(t, 0, MsuLead)
           /\ s3' = Media!CalcNextEventTS(s5')
           /\ s7' = TRUE
      /\ t \notin MsuTracks =>
           /\ s5' = [stopped EXCEPT !.status = off \cup {"missing"}]
           /\ s6' = Media!Advance(n) /\ s7' = FALSE /\ s3' = s3
  BY DEF Media!WriteTrack
<1> HIDE DEF u
<1>4. u \in MsuChip /\ s5 \in MsuChip
  BY <1>2 DEF Timed, MsuGood
<1>5. /\ off \in SUBSET Media!Flags /\ off \cup {"audioBusy"} \in SUBSET Media!Flags
      /\ off \cup {"missing"} \in SUBSET Media!Flags
  BY <1>4 DEF MsuChip, Media!Flags
<1>6. /\ "audioBusy" \notin off
      /\ "dataBusy" \in off <=> u.data_busy_until # MsuNever
  BY <1>2 DEF Timed
<1> HIDE DEF off
<1>7. /\ stopped \in MsuChip /\ stopped.status = off /\ stopped.play_pos = 0
      /\ stopped.data_busy_until = u.data_busy_until /\ stopped.audio_busy_until = MsuNever
  <2>1. MsuNever \in 0 .. MsuNever
    BY DEF MsuAssumption
  <2>2. stopped \in MsuChip
    BY <1>4, <1>5, <2>1 DEF MsuChip
  <2>3. /\ stopped.status = off /\ stopped.play_pos = 0
        /\ stopped.data_busy_until = u.data_busy_until /\ stopped.audio_busy_until = MsuNever
    BY <1>4 DEF MsuChip
  <2> QED
    BY <2>2, <2>3
<1> HIDE DEF stopped
<1>8. CASE t \in MsuTracks
  <2>1. MsuFrames + MsuLead \in Nat
    BY DEF MsuAssumption
  <2>2. /\ s5' \in MsuChip /\ s5'.status = off \cup {"audioBusy"} /\ s5'.track = t /\ s5'.play_pos = 0
        /\ s5'.data_busy_until = u.data_busy_until /\ s5'.audio_busy_until = s' + MsuBusy
    BY <1>2, <1>3, <1>5, <1>7, <1>8, <2>1 DEF MsuChip
  <2>3. Timed(s5')
    BY <1>2, <1>6, <2>2 DEF Timed
  <2>4. s6' \in MsuReader /\ s6'.track = t /\ s6'.skip = 0 /\ s6'.lead = MsuLead /\ s6'.taken = 0
    BY <1>3, <1>8 DEF Media!Stream, MsuReader, MsuAssumption
  <2>5. Streams(s5', s6')
    BY <2>2, <2>4 DEF Streams, MsuAssumption
  <2> QED
    BY <1>2, <1>3, <1>8, <2>2, <2>3, <2>4, <2>5, MsuNextEvent DEF MsuGood
<1>9. CASE t \notin MsuTracks
  <2>1. /\ s5' \in MsuChip /\ s5'.status = off \cup {"missing"}
        /\ s5'.data_busy_until = u.data_busy_until /\ s5'.audio_busy_until = MsuNever
    BY <1>3, <1>5, <1>7, <1>9 DEF MsuChip
  <2>2. Timed(s5')
    BY <1>6, <2>1 DEF Timed
  <2>3. s6' \in MsuReader
    BY <1>2, <1>3, <1>4, <1>9, MsuAdvance
  <2> QED
    BY <1>2, <1>3, <1>9, <2>1, <2>2, <2>3 DEF MsuGood
<1> QED
  BY <1>8, <1>9

\* EventHandler brings the chip up to the event's time.
LEMMA MsuHandle ==
  ASSUME MsuGood, NEW n \in Nat, Media!Handle(n)
  PROVE  MsuGood'
<1> USE MsuAssumption
<1> DEFINE u == Media!Update(s5, s3, n)
<1>1. /\ s2 = "dispatch" /\ s2' = s2 /\ s' = s /\ s7' = s7 /\ s8' = s8
      /\ s5' = u /\ s6' = Media!Advance(n) /\ s3' = Media!CalcNextEventTS(s5')
  BY DEF Media!Handle
<1>2. s3 \in Nat /\ Timed(s5)
  BY DEF MsuGood
<1>3. Timed(u) /\ u.track = s5.track /\ u.play_pos = s5.play_pos + n
  <2>1. Timed(Media!Update(s5, s3, n))
    BY <1>2, MsuUpdate
  <2>2. Media!Update(s5, s3, n).track = s5.track
    BY <1>2, MsuUpdate
  <2>3. Media!Update(s5, s3, n).play_pos = s5.play_pos + n
    BY <1>2, MsuUpdate
  <2> QED
    BY <2>1, <2>2, <2>3
<1> HIDE DEF u
<1>4. u \in MsuChip
  BY <1>3 DEF Timed
<1>5. s6' \in MsuReader /\ (s7 => Streams(u, s6')) /\ s3' \in Nat
  BY <1>1, <1>3, <1>4, MsuAdvance, MsuNextEvent
<1> QED
  BY <1>1, <1>3, <1>5 DEF MsuGood

\* The end of a frame ends what is due, and moves the rest to the next.
LEMMA MsuEndFrame ==
  ASSUME MsuGood, NEW n \in Nat, Media!EndFrame(n)
  PROVE  MsuGood'
<1> USE MsuAssumption
<1> DEFINE u == Media!Update(s5, s, n)
           data == Media!Adjusted(u.data_busy_until)
           audio == Media!Adjusted(u.audio_busy_until)
<1>1. /\ s2' = "stopped" /\ s' = 0 /\ s7' = s7 /\ s8' = s8 /\ s6' = Media!Advance(n)
      /\ s5' = [u EXCEPT !.data_busy_until = data, !.audio_busy_until = audio]
      /\ s3' = Media!CalcNextEventTS(u) - s
  BY DEF Media!EndFrame
<1>2. s \in Nat /\ s < MsuNever /\ Timed(s5)
  BY DEF MsuGood, MsuAssumption
<1>3. /\ Timed(u) /\ Due(u, s) /\ u.track = s5.track /\ u.play_pos = s5.play_pos + n
  BY <1>2, MsuUpdate
<1> HIDE DEF u
<1>4. u \in MsuChip
  BY <1>3 DEF Timed
<1>5. /\ data \in 1 .. MsuNever /\ audio \in 1 .. MsuNever
      /\ data = MsuNever <=> u.data_busy_until = MsuNever
      /\ audio = MsuNever <=> u.audio_busy_until = MsuNever
  <2>1. ASSUME NEW d \in 0 .. MsuNever, d > s
        PROVE  Media!Adjusted(d) \in 1 .. MsuNever /\ (Media!Adjusted(d) = MsuNever <=> d = MsuNever)
    BY <1>2, <2>1 DEF Media!Adjusted, Media!Later, MsuAssumption
  <2> QED
    BY <1>3, <1>4, <2>1 DEF Due, MsuChip
<1> HIDE DEF data, audio
<1>6. /\ s5' \in MsuChip /\ s5'.status = u.status /\ s5'.data_busy_until = data
      /\ s5'.audio_busy_until = audio /\ s5'.track = u.track /\ s5'.play_pos = u.play_pos
  <2>1. data \in 0 .. MsuNever /\ audio \in 0 .. MsuNever
    BY <1>5 DEF MsuAssumption
  <2>2. s5' \in MsuChip
    BY <1>1, <1>4, <2>1 DEF MsuChip
  <2> QED
    BY <1>1, <1>4, <2>2 DEF MsuChip
<1>7. Timed(s5') /\ Due(s5', 0)
  BY <1>3, <1>5, <1>6 DEF Timed, Due, MsuAssumption
<1>8. s6' \in MsuReader /\ (s7 => Streams(s5', s6'))
  BY <1>1, <1>3, <1>6, MsuAdvance
<1>9. s3' \in Nat /\ s3' > 0
  <2>1. u.data_busy_until \in Nat /\ u.data_busy_until > s
    BY <1>3, <1>4 DEF Due, MsuChip, MsuAssumption
  <2> QED
    BY <1>1, <1>2, <1>4, <2>1, MsuNextEvent
<1> QED
  BY <1>1, <1>7, <1>8, <1>9 DEF MsuGood, MsuAssumption

LEMMA MsuPowered ==
  Timed(Media!PowerOn) /\ Due(Media!PowerOn, 0) /\ Media!PowerOn \in MsuChip
BY MsuAssumption DEF Media!PowerOn, Timed, Due, MsuChip, Media!Flags, MsuAssumption

\* A state loaded between two frames: the stream is started where it was.
LEMMA MsuLoad ==
  ASSUME MsuGood, Media!Load
  PROVE  MsuGood'
<1> USE MsuAssumption
<1> DEFINE c == s8.chip
<1>1. s2 = "stopped" /\ s2' = s2 /\ s' = s /\ s8' = s8
  BY DEF Media!Load
<1>2. Timed(c) /\ Due(c, 0) /\ c \in MsuChip /\ s8.inStep \in BOOLEAN
  BY DEF MsuGood
<1>3. /\ Timed(s5') /\ Due(s5', 0)
      /\ s7' \in BOOLEAN /\ s6' \in MsuReader /\ (s7' => Streams(s5', s6'))
  <2>1. CASE c.track \notin MsuTracks
    <3> DEFINE off == c.status \ {"audioBusy", "repeat", "playing", "missing"}
    <3>1. /\ s6' = s6 /\ s7' = FALSE
          /\ s5' = [c EXCEPT !.status = off, !.audio_busy_until = MsuNever, !.track = MsuNone,
                              !.play_count = 0, !.play_pos = 0]
      BY <2>1 DEF Media!Load
    <3>2. /\ off \in SUBSET Media!Flags /\ "audioBusy" \notin off
          /\ "dataBusy" \in off <=> c.data_busy_until # MsuNever
      BY <1>2 DEF MsuChip, Timed
    <3> HIDE DEF off
    <3>3. MsuNever \in 0 .. MsuNever /\ MsuNever > 0
      BY DEF MsuAssumption
    <3>4. s5' \in MsuChip
      BY <1>2, <3>1, <3>2, <3>3 DEF MsuChip
    <3>5. /\ s5'.status = off /\ s5'.data_busy_until = c.data_busy_until
          /\ s5'.audio_busy_until = MsuNever
      BY <1>2, <3>1 DEF MsuChip
    <3>6. Timed(s5') /\ Due(s5', 0)
      BY <1>2, <3>2, <3>3, <3>4, <3>5 DEF Timed, Due
    <3> QED
      BY <3>1, <3>6 DEF MsuGood
  <2>2. CASE c.track \in MsuTracks
    <3>1. /\ s5' = c
          /\ s6' = IF c.play_pos < MsuLead THEN Media!Stream(c.track, 0, c.play_pos)
                   ELSE Media!Stream(c.track, c.play_pos - MsuLead, 0)
          /\ s7' \in BOOLEAN /\ (s7' => c.play_pos >= MsuLead)
      BY <2>2 DEF Media!Load
    <3>2. c.play_pos \in Nat /\ MsuLead \in Nat
      BY <1>2 DEF MsuChip, MsuAssumption
    <3>3. CASE c.play_pos < MsuLead
      <4>1. s6' = Media!Stream(c.track, 0, c.play_pos) /\ s7' \in BOOLEAN /\ ~s7'
        BY <3>1, <3>2, <3>3
      <4>2. s6' \in MsuReader
        BY <2>2, <3>2, <4>1 DEF Media!Stream, MsuReader
      <4> QED
        BY <1>2, <3>1, <4>1, <4>2
    <3>4. CASE ~(c.play_pos < MsuLead)
      <4>1. s6' = Media!Stream(c.track, c.play_pos - MsuLead, 0) /\ s7' \in BOOLEAN
        BY <1>2, <3>1, <3>2, <3>4
      <4>2. c.play_pos - MsuLead \in Nat
        BY <3>2, <3>4
      <4>3. s6' \in MsuReader
        BY <2>2, <4>1, <4>2 DEF Media!Stream, MsuReader
      <4>4. s6'.track = c.track /\ s6'.skip = c.play_pos - MsuLead /\ s6'.lead = 0 /\ s6'.taken = 0
        BY <4>1 DEF Media!Stream
      <4>5. Streams(s5', s6')
        BY <3>1, <3>2, <3>4, <4>4 DEF Streams
      <4> QED
        BY <1>2, <3>1, <4>1, <4>3, <4>5
    <3> QED
      BY <3>3, <3>4
  <2> QED
    BY <2>1, <2>2
<1>4. s3' \in Nat /\ s3' > 0
  <2> DEFINE u == Media!Update(s5', 0, 0)
  <2>1. s3' = Media!CalcNextEventTS(u)
    BY DEF Media!Load
  <2>2. Timed(u) /\ Due(u, 0)
    BY <1>3, MsuUpdate DEF MsuAssumption
  <2> HIDE DEF u
  <2>3. u \in MsuChip /\ u.data_busy_until > 0 /\ u.data_busy_until \in Nat
    BY <2>2 DEF Timed, Due, MsuChip, MsuAssumption
  <2> QED
    BY <2>1, <2>3, MsuNextEvent
<1> QED
  BY <1>1, <1>3, <1>4 DEF MsuGood

LEMMA MsuNext ==
  ASSUME MsuGood, Media!Next
  PROVE  MsuGood'
<1> USE MsuAssumption
<1>1. \A n \in Media!Played(s5) : n \in Nat
  BY DEF Media!Played, MsuAssumption
<1>2. ASSUME Media!StartFrame \/ Media!EndInstruction \/ Media!Handled PROVE MsuGood'
  BY <1>2 DEF MsuGood, Media!StartFrame, Media!EndInstruction, Media!Handled
<1>3. ASSUME Media!Instruction \/ Media!ApuPort PROVE MsuGood'
  <2>1. /\ s' \in s + 1 .. s + MsuStep /\ s' <= MsuFrameTime + MsuStep
        /\ s2' = "instr" /\ UNCHANGED <<s3, s5, s6, s7, s8>>
    BY <1>3 DEF Media!Instruction, Media!ApuPort, Media!BusAccess
  <2>2. s' \in 0 .. MsuFrameTime + MsuStep
    BY <2>1 DEF MsuGood, MsuAssumption
  <2> QED
    BY <2>1, <2>2 DEF MsuGood
<1>4. ASSUME Media!Save PROVE MsuGood'
  <2>1. s8' = [chip |-> s5, inStep |-> s7] /\ s2 = "stopped" /\ UNCHANGED <<s, s2, s3, s5, s6, s7>>
    BY <1>4 DEF Media!Save
  <2>2. Timed(s5) /\ Due(s5, 0) /\ s5 \in MsuChip /\ s7 \in BOOLEAN
    BY <2>1 DEF MsuGood, Timed
  <2>3. s8' \in [chip : MsuChip, inStep : BOOLEAN] /\ s8'.chip = s5
    BY <2>1, <2>2
  <2> QED
    BY <2>1, <2>2, <2>3 DEF MsuGood
<1>5. ASSUME Media!Reset PROVE MsuGood'
  <2> DEFINE r == Media!Stream(CHOOSE t \in MsuTracks : TRUE, 0, 0)
  <2>1. /\ s5' = Media!PowerOn /\ s3' = MsuNever /\ s7' = FALSE /\ s6' = r
        /\ UNCHANGED <<s, s2, s8>>
    BY <1>5 DEF Media!Reset
  <2>2. r \in MsuReader
    BY DEF Media!Stream, MsuReader, MsuAssumption
  <2> HIDE DEF r
  <2>3. MsuNever \in Nat /\ MsuNever > 0
    BY DEF MsuAssumption
  <2> QED
    BY <2>1, <2>2, <2>3, MsuPowered DEF MsuGood
<1>6. Media!Load => MsuGood'
  BY MsuLoad
<1>7. ASSUME NEW n \in Media!Played(s5), Media!Handle(n) \/ Media!EndFrame(n) PROVE MsuGood'
  BY <1>1, <1>7, MsuHandle, MsuEndFrame
<1>8. ASSUME NEW n \in Media!Played(s5), Media!WriteDataSeek(n) \/ Media!WriteVolume(n)
      PROVE MsuGood'
  BY <1>1, <1>8, MsuRegisters
<1>9. ASSUME NEW n \in Media!Played(s5), NEW t \in MsuTracks \cup {MsuNone}, Media!WriteTrack(n, t)
      PROVE MsuGood'
  BY <1>1, <1>9, MsuTrack
<1>10. ASSUME NEW n \in Media!Played(s5), NEW flags \in SUBSET {"repeat", "playing"},
              Media!WriteControl(n, flags)
       PROVE MsuGood'
  BY <1>1, <1>10, MsuRegisters
<1> QED
  BY <1>2, <1>3, <1>4, <1>5, <1>6, <1>7, <1>8, <1>9, <1>10 DEF Media!Next, Media!CpuStep

MsuInv == kind = "msu1" => MsuGood

LEMMA MsuStarts ==
  ASSUME Init PROVE MsuInv
<1> USE MsuAssumption
<1>1. SUFFICES ASSUME kind = "msu1" PROVE MsuGood
  BY DEF MsuInv
<1>2. /\ s = 0 /\ s2 = "stopped" /\ s3 = MsuNever /\ s5 = Media!PowerOn
      /\ s6 = Media!Stream(MsuNone, 0, 0) /\ s7 = FALSE
      /\ s8 = [chip |-> Media!PowerOn, inStep |-> FALSE]
  BY <1>1 DEF Init, Media!Init
<1>3. s6 \in MsuReader
  BY <1>2 DEF Media!Stream, MsuReader
<1>4. s8 \in [chip : MsuChip, inStep : BOOLEAN] /\ s8.chip = Media!PowerOn
  BY <1>2, MsuPowered
<1>5. MsuNever \in Nat /\ MsuNever > 0 /\ 0 \in 0 .. MsuFrameTime + MsuStep
  BY MsuAssumption DEF MsuAssumption
<1> QED
  BY <1>2, <1>3, <1>4, <1>5, MsuPowered DEF MsuGood

LEMMA MsuSteps ==
  ASSUME MsuInv, [Next]_vars
  PROVE  MsuInv'
<1>1. CASE Next
  <2>1. kind' = kind /\ (kind = "msu1" => Media!Next)
    BY <1>1 DEF Next, Step
  <2> QED
    BY <2>1, MsuNext, MsuAssumption DEF MsuInv
<1>2. CASE UNCHANGED vars
  BY <1>2 DEF vars, MsuInv, MsuGood
<1> QED
  BY <1>1, <1>2

\* MSU1 (msu1.cpp): a busy flag is set exactly while its deadline runs, no deadline
\* has passed between two frames, and the audio stream is where the position says,
\* for tracks of any length, deadlines, frames and numbers of register writes.
THEOREM MsuStaysInStep == Spec => []Msu1InStep
<1>1. ASSUME MsuInv PROVE Msu1InStep
  <2>1. SUFFICES ASSUME kind = "msu1"
        PROVE Media!FlagsHaveDeadlines /\ Media!NoneOverdue /\ Media!StreamInStep
    BY DEF Msu1InStep
  <2>2. MsuGood
    BY <1>1, <2>1 DEF MsuInv
  <2> QED
    BY <2>2 DEF MsuGood, Timed, Due, Streams, Media!FlagsHaveDeadlines, Media!NoneOverdue,
                Media!StreamInStep
<1> QED
  BY <1>1, MsuStarts, MsuSteps, PTL DEF Spec
=============================================================================
