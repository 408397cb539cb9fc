------------------------------ MODULE SuperFx ------------------------------
(***************************************************************************)
(* The control side of the SuperFX processor (cart/superfx.cpp): its       *)
(* one-byte pipeline, the prefix instructions, the code cache, and the     *)
(* main CPU starting, stopping and reprogramming it between two runs.      *)
(*                                                                         *)
(* A code byte is the place it was read from, <<bank, address>>, or a mark *)
(* saying why it is not what memory holds there now: Stale once that RAM   *)
(* byte has been stored to, Cpu when the main CPU put it in the cache.     *)
(* Which instruction a byte encodes is left open, so every program is a    *)
(* behaviour.  Time is how far superfx_timestamp is past                   *)
(* superfx_timestamp_run_until; what an instruction costs is left open, as *)
(* are the registers' values, which of ALT1, 2, 3 is pending, and whether  *)
(* SCMR gives the processor the buses when EventHandler is called.         *)
(***************************************************************************)
EXTENDS Integers, FiniteSets

CONSTANTS Size,       \* addresses of a bank (65536)
          Line,       \* bytes of a cache line (16)
          Lines,      \* lines of the cache (32)
          MaxCost,    \* most an instruction takes
          Period      \* GSU clocks between two calls of EventHandler

VARIABLE gsu

Addr   == 0 .. Size - 1
Window == 0 .. Lines * Line - 1
Banks  == {"rom", "ram"}
Stale  == <<"stale", 0>>
Cpu    == <<"cpu", 0>>
Junk   == <<"junk", 0>>

Align(a) == a - (a % Line)

\* SetCBR<true>: the window moves and every line is dropped.
SetCBR(s, a) == [s EXCEPT !.cbr = a, !.valid = {}, !.owned = TRUE,
                          !.cache = [i \in Window |-> Junk]]

\* LJMP and CACHE: with the code cache off the lines are left alone.
MoveWindow(s, a) == IF s.icache THEN SetCBR(s, a) ELSE [s EXCEPT !.cbr = a]

PowerOn(icache) ==
  [pc |-> 0, pfx |-> "none",
   pbr |-> "rom", cbr |-> 0, valid |-> {}, cache |-> [i \in Window |-> Junk],
   owned |-> TRUE, run |-> FALSE, irq |-> FALSE, mask |-> FALSE, line |-> FALSE,
   lead |-> 0, icache |-> icache, last |-> "op"]

\* ReadOp: the byte at R15 is prefetched, from the cache inside its window, while
\* the byte prefetched before it executes: a jump lets one more byte through.
Index(s)  == s.pc - s.cbr
Filled(s) == LET first == Align(Index(s)) IN
             [s EXCEPT !.valid = @ \cup {Index(s) \div Line},
                       !.cache = [i \in Window |->
                          IF i \in first .. first + Line - 1
                          THEN <<s.pbr, (s.cbr + i) % Size>> ELSE @[i]]]
Cached(s) == IF Index(s) \div Line \in s.valid THEN s ELSE Filled(s)
ReadOp(s) == [IF Index(s) \in Window /\ s.icache THEN Cached(s) ELSE s
                EXCEPT !.pc = (@ + 1) % Size]

\* Most instructions end at OpEnd; prefixes and branches at SkipPrefixReset.
OpEnd(s)       == [s EXCEPT !.pfx = "none", !.last = "op"]
Over(p)        == IF p = "with" THEN p ELSE "some"
SkipReset(s)   == [s EXCEPT !.last = "keeps"]
Jump(s, t)     == [s EXCEPT !.pc = t]

\* A store to a byte of RAM: a cached copy is no longer what memory holds.
Stored(s, a) == [s EXCEPT !.cache = [i \in Window |->
                                      IF @[i] = <<"ram", a>> THEN Stale ELSE @[i]]]

----------------------------------------------------------------------------
\* Update: instructions run while superfx_timestamp is behind its target.
Behind == gsu.lead < 0
Takes(s) == \E cost \in 1 .. MaxCost : gsu' = [s EXCEPT !.lead = gsu.lead + cost]

Ordinary == Behind /\ Takes(OpEnd(ReadOp(gsu)))

\* IBT, LMS, SMS take one operand byte, IWT, LM, SM two; each may target R15.
Immediate == /\ Behind
             /\ \E s \in {ReadOp(ReadOp(gsu)), ReadOp(ReadOp(ReadOp(gsu)))} :
                  \/ Takes(OpEnd(s))
                  \/ \E t \in Addr : Takes(OpEnd(Jump(s, t)))

Branch == /\ Behind
          /\ LET s == SkipReset(ReadOp(ReadOp(gsu)))
             IN  Takes(s) \/ \E t \in Addr : Takes(Jump(s, t))

\* JMP, a LOOP that is taken, and any result written to R15.
JumpTo == Behind /\ \E t \in Addr : Takes(OpEnd(Jump(ReadOp(gsu), t)))

LJMP == /\ Behind
        /\ \E t \in Addr, b \in Banks :
             Takes(OpEnd(MoveWindow([Jump(ReadOp(gsu), t) EXCEPT !.pbr = b], Align(t))))

CACHE == Behind /\ LET s == ReadOp(gsu) IN Takes(OpEnd(MoveWindow(s, Align(gsu.pc))))

\* ALT1, 2, 3, TO and FROM; after a WITH, TO and FROM are the moves MOVE and MOVES.
ALT    == Behind /\ LET s == ReadOp(gsu) IN Takes(SkipReset([s EXCEPT !.pfx = Over(@)]))
Select == Behind /\ LET s == ReadOp(gsu)
                    IN  IF s.pfx = "with" THEN Takes(OpEnd(s))
                        ELSE Takes(SkipReset([s EXCEPT !.pfx = "some"]))
WITH_  == Behind /\ Takes(SkipReset([ReadOp(gsu) EXCEPT !.pfx = "with"]))

\* Stores of the SuperFX itself: STB, STW, SBK, and the pixel cache.
Store == Behind /\ \E a \in Addr : Takes(OpEnd(Stored(ReadOp(gsu), a)))

\* STOP ends the run at the target time and leaves the interrupt line alone.
STOP == /\ Behind
        /\ gsu' = [OpEnd(ReadOp(gsu)) EXCEPT !.run = FALSE, !.irq = TRUE, !.lead = 0]

----------------------------------------------------------------------------
\* The main CPU, between two runs.
EventHandler ==
  /\ ~Behind
  /\ \/ gsu' = [gsu EXCEPT !.lead = 0]
     \/ gsu.run /\ gsu' = [gsu EXCEPT !.lead = @ - Period]

WriteR15 ==
  /\ ~Behind
  /\ \E t \in Addr : gsu' = [gsu EXCEPT !.pc = t, !.run = TRUE,
                                        !.pfx = "none"]

WriteSFR ==
  /\ ~Behind
  /\ \/ gsu' = [gsu EXCEPT !.run = TRUE]
     \/ gsu' = SetCBR([gsu EXCEPT !.run = FALSE], 0)

ReadSFR  == ~Behind /\ gsu' = [gsu EXCEPT !.irq = FALSE, !.line = FALSE]
SetCFGR  == /\ ~Behind
            /\ \E m \in BOOLEAN : gsu' = [gsu EXCEPT !.mask = m, !.line = gsu.irq /\ ~m]
WritePBR == ~Behind /\ \E b \in Banks \ {gsu.pbr} :
              gsu' = [gsu EXCEPT !.pbr = b, !.owned = FALSE]
WriteRAM == ~Behind /\ \E a \in Addr : gsu' = Stored(gsu, a)

\* Writing a line's last byte makes the line valid, whatever its other bytes are.
WriteCache ==
  /\ ~Behind
  /\ \E i \in Window :
       LET n   == i \div Line
           own == n \in gsu.valid
       IN  /\ own \/ i % Line = Line - 1
           /\ gsu' = [gsu EXCEPT !.valid = @ \cup {n}, !.owned = FALSE,
                        !.cache = [j \in Window |->
                           IF j = i \/ (~own /\ j \div Line = n) THEN Cpu ELSE @[j]]]

Reset == ~Behind /\ gsu' = PowerOn(gsu.icache)

\* Fault: the lines of the code cache stay valid.
LoadStateValid ==
  ~Behind /\ gsu' = [gsu EXCEPT !.icache = ~@, !.owned = TRUE, !.cache = [i \in Window |-> Junk]]

\* A state saved now is loaded by a session whose code cache setting may differ.
LoadState ==
  /\ ~Behind
  /\ gsu' = [gsu EXCEPT !.icache = ~@, !.valid = {}, !.owned = TRUE,
                        !.cache = [i \in Window |-> Junk]]

MainCPU == \/ EventHandler \/ WriteR15 \/ WriteSFR \/ ReadSFR \/ SetCFGR
           \/ WritePBR \/ WriteRAM \/ WriteCache \/ Reset \/ LoadState
Update  == \/ Ordinary \/ Immediate \/ Branch \/ JumpTo \/ LJMP \/ CACHE
           \/ ALT \/ Select \/ WITH_ \/ Store \/ STOP

Init == \E icache \in BOOLEAN : gsu = PowerOn(icache)
Next == MainCPU \/ Update
Spec == Init /\ [][Next]_gsu

----------------------------------------------------------------------------
\* What the processor fetches through the cache is the code at R15 of the
\* current bank: a valid line holds the bytes of its window, except bytes
\* stored to since, and unless the main CPU wrote the bank or the cache.
CodeFresh ==
  gsu.icache /\ gsu.owned =>
    \A i \in Window : i \div Line \in gsu.valid =>
      gsu.cache[i] \in {<<gsu.pbr, (gsu.cbr + i) % Size>>, Stale}

\* ALT, TO, FROM and WITH act on one instruction: a prefix is pending only
\* right after a prefix, or after a branch, which passes it to its delay slot.
PrefixScoped == gsu.pfx # "none" => gsu.last = "keeps"

\* The line to the main CPU is up only for a pending, unmasked interrupt.
LineHasCause == gsu.line => gsu.irq /\ ~gsu.mask

\* A stopped processor leaves no time owed: AdjustTS may rebase (superfx.cpp:1722).
NothingOwed == ~gsu.run => gsu.lead >= 0

GsuSound == CodeFresh /\ PrefixScoped /\ LineHasCause /\ NothingOwed
============================================================================
