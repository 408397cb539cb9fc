-------------------------------- MODULE Cx4 --------------------------------
(***************************************************************************)
(* The CX4 processor (cart/cx4.cpp): program words prefetched from one of  *)
(* two cache pages, far branches and returns that look the other page up   *)
(* or load it, the DMA that shares its clock, and the main CPU, each of    *)
(* whose accesses first runs the chip up to the present (Update).          *)
(*                                                                         *)
(* A page's tail holds two halts, so Data has Words + 2 entries.  What an  *)
(* instruction computes is left open (its arithmetic is in Cx4Alu);        *)
(* what it does to the program flow is not.  Words read past the end of    *)
(* Data are undefined, and no behaviour is followed into executing one.    *)
(***************************************************************************)
EXTENDS Integers

CONSTANTS Pages,       \* values of the page register P
          Words,       \* words of a cache page (256)
          Depth,       \* entries of the return stack (8)
          Elapse       \* most clocks between two accesses of the main CPU

VARIABLE cx

None == -1
Halts == Words .. Words + 1             \* the entries of Data that Reset sets to halt

PowerOn ==
  [run |-> FALSE, dma |-> FALSE, cycles |-> 0, p |-> 0,
   active |-> 0, tag |-> [c \in 0 .. 1 |-> None], locked |-> [c \in 0 .. 1 |-> FALSE],
   nextip |-> 0, next |-> "nop",
   stack |-> [d \in 0 .. Depth - 1 |-> <<0, 0>>], sp |-> 0,
   at |-> None, stray |-> FALSE]

\* LoadCache reads a page from the program ROM; Data's two halts stay.
LoadCache(s, page) == [s EXCEPT !.tag[s.active] = page]

\* Fault: a page in the other cache is found, but that does not become active.
CheckCacheStill(s, page) ==
  LET other == 1 - s.active IN
  IF page \in {s.tag[0], s.tag[1]} THEN s
  ELSE IF ~s.locked[other] THEN LoadCache([s EXCEPT !.active = other], page)
  ELSE IF ~s.locked[s.active] THEN LoadCache(s, page) ELSE [s EXCEPT !.run = FALSE]

\* Fault: the other cache is taken, locked or not.
CheckCacheForced(s, page) ==
  LET far == [s EXCEPT !.active = 1 - s.active] IN
  IF s.tag[s.active] = page THEN s
  ELSE IF s.tag[far.active] = page THEN far ELSE LoadCache(far, page)

\* CheckCache: the page is in the active cache, in the other one, or loaded into
\* whichever is not locked, the other one first; if both are, the program stops.
CheckCache(s, page) ==
  LET other == 1 - s.active
      far   == [s EXCEPT !.active = other]
  IN  CASE s.tag[s.active] = page -> s
        [] s.tag[s.active] # page /\ s.tag[other] = page -> far
        [] s.tag[s.active] # page /\ s.tag[other] # page /\ ~s.locked[other] ->
             LoadCache(far, page)
        [] s.tag[s.active] # page /\ s.tag[other] # page /\ s.locked[other]
             /\ ~s.locked[s.active] -> LoadCache(s, page)
        [] OTHER -> [s EXCEPT !.run = FALSE, !.cycles = IF s.dma \/ @ < 0 THEN @ ELSE 0]

\* The word prefetched; past the page's tail the array has ended.
Word(i) == IF i < Words THEN "word" ELSE IF i \in Halts THEN "halt" ELSE "beyond"
Fetch(s) == [s EXCEPT !.next = Word(s.nextip), !.nextip = @ + 1, !.cycles = @ - 1]

----------------------------------------------------------------------------
\* Update: DMA first, then instructions, while there are cycles left.
Busy == cx.cycles > 0

DmaByte == Busy /\ cx.dma /\ cx' = [cx EXCEPT !.cycles = @ - 1]
\* The length has run out, or an address is not one that DMA handles.
DmaEnd  == Busy /\ cx.dma /\ cx' = [cx EXCEPT !.dma = FALSE]

\* An instruction executes whatever Status says: it is tested before the DMA only.
Executes(kinds) == Busy /\ ~cx.dma /\ cx.next \in kinds
Ran(s) == cx' = [s EXCEPT !.stray = cx.stray \/ ~cx.run]

Ordinary == /\ Executes({"nop", "word"})
            /\ \/ Ran(Fetch(cx))
               \/ \E p \in Pages : cx.next = "word" /\ Ran([Fetch(cx) EXCEPT !.p = p])

SKIP_ == Executes({"word"}) /\ Ran([Fetch(cx) EXCEPT !.next = "nop"])

\* A write of the instruction pointer as a register.
SetIP == Executes({"word"}) /\ \E t \in 0 .. Words - 1 : Ran([Fetch(cx) EXCEPT !.nextip = t])

\* Branches, near or far, and the subroutine forms that push the return address.
Pushed(s) == LET sp == (s.sp + 1) % Depth IN
             [s EXCEPT !.sp = sp, !.stack[sp] = <<s.tag[s.active], cx.nextip % Words>>]
Branch ==
  /\ Executes({"word"})
  /\ \E t \in 0 .. Words - 1, far, sub \in BOOLEAN :
       LET s == IF sub THEN Pushed(Fetch(cx)) ELSE Fetch(cx)
           b == [s EXCEPT !.nextip = t, !.next = "nop", !.cycles = @ - 1]
       IN  Ran(IF far THEN [CheckCache(b, b.p) EXCEPT !.at = b.p] ELSE b)

RTS ==
  /\ Executes({"word"})
  /\ LET s == Fetch(cx)
         r == s.stack[s.sp]
         b == [s EXCEPT !.sp = (s.sp + Depth - 1) % Depth, !.nextip = r[2], !.next = "nop"]
     IN  Ran([CheckCache(b, r[1]) EXCEPT !.at = r[1], !.cycles = @ - 1])

Halt == /\ Executes({"word", "halt"})
        /\ Ran([Fetch(cx) EXCEPT !.run = FALSE,
                                 !.cycles = IF cx.cycles > 1 THEN 0 ELSE @])

----------------------------------------------------------------------------
\* The main CPU: time passes, and an access acts once the chip has caught up.
Pass == /\ ~Busy
        /\ \E e \in 1 .. Elapse :
             cx' = [cx EXCEPT !.cycles = IF cx.run \/ cx.dma THEN @ + e ELSE 0]

WriteIP == /\ ~Busy
           /\ \E t \in 0 .. Words - 1 :
                cx' = [LoadCache(cx, cx.p) EXCEPT !.nextip = t, !.next = "nop",
                                                  !.run = TRUE, !.at = cx.p]
WriteCachePage == ~Busy /\ \E c \in 0 .. 1 :
                    cx' = [LoadCache([cx EXCEPT !.active = c], cx.p) EXCEPT !.at = cx.p]
WriteCacheLock == ~Busy /\ \E l \in [0 .. 1 -> BOOLEAN] : cx' = [cx EXCEPT !.locked = l]
WriteProgROMPage == ~Busy /\ \E p \in Pages : cx' = [cx EXCEPT !.p = p]
StartDMA == ~Busy /\ cx' = [cx EXCEPT !.dma = TRUE]
Reset == ~Busy /\ cx' = PowerOn

\* A state loaded restores all of this; NextIP is clamped to Data's last entry.
LoadState == ~Busy /\ cx' = [cx EXCEPT !.nextip = IF @ > Words + 1 THEN Words + 1 ELSE @]

Update  == DmaByte \/ DmaEnd \/ Ordinary \/ SKIP_ \/ SetIP \/ Branch \/ RTS \/ Halt
MainCPU == \/ Pass \/ WriteIP \/ WriteCachePage \/ WriteCacheLock \/ WriteProgROMPage
           \/ StartDMA \/ Reset \/ LoadState
Init == cx = PowerOn
Next == Update \/ MainCPU
Spec == Init /\ [][Next]_cx

----------------------------------------------------------------------------
\* The program runs in the page it was started in, branched or returned to,
\* whichever of the two caches that page is in.
RunsItsPage == cx.run /\ ~cx.stray => cx.tag[cx.active] = cx.at

\* A word executed comes from the page or its two halts: the prefetch may pass
\* the end of Data by one word (a skip at the page's end), never by more.
StopsAtTail == ~cx.stray => cx.nextip <= Words + 3 /\ (cx.run => cx.next # "beyond")

\* What the program does replaces no locked page (the main CPU may reload one).
LockedStays == Update => \A c \in 0 .. 1 : cx.locked[c] => cx'.tag[c] = cx.tag[c]
============================================================================
