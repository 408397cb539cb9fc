----------------------------- MODULE DmaProofs -----------------------------
(***************************************************************************)
(* For any number of channels, any tables and any register writes: types,  *)
(* that the CPU is halted exactly while a DMA is under way, that RunDMA    *)
(* moves every byte of a channel it finishes, and that HDMA transfers in   *)
(* just the lines a channel's table says.                                  *)
(***************************************************************************)
EXTENDS Dma, WellFoundedInduction, TLAPS

\* The types the argument needs.
Basic ==
  /\ DMAEnable \subseteq Channels
  /\ pc \in {"loop", "dma", "events"}
  /\ halted \in BOOLEAN /\ pending \in BOOLEAN
  /\ DMACH \in [Channels -> [Count : 0 .. CountMod - 1, TableAddr : Nat,
                             LineCounter : 0 .. 2 * Top - 1, Offset : 0 .. 3, DoTransfer : BOOLEAN]]
  /\ programmed \in [Channels -> 0 .. CountMod] /\ moved \in [Channels -> Int]

\* Who is responsible for a started DMA: the event, or the halted CPU.
Owned ==
  /\ pc = "loop" => ~pending /\ (halted <=> DMAEnable # {})
  /\ pc = "dma" => ~pending /\ halted
  /\ pc = "events" => /\ halted => DMAEnable # {}
                      /\ DMAEnable # {} => halted \/ pending

\* What a running channel has moved and what it has left make what was asked.
Left(n) == IF n = 0 THEN CountMod ELSE n
Accounted == \A c \in DMAEnable : moved[c] + Left(DMACH[c].Count) = programmed[c]

IInv == Basic /\ Owned /\ Accounted

\* What a table holds is a byte.
LEMMA TableBytes ==
  ASSUME NEW c \in Channels, NEW a
  PROVE  ReadA(c, a) \in 0 .. 2 * Top - 1
<1>1. 2 * Top - 1 \in Nat /\ 0 \in 0 .. 2 * Top - 1
  BY BoundsAssumption
<1>2. \A k \in 1 .. Len(Entries[c]) : Entries[c][k] \in 1 .. 2 * Top - 1
  <2> DEFINE e == Entries[c]
             Bytes == 1 .. 2 * Top - 1
  <2>1. e \in Seq(Bytes)
    BY TablesAssumption
  <2> HIDE DEF e, Bytes
  <2>2. \A k \in 1 .. Len(e) : e[k] \in Bytes
    BY <2>1
  <2> QED
    BY <2>2 DEF e, Bytes
<1>3. CASE \E k \in 1 .. Len(Entries[c]) : AddrOf(c)[k] = a
  <2> DEFINE k == CHOOSE k \in 1 .. Len(Entries[c]) : AddrOf(c)[k] = a
  <2>1. k \in 1 .. Len(Entries[c])
    BY <1>3
  <2>2. Entries[c][k] \in 1 .. 2 * Top - 1
    BY <1>2, <2>1
  <2>3. ReadA(c, a) = Entries[c][k]
    BY <1>3 DEF ReadA
  <2> QED
    BY <1>1, <2>2, <2>3
<1>4. CASE ~ \E k \in 1 .. Len(Entries[c]) : AddrOf(c)[k] = a
  BY <1>1, <1>4 DEF ReadA
<1> QED
  BY <1>3, <1>4

Regs == [Count : 0 .. CountMod - 1, TableAddr : Nat, LineCounter : 0 .. 2 * Top - 1,
         Offset : 0 .. 3, DoTransfer : BOOLEAN]

\* HDMA keeps a channel's registers in range, and its Count.
LEMMA HdmaRegisters ==
  ASSUME NEW c \in Channels, NEW r \in Regs
  PROVE  /\ Transferred(r, c) \in Regs /\ Transferred(r, c).Count = r.Count
         /\ Counted(r, c) \in Regs /\ Counted(r, c).Count = r.Count
<1>1. Width[c] \in Nat /\ Top \in Nat /\ Top > 1
  BY TablesAssumption, BoundsAssumption
<1>2. Transferred(r, c) \in Regs /\ Transferred(r, c).Count = r.Count
  <2>1. r.TableAddr + Width[c] \in Nat /\ 0 \in 0 .. 3
    BY <1>1 DEF Regs
  <2>2. CASE r.DoTransfer
    <3>1. Transferred(r, c) = [r EXCEPT !.TableAddr = r.TableAddr + Width[c], !.Offset = 0]
      BY <2>2 DEF Transferred
    <3> QED
      BY <2>1, <3>1 DEF Regs
  <2>3. CASE ~r.DoTransfer
    BY <2>3 DEF Transferred
  <2> QED
    BY <2>2, <2>3
<1>3. ReadA(c, r.TableAddr) \in 0 .. 2 * Top - 1
  BY TableBytes
<1>4. (r.LineCounter - 1) % (2 * Top) \in 0 .. 2 * Top - 1
  BY <1>1 DEF Regs
<1>5. Counted(r, c) \in Regs /\ Counted(r, c).Count = r.Count
  <2> DEFINE n == (r.LineCounter - 1) % (2 * Top)
             b == ReadA(c, r.TableAddr)
             t == r.TableAddr + 1
  <2>1. t \in Nat /\ b \in 0 .. 2 * Top - 1 /\ n \in 0 .. 2 * Top - 1
    BY <1>3, <1>4 DEF Regs
  <2>2. Counted(r, c) = IF n % Top = 0
          THEN [r EXCEPT !.LineCounter = b, !.TableAddr = t, !.DoTransfer = TRUE]
          ELSE [r EXCEPT !.LineCounter = n, !.DoTransfer = n >= Top]
    BY DEF Counted
  <2>3. (n >= Top) \in BOOLEAN
    OBVIOUS
  <2> HIDE DEF n, b, t
  <2>4. CASE n % Top = 0
    BY <2>1, <2>2, <2>4 DEF Regs
  <2>5. CASE n % Top # 0
    BY <2>1, <2>2, <2>3, <2>5 DEF Regs
  <2> QED
    BY <2>4, <2>5
<1> QED
  BY <1>2, <1>5

LEMMA InitInv == Init => IInv
<1>1. CountMod - 1 \in 0 .. CountMod - 1 /\ 2 * Top - 1 \in 0 .. 2 * Top - 1
  BY BoundsAssumption
<1> DEFINE r == [Count |-> CountMod - 1, TableAddr |-> 0, LineCounter |-> 2 * Top - 1,
                 Offset |-> 0, DoTransfer |-> FALSE]
<1>2. r \in Regs
  BY <1>1 DEF Regs
<1>3. CountMod \in Nat
  BY BoundsAssumption
<1> HIDE DEF r
<1> SUFFICES ASSUME Init
             PROVE  IInv
  OBVIOUS
<1>4. DMACH = [c \in Channels |-> r]
  BY DEF Init, r
<1>5. DMACH \in [Channels -> Regs]
  BY <1>2, <1>4
<1>6. Basic
  <2>1. DMAEnable = {} /\ pc = "loop" /\ halted = FALSE /\ pending = FALSE
    BY DEF Init
  <2>2. 0 \in 0 .. CountMod /\ 0 \in Int
    BY <1>3
  <2>3. programmed = [c \in Channels |-> 0] /\ moved = [c \in Channels |-> 0]
    BY DEF Init
  <2>4. programmed \in [Channels -> 0 .. CountMod] /\ moved \in [Channels -> Int]
    BY <2>2, <2>3
  <2> QED
    BY <1>5, <2>1, <2>4 DEF Basic, Regs
<1>7. Owned /\ Accounted
  BY DEF Init, Owned, Accounted
<1> QED
  BY <1>6, <1>7 DEF IInv

\* Giving up channels to HDMA leaves the others' account.
LEMMA HdmaStep ==
  ASSUME IInv, pc = "events", UNCHANGED <<pending, pc, programmed, moved>>,
         DMAEnable' \subseteq DMAEnable,
         halted' = (halted /\ DMAEnable' # {}),
         DMACH' \in [Channels -> Regs],
         \A c \in Channels : DMACH'[c].Count = DMACH[c].Count
  PROVE  IInv'
<1>1. Basic'
  BY DEF IInv, Basic, Regs
<1>2. Owned'
  BY DEF IInv, Owned, Basic
<1>3. Accounted'
  BY DEF IInv, Accounted, Basic, Left
<1> QED
  BY <1>1, <1>2, <1>3 DEF IInv

\* Every step keeps the invariant.
LEMMA StepInv == IInv /\ [Next]_vars => IInv'
<1> SUFFICES ASSUME IInv, [Next]_vars
             PROVE  IInv'
  OBVIOUS
<1> USE DEF IInv
<1>0. DMACH \in [Channels -> Regs]
  BY DEF Basic, Regs
<1>1. ASSUME NEW V \in SUBSET Channels, Write_420B(V)
      PROVE  IInv'
  <2>1. \A c \in Channels : DMACH[c].Count \in 0 .. CountMod - 1
    BY DEF Basic
  <2>2. Basic'
    BY <1>1, <2>1, BoundsAssumption DEF Basic, Write_420B, Instruction
  <2>3. Owned'
    BY <1>1 DEF Basic, Owned, Write_420B, Instruction
  <2>4. Accounted'
    BY <1>1, <2>1, BoundsAssumption DEF Basic, Accounted, Left, Write_420B, Instruction
  <2> QED
    BY <2>2, <2>3, <2>4
<1>2. ASSUME NEW V \in SUBSET Channels, Write_420C(V)
      PROVE  IInv'
  BY <1>2 DEF Basic, Owned, Accounted, Left, Write_420C, Instruction
<1>3. ASSUME NEW c \in Channels, NEW n \in 0 .. CountMod - 1, WriteCount(c, n)
      PROVE  IInv'
  <2>1. DMAEnable = {}
    BY <1>3 DEF Owned, WriteCount, Instruction
  <2>2. DMACH' \in [Channels -> Regs]
    BY <1>0, <1>3 DEF WriteCount, Regs
  <2> QED
    BY <1>3, <2>1, <2>2 DEF Basic, Owned, Accounted, Regs, WriteCount, Instruction, history
<1>4. ASSUME NEW c \in Channels, NEW n \in {0, Top}, WriteLineCounter(c, n)
      PROVE  IInv'
  <2>1. DMAEnable = {}
    BY <1>4 DEF Owned, WriteLineCounter, Instruction
  <2>2. n \in 0 .. 2 * Top - 1
    BY BoundsAssumption
  <2>3. DMACH' \in [Channels -> Regs]
    BY <1>0, <1>4, <2>2 DEF WriteLineCounter, Regs
  <2> QED
    BY <1>4, <2>1, <2>3 DEF Basic, Owned, Accounted, Regs, WriteLineCounter, Instruction
<1>5. CASE RunDMA
  BY <1>5 DEF RunDMA, Basic, Owned, Accounted, Left, registers, history
<1>6. ASSUME NEW ch \in DMAEnable, DmaByte(ch)
      PROVE  IInv'
  <2> DEFINE n == (DMACH[ch].Count - 1) % CountMod
  <2>2. ch \in Channels
    BY DEF Basic
  <2>3. DMACH[ch].Count \in 0 .. CountMod - 1 /\ CountMod \in Nat /\ CountMod > 1
    BY <2>2, BoundsAssumption DEF Basic
  <2>4. n \in 0 .. CountMod - 1 /\ Left(DMACH[ch].Count) = (IF n = 0 THEN 1 ELSE n + 1)
    BY <2>3 DEF Left
  <2>5. /\ DMACH' = [DMACH EXCEPT ![ch].Count = n,
                                  ![ch].Offset = IF n = 0 THEN 0 ELSE (@ + 1) % Width[ch]]
        /\ DMAEnable' = IF n = 0 THEN {c \in DMAEnable : c > ch} ELSE DMAEnable
        /\ moved' = [moved EXCEPT ![ch] = @ + 1]
        /\ UNCHANGED <<cpu, programmed>>
    BY <1>6 DEF DmaByte
  <2>6. (IF n = 0 THEN 0 ELSE (DMACH[ch].Offset + 1) % Width[ch]) \in 0 .. 3
    <3>1. Width[ch] \in {1, 2, 4} /\ DMACH[ch].Offset \in 0 .. 3
      BY <2>2, TablesAssumption DEF Basic
    <3>2. \A o \in 0 .. 3 : /\ (o + 1) % 1 \in 0 .. 3
                            /\ (o + 1) % 2 \in 0 .. 3
                            /\ (o + 1) % 4 \in 0 .. 3
      OBVIOUS
    <3> QED
      BY <3>1, <3>2
  <2>7. DMACH' \in [Channels -> Regs]
    BY <1>0, <2>2, <2>4, <2>5, <2>6 DEF Regs
  <2>8. Basic'
    BY <2>2, <2>5, <2>7 DEF Basic, Regs, cpu
  <2>9. Owned'
    BY <1>6, <2>5 DEF DmaByte, Owned, cpu
  <2>10. Accounted'
    <3> SUFFICES ASSUME NEW c \in DMAEnable'
                 PROVE  moved'[c] + Left(DMACH'[c].Count) = programmed[c]
      BY <2>5 DEF Accounted
    <3>1. c \in DMAEnable /\ c \in Channels
      BY <2>5 DEF Basic
    <3>2. moved[c] + Left(DMACH[c].Count) = programmed[c] /\ moved[c] \in Int
      BY <3>1 DEF Accounted, Basic
    <3>3. CASE c # ch
      BY <2>2, <2>5, <3>1, <3>2, <3>3 DEF Basic
    <3>4. CASE c = ch
      <4>1. n # 0
        BY <2>2, <2>5, <3>4 DEF Basic, Channels
      <4>2. moved'[c] = moved[c] + 1 /\ DMACH'[c].Count = n
        BY <2>2, <2>5, <3>4 DEF Basic
      <4> QED
        BY <2>4, <3>2, <3>4, <4>1, <4>2 DEF Left
    <3> QED
      BY <3>3, <3>4
  <2> QED
    BY <2>8, <2>9, <2>10
<1>7. CASE DmaYield
  BY <1>7 DEF DmaYield, Basic, Owned, Accounted, Left, registers, history
<1>8. CASE DmaDone
  BY <1>8 DEF DmaDone, Basic, Owned, Accounted, Left, registers, history
<1>9. CASE CallEventHandler
  BY <1>9 DEF CallEventHandler, Basic, Owned, Accounted, Left, registers, history
<1>10. CASE EventsDone
  BY <1>10 DEF EventsDone, Basic, Owned, Accounted, Left, registers, history
<1>11. CASE DMA_Update
  BY <1>11 DEF DMA_Update, Basic, Owned, Accounted, Left, registers, history
<1>12. CASE LineStart
  <2>1. CASE scanline' = 0
    <3>1. \A c \in Channels : Started(c) \in Regs /\ Started(c).Count = DMACH[c].Count
      BY <1>0, TableBytes DEF Started, Regs
    <3>2. /\ DMAEnable' \subseteq DMAEnable
          /\ halted' = (halted /\ DMAEnable' # {})
          /\ DMACH' = [c \in Channels |->
               IF c \in HDMAEnable THEN Started(c) ELSE [DMACH[c] EXCEPT !.DoTransfer = FALSE]]
      BY <1>12, <2>1 DEF LineStart, InitHDMA
    <3>3. DMACH' \in [Channels -> Regs] /\ \A c \in Channels : DMACH'[c].Count = DMACH[c].Count
      BY <1>0, <3>1, <3>2 DEF Regs
    <3> QED
      BY <1>12, <3>2, <3>3, HdmaStep DEF LineStart
  <2>2. CASE scanline' # 0
    BY <1>12, <2>2 DEF LineStart, Basic, Owned, Accounted, Left, registers
  <2> QED
    BY <2>1, <2>2
<1>13. CASE HBlank
  <2>1. CASE scanline < Visible
    <3> DEFINE on == HDMAEnable \cap HDMAEnableMask
    <3>1. \A c \in Channels : /\ Counted(Transferred(DMACH[c], c), c) \in Regs
                              /\ Counted(Transferred(DMACH[c], c), c).Count = DMACH[c].Count
      BY <1>0, HdmaRegisters
    <3>2. /\ DMAEnable' \subseteq DMAEnable
          /\ halted' = (halted /\ DMAEnable' # {})
          /\ DMACH' = [c \in Channels |->
               IF c \in on THEN Counted(Transferred(DMACH[c], c), c) ELSE DMACH[c]]
      BY <1>13, <2>1 DEF HBlank, RunHDMA
    <3>3. DMACH' \in [Channels -> Regs] /\ \A c \in Channels : DMACH'[c].Count = DMACH[c].Count
      BY <1>0, <3>1, <3>2
    <3> QED
      BY <1>13, <3>2, <3>3, HdmaStep DEF HBlank
  <2>2. CASE ~(scanline < Visible)
    BY <1>13, <2>2 DEF HBlank, Basic, Owned, Accounted, Left, registers
  <2> QED
    BY <2>1, <2>2
<1>14. CASE UNCHANGED vars
  BY <1>14 DEF vars, Basic, Owned, Accounted, Left, registers, cpu, history
<1> QED
  BY <1>1, <1>2, <1>3, <1>4, <1>5, <1>6, <1>7, <1>8, <1>9, <1>10, <1>11, <1>12, <1>13, <1>14
     DEF Next, CpuStep, Write, Moves

LEMMA Invariance == Spec => []IInv
BY InitInv, StepInv, PTL DEF Spec

\* The CPU is halted exactly while there is DMA to do, wherever HDMA and the
\* events end it (DMA_Update, RunDMA, DMA_InitHDMA, DMA_RunHDMA).
THEOREM HaltIsExact == Spec => []HaltedExactlyForDma
<1>1. IInv => HaltedExactlyForDma
  BY DEF IInv, Owned, HaltedExactlyForDma
<1> QED
  BY <1>1, Invariance, PTL

\* RunDMA gives no channel up before its last byte.
THEOREM DmaIsWhole == Spec => TransfersWhole
<1>1. IInv /\ [Next]_vars =>
        [pc = "dma" => \A c \in DMAEnable \ DMAEnable' : moved'[c] = programmed[c]]_vars
  <2> SUFFICES ASSUME IInv, Next, pc = "dma", NEW c \in DMAEnable, c \notin DMAEnable'
               PROVE  moved'[c] = programmed[c]
    BY DEF vars
  <2>1. PICK ch \in DMAEnable : DmaByte(ch)
    BY DEF Next, CpuStep, Moves, Write, Write_420B, Write_420C, WriteCount, WriteLineCounter, Instruction,
           RunDMA, DmaYield, DmaDone, CallEventHandler, EventsDone, DMA_Update, LineStart, HBlank,
           registers
  <2> DEFINE n == (DMACH[ch].Count - 1) % CountMod
  <2>2. ch \in Channels /\ \A d \in DMAEnable : ch <= d
    BY <2>1 DEF IInv, Basic, DmaByte
  <2>3. /\ DMAEnable' = IF n = 0 THEN {x \in DMAEnable : x > ch} ELSE DMAEnable
        /\ moved' = [moved EXCEPT ![ch] = @ + 1]
    BY <2>1 DEF DmaByte
  <2>4. n = 0 /\ c = ch
    BY <2>2, <2>3 DEF IInv, Basic, Channels
  <2>5. DMACH[ch].Count \in 0 .. CountMod - 1 /\ CountMod \in Nat /\ CountMod > 1
    BY <2>2, BoundsAssumption DEF IInv, Basic
  <2>6. Left(DMACH[ch].Count) = 1
    BY <2>4, <2>5 DEF Left
  <2>7. moved[ch] + 1 = programmed[ch] /\ moved[ch] \in Int
    BY <2>2, <2>6 DEF IInv, Accounted, Basic
  <2> QED
    BY <2>2, <2>3, <2>4, <2>7 DEF IInv, Basic
<1> QED
  BY <1>1, Invariance, PTL DEF Spec, TransfersWhole

----------------------------------------------------------------------------
(* The tables.  Induction over the entries: the least counterexample.      *)

LEMMA Induction ==
  ASSUME NEW T \in SUBSET Nat, 0 \in T, \A n \in T : n + 1 \in T
  PROVE  T = Nat
<1> SUFFICES ASSUME Nat \ T # {}
             PROVE  FALSE
  OBVIOUS
<1> DEFINE U == Nat \ T
           R == OpToRel(<, Nat)
<1>1. IsWellFoundedOn(R, Nat)
  BY NatLessThanWellFounded
<1>2. \A x \in Nat, y \in Nat : <<y, x>> \in R <=> y < x
  BY DEF OpToRel
<1>3. U \subseteq Nat /\ U # {}
  OBVIOUS
<1> HIDE DEF R
<1>4. \E x \in U : \A y \in U : ~ (<<y, x>> \in R)
  <2> HIDE DEF U
  <2> QED
    BY <1>1, <1>3, WFMin
<1>5. PICK x \in U : \A y \in U : ~ (<<y, x>> \in R)
  BY <1>4
<1>6. \A y \in U : ~(y < x)
  BY <1>2, <1>3, <1>5
<1>7. x \in Nat /\ x # 0
  OBVIOUS
<1>8. x - 1 \in Nat /\ x - 1 < x /\ (x - 1) + 1 = x
  BY <1>7
<1>9. x - 1 \in T
  BY <1>6, <1>8
<1> QED
  BY <1>8, <1>9

\* Sums of steps are a function.
LEMMA Summed ==
  ASSUME NEW d \in [Nat -> Nat], NEW z \in Nat, NEW N \in Nat
  PROVE  \E f \in [1 .. N -> Nat] : f = [k \in 1 .. N |-> IF k = 1 THEN z ELSE f[k - 1] + d[k - 1]]
<1> DEFINE Sums(f, n) == \A k \in 1 .. n : f[k] = IF k = 1 THEN z ELSE f[k - 1] + d[k - 1]
           T == {n \in Nat : \E f \in [1 .. n -> Nat] : Sums(f, n)}
<1>1. 0 \in T
  <2>1. [k \in 1 .. 0 |-> 0] \in [1 .. 0 -> Nat]
    OBVIOUS
  <2>2. \A k \in 1 .. 0 : FALSE
    OBVIOUS
  <2>3. Sums([k \in 1 .. 0 |-> 0], 0)
    BY <2>2
  <2> QED
    BY <2>1, <2>3
<1>2. ASSUME NEW n \in T
      PROVE  n + 1 \in T
  <2>1. PICK f \in [1 .. n -> Nat] : Sums(f, n)
    OBVIOUS
  <2> DEFINE v == IF n = 0 THEN z ELSE f[n] + d[n]
             g == [k \in 1 .. n + 1 |-> IF k = n + 1 THEN v ELSE f[k]]
  <2>2. n \in Nat /\ n + 1 \in Nat
    OBVIOUS
  <2>3. v \in Nat
    <3>1. CASE n = 0
      BY <3>1
    <3>2. CASE n # 0
      <4>1. n \in 1 .. n
        BY <2>2, <3>2
      <4>2. f[n] \in Nat /\ d[n] \in Nat
        BY <2>2, <4>1
      <4>3. \A a, b \in Nat : a + b \in Nat
        OBVIOUS
      <4> QED
        BY <3>2, <4>2, <4>3, Zenon
    <3> QED
      BY <3>1, <3>2
  <2>4. g \in [1 .. n + 1 -> Nat]
    <3>1. \A k \in 1 .. n + 1 : k # n + 1 => k \in 1 .. n
      BY <2>2
    <3> HIDE DEF v
    <3> QED
      BY <2>3, <3>1
  <2>5. Sums(g, n + 1)
    <3> SUFFICES ASSUME NEW k \in 1 .. n + 1
                 PROVE  g[k] = IF k = 1 THEN z ELSE g[k - 1] + d[k - 1]
      OBVIOUS
    <3>1. CASE k = n + 1
      <4>1. n # 0 => k - 1 \in 1 .. n + 1 /\ k - 1 # n + 1 /\ k - 1 = n
        BY <2>2, <3>1
      <4> QED
        BY <2>2, <3>1, <4>1
    <3>2. CASE k # n + 1
      <4>1. k \in 1 .. n /\ (k # 1 => k - 1 \in 1 .. n + 1 /\ k - 1 # n + 1)
        BY <2>2, <3>2
      <4> QED
        BY <2>1, <3>2, <4>1
    <3> QED
      BY <3>1, <3>2
  <2> QED
    BY <2>2, <2>4, <2>5
<1>3. T = Nat
  <2>1. T \in SUBSET Nat
    OBVIOUS
  <2> HIDE DEF T
  <2> QED
    BY <1>1, <1>2, <2>1, Induction
<1>4. PICK f \in [1 .. N -> Nat] : Sums(f, N)
  BY <1>3
<1>5. f = [k \in 1 .. N |-> IF k = 1 THEN z ELSE f[k - 1] + d[k - 1]]
  BY <1>4
<1> QED
  BY <1>5

\* They grow by at least the step.
LEMMA Growing ==
  ASSUME NEW d \in [Nat -> Nat], NEW N \in Nat, NEW f \in [1 .. N -> Nat],
         \A k \in 1 .. N : k # 1 => f[k] = f[k - 1] + d[k - 1]
  PROVE  \A j, k \in 1 .. N : j < k => f[j] + d[j] <= f[k]
<1> DEFINE T == {n \in Nat : \A j, k \in 1 .. N : j < k /\ k <= n => f[j] + d[j] <= f[k]}
<1>1. 0 \in T
  OBVIOUS
<1>2. ASSUME NEW n \in T
      PROVE  n + 1 \in T
  <2> SUFFICES ASSUME NEW j \in 1 .. N, NEW k \in 1 .. N, j < k, k <= n + 1
               PROVE  f[j] + d[j] <= f[k]
    OBVIOUS
  <2>1. CASE k <= n
    BY <2>1
  <2>2. CASE k = n + 1 /\ j = n
    <3>1. k # 1 /\ k - 1 = j
      BY <2>2
    <3> QED
      BY <3>1
  <2>3. CASE k = n + 1 /\ j < n
    <3>1. n \in 1 .. N /\ k # 1 /\ k - 1 = n
      BY <2>3
    <3>2. f[j] + d[j] <= f[n] /\ f[k] = f[n] + d[n]
      BY <2>3, <3>1
    <3>3. f[j] \in Nat /\ d[j] \in Nat /\ f[n] \in Nat /\ d[n] \in Nat
      <4>1. j \in Nat /\ n \in Nat
        OBVIOUS
      <4> QED
        BY <3>1, <4>1, Zenon
    <3>4. \A x, y, u, v \in Nat : x + y <= u => x + y <= u + v
      OBVIOUS
    <3> QED
      BY <3>2, <3>3, <3>4, Zenon
  <2> QED
    BY <2>1, <2>2, <2>3
<1>3. T = Nat
  <2>1. T \in SUBSET Nat
    OBVIOUS
  <2> HIDE DEF T
  <2> QED
    BY <1>1, <1>2, <2>1, Induction
<1> SUFFICES ASSUME NEW j \in 1 .. N, NEW k \in 1 .. N, j < k
             PROVE  f[j] + d[j] <= f[k]
  OBVIOUS
<1>4. N \in T
  BY <1>3
<1> QED
  BY <1>4

\* An entry byte's lines and transfers.
LEMMA EntryBytes ==
  ASSUME NEW c \in Channels
  PROVE  /\ Len(Entries[c]) \in Nat
         /\ Width[c] \in Nat /\ Top \in Nat /\ Top > 1
         /\ \A k \in 1 .. Len(Entries[c]) :
              /\ Entries[c][k] \in 1 .. 2 * Top - 1
              /\ Lines(Entries[c][k]) \in 1 .. Top
              /\ Transfers(Entries[c][k]) \in 1 .. Top
<1>1. Width[c] \in Nat /\ Top \in Nat /\ Top > 1
  BY TablesAssumption, BoundsAssumption
<1>2. Len(Entries[c]) \in Nat /\ \A k \in 1 .. Len(Entries[c]) : Entries[c][k] \in 1 .. 2 * Top - 1
  <2> DEFINE e == Entries[c]
             Bytes == 1 .. 2 * Top - 1
  <2>1. e \in Seq(Bytes)
    BY TablesAssumption
  <2> HIDE DEF e, Bytes
  <2>2. Len(e) \in Nat /\ \A k \in 1 .. Len(e) : e[k] \in Bytes
    BY <2>1
  <2> QED
    BY <2>2 DEF e, Bytes
<1>3. ASSUME NEW b \in 1 .. 2 * Top - 1
      PROVE  Lines(b) \in 1 .. Top /\ Transfers(b) \in 1 .. Top
  <2>1. b % Top \in 0 .. Top - 1
    BY <1>1
  <2>2. Lines(b) \in 1 .. Top
    BY <1>1, <2>1 DEF Lines
  <2> QED
    BY <1>1, <2>2 DEF Transfers
<1> QED
  BY <1>1, <1>2, <1>3

\* A sum that is defined recursively is the sum.
LEMMA Unrolled ==
  ASSUME NEW d \in [Nat -> Nat], NEW z \in Nat, NEW N \in Nat, NEW A
  PROVE  (A = CHOOSE f : f = [k \in 1 .. N |-> IF k = 1 THEN z ELSE f[k - 1] + d[k - 1]])
         => /\ A \in [1 .. N -> Nat]
            /\ N > 0 => A[1] = z
            /\ \A k \in 1 .. N : k # 1 => A[k] = A[k - 1] + d[k - 1]
            /\ \A j, k \in 1 .. N : j < k => A[j] + d[j] <= A[k]
<1>0. SUFFICES
        ASSUME A = CHOOSE f : f = [k \in 1 .. N |-> IF k = 1 THEN z ELSE f[k - 1] + d[k - 1]]
        PROVE  /\ A \in [1 .. N -> Nat]
               /\ N > 0 => A[1] = z
               /\ \A k \in 1 .. N : k # 1 => A[k] = A[k - 1] + d[k - 1]
               /\ \A j, k \in 1 .. N : j < k => A[j] + d[j] <= A[k]
  OBVIOUS
<1> DEFINE S(f) == [k \in 1 .. N |-> IF k = 1 THEN z ELSE f[k - 1] + d[k - 1]]
<1>1. PICK f \in [1 .. N -> Nat] : f = S(f)
  BY Summed
<1>2. A = S(A)
  <2>1. A = CHOOSE g : g = S(g)
    BY <1>0
  <2>2. \E g : g = S(g)
    BY <1>1
  <2> HIDE DEF S
  <2> QED
    BY <2>1, <2>2, Zenon
<1>3. \A k \in 1 .. N : /\ A[k] = IF k = 1 THEN z ELSE A[k - 1] + d[k - 1]
                        /\ f[k] = IF k = 1 THEN z ELSE f[k - 1] + d[k - 1]
  BY <1>1, <1>2, Zenon
<1> DEFINE T == {n \in Nat : \A k \in 1 .. N : k <= n => A[k] = f[k]}
<1>4. 0 \in T
  OBVIOUS
<1>5. ASSUME NEW n \in T
      PROVE  n + 1 \in T
  <2>0. n \in Nat /\ \A k \in 1 .. N : k <= n => A[k] = f[k]
    OBVIOUS
  <2> SUFFICES ASSUME NEW k \in 1 .. N, k <= n + 1
               PROVE  A[k] = f[k]
    BY <2>0
  <2>1. k # 1 => k - 1 \in 1 .. N /\ k - 1 <= n
    BY <2>0
  <2>2. k # 1 => A[k - 1] = f[k - 1]
    BY <2>0, <2>1
  <2>3. /\ A[k] = IF k = 1 THEN z ELSE A[k - 1] + d[k - 1]
        /\ f[k] = IF k = 1 THEN z ELSE f[k - 1] + d[k - 1]
    BY <1>3, Zenon
  <2>4. CASE k = 1
    <3> HIDE DEF T
    <3> QED
      BY <2>3, <2>4
  <2>5. CASE k # 1
    <3> HIDE DEF T
    <3> QED
      BY <2>2, <2>3, <2>5
  <2> QED
    BY <2>4, <2>5
<1>6. T = Nat
  <2>1. T \in SUBSET Nat
    OBVIOUS
  <2> HIDE DEF T
  <2> QED
    BY <1>4, <1>5, <2>1, Induction
<1>7. A = f
  <2>1. N \in T
    BY <1>6
  <2>2. \A k \in 1 .. N : A[k] = f[k]
    <3>1. \A k \in 1 .. N : k <= N => A[k] = f[k]
      BY <2>1
    <3> HIDE DEF T
    <3> QED
      BY <3>1
  <2>3. A = [k \in 1 .. N |-> A[k]]
    BY <1>2
  <2> QED
    BY <2>2, <2>3
<1>8. N > 0 => A[1] = z
  <2>1. N > 0 => 1 \in 1 .. N
    OBVIOUS
  <2> QED
    BY <1>3, <2>1, Zenon
<1>9. \A k \in 1 .. N : k # 1 => A[k] = A[k - 1] + d[k - 1]
  BY <1>3, Zenon
<1> QED
  BY <1>7, <1>8, <1>9, Growing

\* Where the entries lie: the first at 1, the next past the bytes of the one
\* before.  And the lines they stand for: the first from 0.
Bytes(c) == [k \in Nat |->
  IF k \in 1 .. Len(Entries[c]) THEN 1 + Width[c] * Transfers(Entries[c][k]) ELSE 0]
LinesOf(c) == [k \in Nat |-> IF k \in 1 .. Len(Entries[c]) THEN Lines(Entries[c][k]) ELSE 0]
LEMMA Steps ==
  ASSUME NEW c \in Channels
  PROVE  /\ Bytes(c) \in [Nat -> Nat] /\ LinesOf(c) \in [Nat -> Nat]
         /\ \A k \in 1 .. Len(Entries[c]) :
              /\ Width[c] * Transfers(Entries[c][k]) \in Nat
              /\ Bytes(c)[k] = 1 + Width[c] * Transfers(Entries[c][k])
              /\ LinesOf(c)[k] = Lines(Entries[c][k])
<1>1. \A k \in 1 .. Len(Entries[c]) : Transfers(Entries[c][k]) \in Nat /\ Lines(Entries[c][k]) \in Nat
  BY EntryBytes
<1>2. \A k \in 1 .. Len(Entries[c]) : Width[c] * Transfers(Entries[c][k]) \in Nat
  BY <1>1, EntryBytes
<1> QED
  BY <1>1, <1>2 DEF Bytes, LinesOf

LEMMA Addresses ==
  ASSUME NEW c \in Channels, NEW N, N = Len(Entries[c])
  PROVE  /\ AddrOf(c) \in [1 .. N -> Nat]
         /\ N > 0 => AddrOf(c)[1] = 1
         /\ \A k \in 1 .. N : k # 1 => AddrOf(c)[k] = AddrOf(c)[k - 1] + Bytes(c)[k - 1]
         /\ \A j, k \in 1 .. N : j < k => AddrOf(c)[j] + Bytes(c)[j] <= AddrOf(c)[k]
<1> DEFINE d == Bytes(c)
           M == N
           A == AddrOf(c)
<1>1. M \in Nat /\ d \in [Nat -> Nat] /\ 1 \in Nat
  BY EntryBytes, Steps
<1>2. \A f : [k \in 1 .. N |-> IF k = 1 THEN 1
                                ELSE f[k - 1] + (1 + Width[c] * Transfers(Entries[c][k - 1]))]
           = [k \in 1 .. N |-> IF k = 1 THEN 1 ELSE f[k - 1] + d[k - 1]]
  <2>1. \A k \in 1 .. N : k # 1 => 1 + Width[c] * Transfers(Entries[c][k - 1]) = d[k - 1]
    <3> SUFFICES ASSUME NEW k \in 1 .. N, k # 1
                 PROVE  1 + Width[c] * Transfers(Entries[c][k - 1]) = d[k - 1]
      OBVIOUS
    <3>1. k - 1 \in 1 .. N
      BY <1>1
    <3> QED
      BY <3>1, Steps, Zenon
  <2> HIDE DEF d
  <2> QED
    BY <2>1, Zenon
<1>3. A = CHOOSE f : f = [k \in 1 .. N |-> IF k = 1 THEN 1
                                ELSE f[k - 1] + (1 + Width[c] * Transfers(Entries[c][k - 1]))]
  BY DEF AddrOf
<1>4. A = CHOOSE f : f = [k \in 1 .. M |-> IF k = 1 THEN 1 ELSE f[k - 1] + d[k - 1]]
  <2>1. A = CHOOSE f : f = [k \in 1 .. N |-> IF k = 1 THEN 1 ELSE f[k - 1] + d[k - 1]]
    <3> HIDE DEF A, d
    <3> QED
      BY <1>2, <1>3, Zenon
  <2> QED
    BY <2>1, Zenon
<1>5. /\ A \in [1 .. M -> Nat]
      /\ M > 0 => A[1] = 1
      /\ \A k \in 1 .. M : k # 1 => A[k] = A[k - 1] + d[k - 1]
      /\ \A j, k \in 1 .. M : j < k => A[j] + d[j] <= A[k]
  <2> HIDE DEF A, d, M
  <2>1. (A = CHOOSE f : f = [k \in 1 .. M |-> IF k = 1 THEN 1 ELSE f[k - 1] + d[k - 1]])
        => /\ A \in [1 .. M -> Nat]
           /\ M > 0 => A[1] = 1
           /\ \A k \in 1 .. M : k # 1 => A[k] = A[k - 1] + d[k - 1]
           /\ \A j, k \in 1 .. M : j < k => A[j] + d[j] <= A[k]
    BY <1>1, Unrolled
  <2> QED
    BY <1>1, <1>4, <2>1
<1> QED
  BY <1>5

LEMMA FirstLines ==
  ASSUME NEW c \in Channels, NEW N, N = Len(Entries[c])
  PROVE  /\ FirstOf(c) \in [1 .. N + 1 -> Nat]
         /\ FirstOf(c)[1] = 0
         /\ \A k \in 1 .. N : FirstOf(c)[k + 1] = FirstOf(c)[k] + LinesOf(c)[k]
         /\ \A j, k \in 1 .. N + 1 : j < k => FirstOf(c)[j] + LinesOf(c)[j] <= FirstOf(c)[k]
<1> DEFINE d == LinesOf(c)
           M == N + 1
           A == FirstOf(c)
<1>1. N \in Nat /\ M \in Nat /\ M > 0 /\ d \in [Nat -> Nat] /\ 0 \in Nat
  <2>1. N \in Nat
    BY EntryBytes
  <2>2. d \in [Nat -> Nat]
    BY Steps, Zenon
  <2> QED
    BY <2>1, <2>2
<1>2. \A f : [k \in 1 .. M |-> IF k = 1 THEN 0 ELSE f[k - 1] + Lines(Entries[c][k - 1])]
           = [k \in 1 .. M |-> IF k = 1 THEN 0 ELSE f[k - 1] + d[k - 1]]
  <2>1. \A k \in 1 .. M : k # 1 => Lines(Entries[c][k - 1]) = d[k - 1]
    <3> SUFFICES ASSUME NEW k \in 1 .. M, k # 1
                 PROVE  Lines(Entries[c][k - 1]) = d[k - 1]
      OBVIOUS
    <3>1. k - 1 \in 1 .. N
      BY <1>1
    <3> QED
      BY <3>1, Steps, Zenon
  <2> HIDE DEF d, M
  <2> QED
    BY <2>1, Zenon
<1>3. A = CHOOSE f : f = [k \in 1 .. M |-> IF k = 1 THEN 0
                                            ELSE f[k - 1] + Lines(Entries[c][k - 1])]
  BY DEF FirstOf
<1>4. A = CHOOSE f : f = [k \in 1 .. M |-> IF k = 1 THEN 0 ELSE f[k - 1] + d[k - 1]]
  <2> HIDE DEF A, d, M
  <2> QED
    BY <1>2, <1>3, Zenon
<1>5. /\ A \in [1 .. M -> Nat]
      /\ A[1] = 0
      /\ \A k \in 1 .. M : k # 1 => A[k] = A[k - 1] + d[k - 1]
      /\ \A j, k \in 1 .. M : j < k => A[j] + d[j] <= A[k]
  <2> HIDE DEF A, d, M
  <2>1. (A = CHOOSE f : f = [k \in 1 .. M |-> IF k = 1 THEN 0 ELSE f[k - 1] + d[k - 1]])
        => /\ A \in [1 .. M -> Nat]
           /\ M > 0 => A[1] = 0
           /\ \A k \in 1 .. M : k # 1 => A[k] = A[k - 1] + d[k - 1]
           /\ \A j, k \in 1 .. M : j < k => A[j] + d[j] <= A[k]
    BY <1>1, Unrolled
  <2> QED
    BY <1>1, <1>4, <2>1
<1>6. \A k \in 1 .. N : A[k + 1] = A[k] + d[k]
  <2> SUFFICES ASSUME NEW k \in 1 .. N
               PROVE  A[k + 1] = A[k] + d[k]
    OBVIOUS
  <2>1. k + 1 \in 1 .. M /\ k + 1 # 1 /\ (k + 1) - 1 = k
    BY <1>1
  <2> HIDE DEF A, d, M
  <2> QED
    BY <1>5, <2>1
<1> QED
  BY <1>5, <1>6

\* The byte at an entry's address is the entry; past the last one there is
\* none.
LEMMA Reads ==
  ASSUME NEW c \in Channels, NEW N, N = Len(Entries[c])
  PROVE  /\ \A k \in 1 .. N : ReadA(c, AddrOf(c)[k]) = Entries[c][k]
         /\ N > 0 => ReadA(c, AddrOf(c)[N] + Bytes(c)[N]) = 0
         /\ N = 0 => ReadA(c, 1) = 0
<1> DEFINE A == AddrOf(c)
           d == Bytes(c)
<1>1. N \in Nat /\ A \in [1 .. N -> Nat] /\ \A k \in 1 .. N : d[k] \in Nat /\ d[k] > 0
  <2>1. N \in Nat
    BY EntryBytes
  <2>2. A \in [1 .. N -> Nat]
    BY Addresses, Zenon
  <2>3. \A k \in 1 .. N : d[k] \in Nat /\ d[k] > 0
    <3> SUFFICES ASSUME NEW k \in 1 .. N
                 PROVE  d[k] \in Nat /\ d[k] > 0
      OBVIOUS
    <3> DEFINE w == Width[c] * Transfers(Entries[c][k])
    <3>1. d[k] = 1 + w /\ w \in Nat
      BY Steps, Zenon
    <3> HIDE DEF d, w
    <3> QED
      BY <3>1
  <2> QED
    BY <2>1, <2>2, <2>3
<1>2. \A j, k \in 1 .. N : j < k => A[j] + d[j] <= A[k]
  BY Addresses
<1>3. \A j, k \in 1 .. N : A[j] = A[k] => j = k
  <2> HIDE DEF A, d
  <2>1. \A j, k \in 1 .. N : j < k => A[j] # A[k]
    BY <1>1, <1>2
  <2> QED
    BY <1>1, <2>1
<1>4. ASSUME NEW k \in 1 .. N
      PROVE  ReadA(c, A[k]) = Entries[c][k]
  <2>1. (CHOOSE j \in 1 .. N : A[j] = A[k]) = k
    <3> HIDE DEF A
    <3> QED
      BY <1>3
  <2>2. \E j \in 1 .. N : A[j] = A[k]
    OBVIOUS
  <2> QED
    BY <2>1, <2>2 DEF ReadA
<1>5. ASSUME N > 0
      PROVE  ReadA(c, A[N] + d[N]) = 0
  <2>1. \A j \in 1 .. N : A[j] # A[N] + d[N]
    <3> HIDE DEF A, d
    <3>1. \A j \in 1 .. N : A[j] <= A[N]
      <4> SUFFICES ASSUME NEW j \in 1 .. N
                   PROVE  A[j] <= A[N]
        OBVIOUS
      <4>1. N \in 1 .. N
        BY <1>1, <1>5
      <4> QED
        BY <1>1, <1>2, <4>1
    <3>2. N \in 1 .. N
      BY <1>1, <1>5
    <3> QED
      BY <1>1, <3>1, <3>2
  <2> QED
    BY <2>1 DEF ReadA
<1>6. N = 0 => ReadA(c, 1) = 0
  BY DEF ReadA
<1> QED
  BY <1>4, <1>5, <1>6

\* Where an entry's lines are, and the end of the table.
LEMMA Orderly ==
  ASSUME NEW c \in Channels, NEW N, N = Len(Entries[c])
  PROVE  /\ N \in Nat
         /\ FirstOf(c) \in [1 .. N + 1 -> Nat]
         /\ \A k \in 1 .. N : FirstOf(c)[k + 1] = FirstOf(c)[k] + Lines(Entries[c][k])
         /\ \A j, k \in 1 .. N + 1 : j <= k => FirstOf(c)[j] <= FirstOf(c)[k]
<1> DEFINE F == FirstOf(c)
           d == LinesOf(c)
           M == N + 1
<1>1. N \in Nat /\ F \in [1 .. M -> Nat]
  BY EntryBytes, FirstLines
<1>2. \A k \in 1 .. N : F[k + 1] = F[k] + Lines(Entries[c][k])
  <2>1. \A k \in 1 .. N : F[k + 1] = F[k] + d[k] /\ d[k] = Lines(Entries[c][k])
    BY FirstLines, Steps, Zenon
  <2> QED
    BY <2>1
<1>3. \A j, k \in 1 .. M : j < k => F[j] + d[j] <= F[k]
  BY FirstLines
<1>4. \A j \in 1 .. M : d[j] \in Nat
  <2>1. d \in [Nat -> Nat]
    BY Steps
  <2> HIDE DEF d
  <2> QED
    BY <1>1, <2>1
<1>5. \A j, k \in 1 .. M : j <= k => F[j] <= F[k]
  <2> HIDE DEF F, d, M
  <2> SUFFICES ASSUME NEW j \in 1 .. M, NEW k \in 1 .. M, j <= k
               PROVE  F[j] <= F[k]
    OBVIOUS
  <2>1. F[j] \in Nat /\ F[k] \in Nat /\ d[j] \in Nat
    BY <1>1, <1>4
  <2>2. CASE j = k
    BY <2>1, <2>2
  <2>3. CASE j # k
    <3>1. F[j] + d[j] <= F[k]
      BY <1>1, <1>3, <2>3
    <3> QED
      BY <2>1, <3>1
  <2> QED
    BY <2>2, <2>3
<1> QED
  BY <1>1, <1>2, <1>5

LEMMA TableAt ==
  ASSUME NEW c \in Channels, NEW k \in 1 .. Len(Entries[c]),
         NEW j \in Nat, j < Lines(Entries[c][k])
  PROVE  InTable(c, FirstOf(c)[k] + j) = (j = 0 \/ Repeats(Entries[c][k]))
<1> DEFINE N == Len(Entries[c])
           F == FirstOf(c)
           L == Lines(Entries[c][k])
           l == F[k] + j
<1>1. /\ N \in Nat /\ F \in [1 .. N + 1 -> Nat]
      /\ F[k + 1] = F[k] + L
      /\ \A x, y \in 1 .. N + 1 : x <= y => F[x] <= F[y]
  BY Orderly
<1>2. k \in 1 .. N /\ k \in 1 .. N + 1 /\ k + 1 \in 1 .. N + 1 /\ L \in Nat
  BY <1>1, EntryBytes
<1>3. F[k] \in Nat /\ l \in Nat /\ F[k] <= l /\ l < F[k + 1]
  <2> HIDE DEF N, F, L
  <2>1. F[k] \in Nat
    BY <1>1, <1>2
  <2>2. j < L
    BY DEF L
  <2> QED
    BY <1>1, <1>2, <2>1, <2>2
<1>4. \A x \in 1 .. N : F[x] <= l /\ l < F[x + 1] => x = k
  <2> HIDE DEF N, F, L, l
  <2> SUFFICES ASSUME NEW x \in 1 .. N, F[x] <= l, l < F[x + 1], x # k
               PROVE  FALSE
    OBVIOUS
  <2>1. x \in 1 .. N + 1 /\ x + 1 \in 1 .. N + 1
    BY <1>1
  <2>2. F[x] \in Nat /\ F[x + 1] \in Nat /\ F[k] \in Nat /\ F[k + 1] \in Nat
    BY <1>1, <1>2, <2>1
  <2>3. CASE x < k
    <3>1. F[x + 1] <= F[k]
      BY <1>1, <1>2, <2>1, <2>3
    <3> QED
      BY <1>3, <2>2, <3>1
  <2>4. CASE k < x
    <3>1. F[k + 1] <= F[x]
      BY <1>1, <1>2, <2>1, <2>4
    <3> QED
      BY <1>3, <2>2, <3>1
  <2> QED
    BY <1>1, <1>2, <2>3, <2>4
<1>5. InTable(c, l) = \E x \in 1 .. N : F[x] <= l /\ l < F[x + 1] /\ (l = F[x] \/ Repeats(Entries[c][x]))
  BY DEF InTable
<1>6. (l = F[k]) <=> j = 0
  <2> HIDE DEF F
  <2> QED
    BY <1>3
<1> QED
  <2>1. InTable(c, l) = (l = F[k] \/ Repeats(Entries[c][k]))
    <3> HIDE DEF N, F, l
    <3> QED
      BY <1>2, <1>3, <1>4, <1>5
  <2> QED
    BY <1>6, <2>1

LEMMA TablePast ==
  ASSUME NEW c \in Channels, NEW l \in Nat, l >= FirstOf(c)[Len(Entries[c]) + 1]
  PROVE  ~InTable(c, l)
<1> DEFINE N == Len(Entries[c])
           F == FirstOf(c)
<1>1. /\ N \in Nat /\ F \in [1 .. N + 1 -> Nat]
      /\ \A x, y \in 1 .. N + 1 : x <= y => F[x] <= F[y]
  BY Orderly
<1>2. \A x \in 1 .. N : ~(l < F[x + 1])
  <2>1. l >= F[N + 1]
    OBVIOUS
  <2> HIDE DEF N, F
  <2> SUFFICES ASSUME NEW x \in 1 .. N
               PROVE  ~(l < F[x + 1])
    OBVIOUS
  <2>2. x + 1 \in 1 .. N + 1 /\ N + 1 \in 1 .. N + 1 /\ x + 1 <= N + 1
    BY <1>1
  <2>3. F[x + 1] <= F[N + 1] /\ F[x + 1] \in Nat /\ F[N + 1] \in Nat
    BY <1>1, <2>2
  <2> QED
    BY <2>1, <2>3
<1> QED
  BY <1>2 DEF InTable

----------------------------------------------------------------------------
(* HDMA: how far a channel is through its table.                           *)

\* The registers of a channel that is j lines into its table's k-th entry.
Gone(r, c, k, j) ==
  LET b == Entries[c][k]
      done == IF Repeats(b) THEN j ELSE IF j > 0 THEN 1 ELSE 0
  IN /\ r.LineCounter = b - j
     /\ r.DoTransfer = (j = 0 \/ Repeats(b))
     /\ r.TableAddr = AddrOf(c)[k] + 1 + Width[c] * done
At(c, k, j) ==
  /\ j < Lines(Entries[c][k])
  /\ Len(lines[c]) = FirstOf(c)[k] + j
  /\ Gone(DMACH[c], c, k, j)
Through(c) == Len(lines[c]) >= FirstOf(c)[Len(Entries[c]) + 1]

Following ==
  /\ steady \subseteq HDMAEnable /\ HDMAEnable \subseteq Channels
  /\ lines \in [Channels -> Seq(BOOLEAN)]
  /\ \A c \in steady :
       IF c \in HDMAEnableMask THEN \E k \in 1 .. Len(Entries[c]), j \in Nat : At(c, k, j)
       ELSE Through(c)

HdmaInv == Following /\ HdmaFollowsTable

\* The counter of an entry runs out with its lines, and has the repeat bit
\* until then.
LEMMA CountDown ==
  ASSUME NEW b \in 1 .. 2 * Top - 1, NEW j \in Nat, j < Lines(b),
         NEW n, n = ((b - j) - 1) % (2 * Top)
  PROVE  /\ n = b - (j + 1) /\ n \in Nat
         /\ n % Top = 0 <=> j + 1 = Lines(b)
         /\ j + 1 < Lines(b) => ((n >= Top) <=> Repeats(b)) /\ n # 0
<1>1. Top \in Nat /\ Top > 1 /\ 2 * Top \in Nat \ {0}
  BY BoundsAssumption
<1>2. \A a \in Nat, m \in Nat \ {0} : a < m => a % m = a
  OBVIOUS
<1>3. \A a \in Nat, m \in Nat \ {0} : m <= a /\ a < 2 * m => a % m = a - m
  <2> SUFFICES ASSUME NEW a \in Nat, NEW m \in Nat \ {0}, m <= a, a < 2 * m
               PROVE  a % m = a - m
    OBVIOUS
  <2>1. a = m * 1 + (a - m) /\ a - m \in 0 .. m - 1
    OBVIOUS
  <2>2. \A q \in Int, r \in 0 .. m - 1 : a = m * q + r => a % m = r
    OBVIOUS
  <2>3. a = m * 1 + (a - m) => a % m = a - m
    BY <2>1, <2>2
  <2> QED
    BY <2>1, <2>3
<1>4. Lines(b) = IF b < Top THEN b ELSE IF b = Top THEN Top ELSE b - Top
  <2>1. CASE b < Top
    <3>1. b % Top = b
      BY <1>1, <1>2, <2>1
    <3> QED
      BY <2>1, <3>1 DEF Lines
  <2>2. CASE b >= Top
    <3>0. b \in Nat /\ Top \in Nat \ {0} /\ Top <= b /\ b < 2 * Top
      BY <1>1, <2>2
    <3>1. b % Top = b - Top
      BY <1>3, <3>0
    <3> QED
      BY <1>1, <2>2, <3>1 DEF Lines
  <2> QED
    BY <1>1, <2>1, <2>2
<1>5. (b - j) - 1 \in Nat /\ (b - j) - 1 < 2 * Top
  BY <1>1, <1>4
<1>6. n = (b - j) - 1
  BY <1>1, <1>2, <1>5
<1>7. CASE b <= Top
  <2>1. n < Top /\ n \in Nat
    BY <1>1, <1>6, <1>5, <1>7
  <2>2. n % Top = n
    BY <1>1, <1>2, <2>1
  <2> QED
    BY <1>1, <1>4, <1>6, <1>7, <2>1, <2>2 DEF Repeats
<1>8. CASE b > Top
  <2>1. n >= Top /\ n < 2 * Top /\ n \in Nat
    BY <1>1, <1>4, <1>6, <1>5, <1>8
  <2>2. n % Top = n - Top
    BY <1>1, <1>3, <2>1
  <2> QED
    BY <1>1, <1>4, <1>6, <1>8, <2>1, <2>2 DEF Repeats
<1> QED
  BY <1>1, <1>7, <1>8

\* What has been read of an entry after one line more.
LEMMA Fetched ==
  ASSUME NEW c \in Channels, NEW r \in Regs, NEW k \in 1 .. Len(Entries[c]),
         NEW j \in Nat, j < Lines(Entries[c][k]), Gone(r, c, k, j)
  PROVE  LET b == Entries[c][k] IN
         /\ Transferred(r, c).TableAddr =
              AddrOf(c)[k] + 1 + Width[c] * (IF Repeats(b) THEN j + 1 ELSE 1)
         /\ Transferred(r, c).LineCounter = b - j
<1> DEFINE b == Entries[c][k]
           A == AddrOf(c)[k]
           W == Width[c]
<1>1. W \in {1, 2, 4} /\ A \in Nat
  BY TablesAssumption, Addresses
<1>2. Transferred(r, c).TableAddr = IF r.DoTransfer THEN r.TableAddr + W ELSE r.TableAddr
  BY DEF Transferred, Regs
<1>3. Transferred(r, c).LineCounter = b - j
  BY DEF Transferred, Regs, Gone
<1>4. /\ r.DoTransfer = (j = 0 \/ Repeats(b))
      /\ r.TableAddr = A + 1 + W * (IF Repeats(b) THEN j ELSE IF j > 0 THEN 1 ELSE 0)
  BY DEF Gone
<1>5. Transferred(r, c).TableAddr = A + 1 + W * (IF Repeats(b) THEN j + 1 ELSE 1)
  <2> DEFINE t == Transferred(r, c).TableAddr
             p == Repeats(b)
  <2>1. p \in BOOLEAN
    BY DEF Repeats
  <2>2. t = IF r.DoTransfer THEN r.TableAddr + W ELSE r.TableAddr
    BY <1>2
  <2> HIDE DEF t, p, A, W, b
  <2>3. CASE p
    <3>1. t = A + 1 + W * j + W
      BY <1>4, <2>2, <2>3 DEF p
    <3>2. W * j + W = W * (j + 1)
      BY <1>1
    <3> QED
      BY <1>1, <2>3, <3>1, <3>2 DEF t, p
  <2>4. CASE ~p
    <3>1. W * 0 = 0 /\ W * 1 = W
      BY <1>1
    <3>2. ASSUME j = 0 PROVE t = A + 1 + W
      <4>1. r.DoTransfer
        BY <1>4, <3>2, Zenon
      <4>2. r.TableAddr = A + 1 + W * 0
        <5>1. ~Repeats(b)
          BY <2>4 DEF p
        <5>2. r.TableAddr = A + 1 + W * (IF j > 0 THEN 1 ELSE 0)
          BY <1>4, <5>1, Zenon
        <5>3. (IF j > 0 THEN 1 ELSE 0) = 0
          BY <3>2
        <5> QED
          BY <5>2, <5>3, Zenon
      <4>3. t = r.TableAddr + W
        BY <2>2, <4>1, Zenon
      <4> QED
        BY <1>1, <3>1, <4>2, <4>3
    <3>3. ASSUME j # 0 PROVE t = A + 1 + W
      <4>1. ~r.DoTransfer
        <5>1. ~Repeats(b)
          BY <2>4 DEF p
        <5> QED
          BY <1>4, <3>3, <5>1, Zenon
      <4>2. r.TableAddr = A + 1 + W * 1
        <5>1. ~Repeats(b)
          BY <2>4 DEF p
        <5>2. r.TableAddr = A + 1 + W * (IF j > 0 THEN 1 ELSE 0)
          BY <1>4, <5>1, Zenon
        <5>3. (IF j > 0 THEN 1 ELSE 0) = 1
          BY <3>3
        <5> QED
          BY <5>2, <5>3, Zenon
      <4>3. t = r.TableAddr
        BY <2>2, <4>1, Zenon
      <4> QED
        BY <1>1, <3>1, <4>2, <4>3
    <3>4. t = A + 1 + W
      BY <1>1, <3>1, <3>2, <3>3
    <3> QED
      BY <1>1, <2>4, <3>1, <3>4 DEF t, p
  <2> QED
    BY <2>3, <2>4 DEF t
<1> QED
  BY <1>3, <1>5

\* A line more within an entry.
LEMMA NextLine ==
  ASSUME NEW c \in Channels, NEW r \in Regs, NEW k \in 1 .. Len(Entries[c]),
         NEW j \in Nat, j + 1 < Lines(Entries[c][k]), Gone(r, c, k, j)
  PROVE  /\ Gone(Counted(Transferred(r, c), c), c, k, j + 1)
         /\ Counted(Transferred(r, c), c).LineCounter # 0
<1> DEFINE b == Entries[c][k]
           q == Transferred(r, c)
           n == (q.LineCounter - 1) % (2 * Top)
           a == AddrOf(c)[k] + 1 + Width[c] * (IF Repeats(b) THEN j + 1 ELSE 1)
<1>1. b \in 1 .. 2 * Top - 1 /\ Lines(b) \in 1 .. Top /\ Top \in Nat /\ j + 1 \in Nat
  BY EntryBytes
<1>2. q.TableAddr = a /\ q.LineCounter = b - j /\ q \in Regs
  <2>1. j < Lines(b)
    <3>1. j + 1 < Lines(b)
      OBVIOUS
    <3> HIDE DEF b
    <3> QED
      BY <1>1, <3>1
  <2> QED
    BY <2>1, Fetched, HdmaRegisters
<1>3. n = b - (j + 1) /\ n % Top # 0 /\ ((n >= Top) <=> Repeats(b)) /\ n # 0
  <2>1. j + 1 < Lines(b) /\ n = ((b - j) - 1) % (2 * Top) /\ j < Lines(b)
    <3>1. j + 1 < Lines(b)
      OBVIOUS
    <3> HIDE DEF b, q
    <3> QED
      BY <1>1, <1>2, <3>1
  <2> HIDE DEF b, n
  <2>2. /\ n = b - (j + 1) /\ n \in Nat
        /\ n % Top = 0 <=> j + 1 = Lines(b)
        /\ j + 1 < Lines(b) => ((n >= Top) <=> Repeats(b)) /\ n # 0
    <3>1. b \in 1 .. 2 * Top - 1 /\ j \in Nat /\ j < Lines(b)
      BY <1>1, <2>1
    <3>2. \A x : x = ((b - j) - 1) % (2 * Top) =>
            /\ x = b - (j + 1) /\ x \in Nat
            /\ x % Top = 0 <=> j + 1 = Lines(b)
            /\ j + 1 < Lines(b) => ((x >= Top) <=> Repeats(b)) /\ x # 0
      BY <3>1, CountDown
    <3> QED
      BY <2>1, <3>2
  <2>3. j + 1 # Lines(b)
    BY <1>1, <2>1
  <2> QED
    BY <2>1, <2>2, <2>3, Zenon
<1>4. Counted(q, c) = [q EXCEPT !.LineCounter = n, !.DoTransfer = n >= Top]
  <2> HIDE DEF q
  <2> QED
    BY <1>3 DEF Counted
<1>5. /\ Counted(q, c).LineCounter = n
      /\ Counted(q, c).DoTransfer = (n >= Top)
      /\ Counted(q, c).TableAddr = a
  <2> HIDE DEF q, n, a
  <2> QED
    BY <1>2, <1>4 DEF Regs
<1>6. (IF Repeats(b) THEN j + 1 ELSE 1) = IF Repeats(b) THEN j + 1 ELSE IF j + 1 > 0 THEN 1 ELSE 0
  OBVIOUS
<1>7. (n >= Top) = (j + 1 = 0 \/ Repeats(b))
  <2>1. j + 1 # 0
    OBVIOUS
  <2> HIDE DEF n, b
  <2> QED
    BY <1>3, <2>1
<1>8. a = AddrOf(c)[k] + 1 + Width[c] * (IF Repeats(b) THEN j + 1 ELSE IF j + 1 > 0 THEN 1 ELSE 0)
  <2> HIDE DEF b
  <2> QED
    BY <1>6, Zenon
<1> QED
  <2> HIDE DEF q, n, a, b
  <2>1. Counted(q, c).LineCounter = b - (j + 1) /\ Counted(q, c).LineCounter # 0
    BY <1>3, <1>5
  <2>2. Counted(q, c).DoTransfer = (j + 1 = 0 \/ Repeats(b))
    BY <1>5, <1>7, Zenon
  <2>3. Counted(q, c).TableAddr
          = AddrOf(c)[k] + 1 + Width[c] * (IF Repeats(b) THEN j + 1 ELSE IF j + 1 > 0 THEN 1 ELSE 0)
    BY <1>5, <1>8, Zenon
  <2> QED
    BY <2>1, <2>2, <2>3, Zenon DEF Gone, b, q

\* The last line of an entry: the next one begins, or the table has ended.
LEMMA NextEntry ==
  ASSUME NEW c \in Channels, NEW N, N = Len(Entries[c]), NEW r \in Regs, NEW k \in 1 .. N,
         NEW j \in Nat, j + 1 = Lines(Entries[c][k]), Gone(r, c, k, j)
  PROVE  LET q == Counted(Transferred(r, c), c) IN
         /\ q.DoTransfer
         /\ k # N => k + 1 \in 1 .. N /\ Gone(q, c, k + 1, 0) /\ q.LineCounter # 0
         /\ k = N => q.LineCounter = 0
<1> DEFINE b == Entries[c][k]
           q == Transferred(r, c)
           n == (q.LineCounter - 1) % (2 * Top)
           a == AddrOf(c)[k] + Bytes(c)[k]
<1>1. b \in 1 .. 2 * Top - 1 /\ Lines(b) \in 1 .. Top /\ Top \in Nat /\ N \in Nat
  BY EntryBytes
<1>2. q.TableAddr = a /\ q.LineCounter = b - j /\ q \in Regs
  <2>1. j < Lines(b)
    <3>1. j + 1 = Lines(b)
      OBVIOUS
    <3> HIDE DEF b
    <3> QED
      BY <1>1, <3>1
  <2>2. /\ q.TableAddr = AddrOf(c)[k] + 1 + Width[c] * (IF Repeats(b) THEN j + 1 ELSE 1)
        /\ q.LineCounter = b - j /\ q \in Regs
    BY <2>1, Fetched, HdmaRegisters
  <2>3. Transfers(b) = IF Repeats(b) THEN j + 1 ELSE 1
    BY DEF Transfers
  <2>4. Bytes(c)[k] = 1 + Width[c] * Transfers(b) /\ Width[c] * Transfers(b) \in Nat
    BY Steps
  <2>5. AddrOf(c)[k] \in Nat
    BY Addresses
  <2> DEFINE w == Width[c] * Transfers(b)
             x == AddrOf(c)[k]
  <2>6. q.TableAddr = x + 1 + w
    <3> HIDE DEF q, b
    <3> QED
      BY <2>2, <2>3, Zenon
  <2>7. a = x + (1 + w)
    BY <2>4
  <2>8. w \in Nat /\ x \in Nat
    BY <2>4, <2>5
  <2>9. q.TableAddr = a
    <3> HIDE DEF q, a, x, w
    <3> QED
      BY <2>6, <2>7, <2>8
  <2> QED
    BY <2>2, <2>9
<1>3. n % Top = 0
  <2>1. j + 1 = Lines(b) /\ n = ((b - j) - 1) % (2 * Top) /\ j < Lines(b)
    <3>1. j + 1 = Lines(b)
      OBVIOUS
    <3> HIDE DEF b, q
    <3> QED
      BY <1>1, <1>2, <3>1
  <2> HIDE DEF b, n
  <2> QED
    BY <1>1, <2>1, CountDown
<1>4. /\ Counted(q, c).LineCounter = ReadA(c, a)
      /\ Counted(q, c).DoTransfer = TRUE
      /\ Counted(q, c).TableAddr = a + 1
  <2>1. Counted(q, c) = [q EXCEPT !.LineCounter = ReadA(c, q.TableAddr), !.TableAddr = q.TableAddr + 1,
                                  !.DoTransfer = TRUE]
    <3> HIDE DEF q
    <3> QED
      BY <1>3 DEF Counted
  <2> HIDE DEF q, n, a
  <2> QED
    BY <1>2, <2>1 DEF Regs
<1>5. ASSUME k # N
      PROVE  k + 1 \in 1 .. N /\ Gone(Counted(q, c), c, k + 1, 0) /\ Counted(q, c).LineCounter # 0
  <2>1. k + 1 \in 1 .. N /\ k + 1 # 1 /\ (k + 1) - 1 = k
    BY <1>1, <1>5
  <2>2. AddrOf(c)[k + 1] = AddrOf(c)[(k + 1) - 1] + Bytes(c)[(k + 1) - 1]
    BY <2>1, Addresses, Zenon
  <2>3. a = AddrOf(c)[k + 1]
    BY <2>1, <2>2
  <2>4. ReadA(c, a) = Entries[c][k + 1]
    BY <2>1, <2>3, Reads
  <2>5. Entries[c][k + 1] \in 1 .. 2 * Top - 1
    BY <2>1, EntryBytes
  <2>6. AddrOf(c)[k + 1] \in Nat /\ Width[c] \in Nat
    BY <2>1, Addresses, EntryBytes
  <2> DEFINE e == Entries[c][k + 1]
             x == AddrOf(c)[k + 1]
             w == Width[c]
             s == Counted(q, c)
  <2>7. s.LineCounter = e - 0 /\ s.LineCounter # 0 /\ s.DoTransfer = TRUE
    <3>1. s.LineCounter = e /\ s.DoTransfer = TRUE /\ e \in 1 .. 2 * Top - 1
      BY <1>4, <2>4, <2>5
    <3> HIDE DEF s, e
    <3> QED
      BY <1>1, <3>1
  <2>8. s.TableAddr = x + 1 + w * (IF Repeats(e) THEN 0 ELSE IF 0 > 0 THEN 1 ELSE 0)
    <3>1. s.TableAddr = x + 1 /\ x \in Nat /\ w \in Nat
      BY <1>4, <2>3, <2>6
    <3>2. (IF Repeats(e) THEN 0 ELSE IF 0 > 0 THEN 1 ELSE 0) = 0
      OBVIOUS
    <3> HIDE DEF s, x, w, e
    <3> QED
      BY <3>1, <3>2
  <2>9. s.DoTransfer = (0 = 0 \/ Repeats(e))
    <3> HIDE DEF s
    <3> QED
      BY <2>7
  <2>10. Gone(s, c, k + 1, 0)
    <3> HIDE DEF s
    <3> QED
      BY <2>7, <2>8, <2>9, Zenon DEF Gone, e, x, w
  <2> QED
    BY <2>1, <2>7, <2>10
<1>6. ASSUME k = N
      PROVE  Counted(q, c).LineCounter = 0
  <2>1. N > 0
    BY <1>1
  <2>2. ReadA(c, AddrOf(c)[N] + Bytes(c)[N]) = 0
    BY <2>1, Reads
  <2> QED
    BY <1>4, <1>6, <2>2
<1> QED
  BY <1>4, <1>5, <1>6

\* InitHDMA: the first entry.
LEMMA FirstEntry ==
  ASSUME NEW c \in Channels, NEW N, N = Len(Entries[c]), DMACH[c] \in Regs
  PROVE  /\ ReadA(c, 1) # 0 => N > 0 /\ Gone(Started(c), c, 1, 0)
         /\ ReadA(c, 1) = 0 => N = 0
<1> DEFINE r == DMACH[c]
           e == Entries[c][1]
           s == Started(c)
<1>1. N \in Nat /\ Top \in Nat /\ Width[c] \in Nat
  BY EntryBytes
<1>2. N = 0 => ReadA(c, 1) = 0
  BY Reads
<1>3. ASSUME N > 0
      PROVE  ReadA(c, 1) = e /\ e \in 1 .. 2 * Top - 1 /\ AddrOf(c)[1] = 1
  <2>1. 1 \in 1 .. N
    BY <1>1, <1>3
  <2>2. AddrOf(c)[1] = 1
    BY <1>3, Addresses
  <2>3. ReadA(c, AddrOf(c)[1]) = e
    BY <2>1, Reads
  <2> QED
    BY <2>1, <2>2, <2>3, EntryBytes
<1>4. s.TableAddr = 2 /\ s.LineCounter = ReadA(c, 1) /\ s.DoTransfer = (ReadA(c, 1) # 0)
  BY DEF Started, Regs
<1>5. ASSUME N > 0
      PROVE  Gone(s, c, 1, 0) /\ ReadA(c, 1) # 0
  <2>1. s.LineCounter = e - 0 /\ e # 0
    <3> HIDE DEF s, e
    <3> QED
      BY <1>1, <1>3, <1>4, <1>5
  <2>2. s.DoTransfer = (0 = 0 \/ Repeats(e))
    <3> HIDE DEF s, e
    <3> QED
      BY <1>3, <1>4, <1>5, <2>1
  <2>3. s.TableAddr = AddrOf(c)[1] + 1 + Width[c] * (IF Repeats(e) THEN 0 ELSE IF 0 > 0 THEN 1 ELSE 0)
    <3>1. (IF Repeats(e) THEN 0 ELSE IF 0 > 0 THEN 1 ELSE 0) = 0
      OBVIOUS
    <3> HIDE DEF s, e
    <3> QED
      BY <1>1, <1>3, <1>4, <1>5, <3>1
  <2>4. ReadA(c, 1) # 0
    BY <1>3, <1>5, <2>1
  <2> HIDE DEF s
  <2> QED
    BY <2>1, <2>2, <2>3, <2>4, Zenon DEF Gone, e
<1> QED
  BY <1>1, <1>2, <1>5

\* A step that leaves the lines and the tables' registers alone.
LEMMA HdmaKept ==
  ASSUME HdmaInv, steady' \subseteq steady, steady' \subseteq HDMAEnable', HDMAEnable' \subseteq Channels,
         UNCHANGED <<HDMAEnableMask, lines>>,
         \A c \in steady' : /\ DMACH'[c].LineCounter = DMACH[c].LineCounter
                            /\ DMACH'[c].DoTransfer = DMACH[c].DoTransfer
                            /\ DMACH'[c].TableAddr = DMACH[c].TableAddr
  PROVE  HdmaInv'
<1>1. HdmaFollowsTable'
  BY DEF HdmaInv, HdmaFollowsTable, InTable, FirstOf, Lines, Repeats
<1>2. \A c \in steady' : IF c \in HDMAEnableMask'
                         THEN \E k \in 1 .. Len(Entries[c]), j \in Nat : At(c, k, j)'
                         ELSE Through(c)'
  <2> SUFFICES ASSUME NEW c \in steady'
               PROVE  IF c \in HDMAEnableMask'
                      THEN \E k \in 1 .. Len(Entries[c]), j \in Nat : At(c, k, j)'
                      ELSE Through(c)'
    OBVIOUS
  <2>1. IF c \in HDMAEnableMask THEN \E k \in 1 .. Len(Entries[c]), j \in Nat : At(c, k, j)
        ELSE Through(c)
    BY DEF HdmaInv, Following
  <2>2. CASE c \in HDMAEnableMask
    <3>1. PICK k \in 1 .. Len(Entries[c]), j \in Nat : At(c, k, j)
      BY <2>1, <2>2
    <3>2. At(c, k, j)'
      BY <3>1 DEF At, Gone, FirstOf, AddrOf, Lines, Repeats, Transfers
    <3> QED
      BY <2>2, <3>2
  <2>3. CASE c \notin HDMAEnableMask
    <3>1. Through(c)
      BY <2>1, <2>3
    <3> QED
      BY <2>3, <3>1 DEF Through, FirstOf, Lines
  <2> QED
    BY <2>2, <2>3
<1> QED
  BY <1>1, <1>2 DEF HdmaInv, Following

\* InitHDMA: no lines yet.
LEMMA InitHdmaFollows ==
  ASSUME IInv, HdmaInv, InitHDMA
  PROVE  HdmaInv'
<1>1. lines' = [c \in Channels |-> <<>>] /\ steady' = HDMAEnable /\ HDMAEnable' = HDMAEnable
  BY DEF InitHDMA
<1>2. DMACH \in [Channels -> Regs]
  BY DEF IInv, Basic, Regs
<1>3. HdmaFollowsTable'
  <2>1. \A c \in steady' : Len(lines'[c]) = 0
    BY <1>1 DEF HdmaInv, Following
  <2>2. \A i \in 1 .. 0 : FALSE
    OBVIOUS
  <2> QED
    BY <2>1, <2>2 DEF HdmaFollowsTable
<1>4. \A c \in steady' \cap Channels :
        IF c \in HDMAEnableMask'
        THEN \E k \in 1 .. Len(Entries[c]), j \in Nat : At(c, k, j)'
        ELSE Through(c)'
  <2> SUFFICES ASSUME NEW c \in HDMAEnable \cap Channels
               PROVE  IF c \in HDMAEnableMask'
                      THEN \E k \in 1 .. Len(Entries[c]), j \in Nat : At(c, k, j)'
                      ELSE Through(c)'
    BY <1>1
  <2> DEFINE N == Len(Entries[c])
  <2>1. DMACH'[c] = Started(c) /\ (c \in HDMAEnableMask' <=> ReadA(c, 1) # 0)
    BY DEF InitHDMA
  <2>2. Len(lines'[c]) = 0
    BY <1>1
  <2>3. N \in Nat /\ FirstOf(c)[1] = 0
    BY EntryBytes, FirstLines
  <2>4. CASE ReadA(c, 1) # 0
    <3>1. N > 0 /\ Gone(Started(c), c, 1, 0)
      BY <1>2, <2>4, FirstEntry
    <3>2. 1 \in 1 .. N /\ 0 < Lines(Entries[c][1])
      <4>1. 1 \in 1 .. N
        BY <2>3, <3>1
      <4> QED
        BY <4>1, EntryBytes
    <3>3. Len(lines'[c]) = FirstOf(c)[1] + 0
      BY <2>2, <2>3
    <3>4. Gone(DMACH'[c], c, 1, 0)
      BY <2>1, <3>1
    <3>5. At(c, 1, 0)'
      BY <3>2, <3>3, <3>4 DEF At, Gone, FirstOf, AddrOf, Lines, Repeats, Transfers
    <3> QED
      BY <2>1, <2>4, <3>2, <3>5
  <2>5. CASE ReadA(c, 1) = 0
    <3>1. N = 0
      BY <1>2, <2>5, FirstEntry
    <3>2. FirstOf(c)[N + 1] = 0
      BY <2>3, <3>1
    <3>3. Len(lines'[c]) >= FirstOf(c)[Len(Entries[c]) + 1]
      BY <2>2, <3>2
    <3>4. Through(c)'
      BY <3>3 DEF Through, FirstOf, Lines
    <3> QED
      BY <2>1, <2>5, <3>4
  <2> QED
    BY <2>4, <2>5
<1>5. steady' \subseteq HDMAEnable' /\ HDMAEnable' \subseteq Channels
  BY <1>1 DEF HdmaInv, Following
<1>6. lines' \in [Channels -> Seq(BOOLEAN)]
  BY <1>1
<1> QED
  BY <1>3, <1>4, <1>5, <1>6 DEF HdmaInv, Following

\* RunHDMA: each channel's line is the table's, and it is a line further.
LEMMA RunHdmaFollows ==
  ASSUME IInv, HdmaInv, RunHDMA
  PROVE  HdmaInv'
<1> DEFINE on == HDMAEnable \cap HDMAEnableMask
           q(c) == Counted(Transferred(DMACH[c], c), c)
<1>1. DMACH \in [Channels -> Regs]
  BY DEF IInv, Basic, Regs
<1>2. steady' = steady /\ HDMAEnable' = HDMAEnable
  BY DEF RunHDMA
<1>3. steady \subseteq HDMAEnable /\ HDMAEnable \subseteq Channels /\ lines \in [Channels -> Seq(BOOLEAN)]
  BY DEF HdmaInv, Following
<1>4. \A c \in steady : lines'[c] = Append(lines[c], c \in on /\ DMACH[c].DoTransfer)
  BY <1>3 DEF RunHDMA
<1>5. ASSUME NEW c \in steady
      PROVE  /\ (c \in on /\ DMACH[c].DoTransfer) = InTable(c, Len(lines[c]))
             /\ IF c \in HDMAEnableMask'
                THEN \E k \in 1 .. Len(Entries[c]), j \in Nat : At(c, k, j)'
                ELSE Through(c)'
  <2> DEFINE N == Len(Entries[c])
             m == Len(lines[c])
  <2>1. c \in Channels /\ c \in HDMAEnable /\ N \in Nat
    BY <1>3, EntryBytes
  <2>2. m \in Nat /\ Len(lines'[c]) = m + 1
    BY <1>3, <1>4, <2>1
  <2>3. CASE c \in HDMAEnableMask
    <3>1. c \in on
      BY <2>1, <2>3
    <3>2. DMACH'[c] = q(c)
      BY <2>1, <2>3 DEF RunHDMA
    <3>3. c \in HDMAEnableMask' <=> ~(q(c).DoTransfer /\ q(c).LineCounter = 0)
      BY <2>1, <2>3 DEF RunHDMA
    <3>4. PICK k \in 1 .. N, j \in Nat : At(c, k, j)
      BY <2>3 DEF HdmaInv, Following
    <3> DEFINE b == Entries[c][k]
    <3>5. j < Lines(b) /\ m = FirstOf(c)[k] + j /\ Gone(DMACH[c], c, k, j)
      BY <3>4 DEF At
    <3>6. DMACH[c].DoTransfer = (j = 0 \/ Repeats(b))
      BY <3>5 DEF Gone
    <3>7. InTable(c, m) = (j = 0 \/ Repeats(b))
      BY <2>1, <3>5, TableAt
    <3>8. (c \in on /\ DMACH[c].DoTransfer) = InTable(c, m)
      BY <3>1, <3>6, <3>7, Zenon
    <3>9. Lines(b) \in Nat /\ FirstOf(c)[k] \in Nat /\ FirstOf(c)[k + 1] = FirstOf(c)[k] + Lines(b)
      <4>1. k \in 1 .. N + 1 /\ FirstOf(c) \in [1 .. N + 1 -> Nat]
        BY <2>1, Orderly
      <4>2. Lines(b) \in Nat
        BY <2>1, EntryBytes
      <4>3. FirstOf(c)[k + 1] = FirstOf(c)[k] + Lines(b)
        BY <2>1, Orderly, Zenon
      <4> QED
        BY <4>1, <4>2, <4>3
    <3>10. CASE j + 1 < Lines(b)
      <4>1. Gone(q(c), c, k, j + 1) /\ q(c).LineCounter # 0
        BY <1>1, <2>1, <3>5, <3>10, NextLine
      <4>2. Len(lines'[c]) = FirstOf(c)[k] + (j + 1) /\ j + 1 \in Nat
        <5>1. m \in Nat /\ m = FirstOf(c)[k] + j /\ FirstOf(c)[k] \in Nat
          BY <2>2, <3>5, <3>9, Zenon
        <5>2. Len(lines'[c]) = m + 1
          BY <2>2, Zenon
        <5> HIDE DEF m, b
        <5> QED
          BY <5>1, <5>2
      <4>3. Gone(DMACH'[c], c, k, j + 1)
        BY <3>2, <4>1
      <4>4. At(c, k, j + 1)'
        BY <3>10, <4>2, <4>3 DEF At, Gone, FirstOf, AddrOf, Lines, Repeats, Transfers
      <4>5. c \in HDMAEnableMask'
        BY <3>3, <4>1
      <4> QED
        BY <3>8, <4>2, <4>4, <4>5
    <3>11. CASE ~(j + 1 < Lines(b))
      <4>1. j + 1 = Lines(b)
        BY <3>5, <3>9, <3>11
      <4>2. /\ q(c).DoTransfer
            /\ k # N => k + 1 \in 1 .. N /\ Gone(q(c), c, k + 1, 0) /\ q(c).LineCounter # 0
            /\ k = N => q(c).LineCounter = 0
        BY <1>1, <2>1, <3>5, <4>1, NextEntry
      <4>3. Len(lines'[c]) = FirstOf(c)[k + 1]
        <5> HIDE DEF m, b
        <5> QED
          BY <2>2, <3>5, <3>9, <4>1
      <4>4. CASE k # N
        <5>1. Gone(DMACH'[c], c, k + 1, 0) /\ k + 1 \in 1 .. N
          BY <3>2, <4>2, <4>4
        <5>2. 0 < Lines(Entries[c][k + 1])
          BY <2>1, <5>1, EntryBytes
        <5>3. Len(lines'[c]) = FirstOf(c)[k + 1] + 0
          BY <2>2, <4>3
        <5>4. At(c, k + 1, 0)'
          BY <5>1, <5>2, <5>3 DEF At, Gone, FirstOf, AddrOf, Lines, Repeats, Transfers
        <5>5. c \in HDMAEnableMask'
          BY <3>3, <4>2, <4>4
        <5> QED
          BY <3>8, <5>1, <5>4, <5>5
      <4>5. CASE k = N
        <5>1. c \notin HDMAEnableMask'
          BY <3>3, <4>2, <4>5
        <5>2. Len(lines'[c]) >= FirstOf(c)[N + 1]
          BY <2>2, <4>3, <4>5
        <5>3. Through(c)'
          BY <5>2 DEF Through, FirstOf, Lines
        <5> QED
          BY <3>8, <5>1, <5>3
      <4> QED
        BY <4>4, <4>5
    <3> QED
      BY <3>10, <3>11
  <2>4. CASE c \notin HDMAEnableMask
    <3>1. m >= FirstOf(c)[N + 1]
      BY <2>4 DEF HdmaInv, Following, Through
    <3>2. ~InTable(c, m)
      BY <2>1, <2>2, <3>1, TablePast
    <3>3. c \notin HDMAEnableMask'
      BY <2>4 DEF RunHDMA
    <3>4. FirstOf(c)[N + 1] \in Nat
      <4>1. N + 1 \in 1 .. N + 1
        BY <2>1
      <4> QED
        BY <2>1, <4>1, Orderly
    <3>5. Len(lines'[c]) >= FirstOf(c)[N + 1]
      <4> HIDE DEF m, N
      <4> QED
        BY <2>2, <3>1, <3>4
    <3>6. Through(c)'
      BY <3>5 DEF Through, FirstOf, Lines
    <3>7. (c \in on /\ DMACH[c].DoTransfer) = InTable(c, m)
      <4>1. ~(c \in on /\ DMACH[c].DoTransfer)
        BY <2>4
      <4>2. InTable(c, m) \in BOOLEAN
        BY DEF InTable
      <4> QED
        BY <3>2, <4>1, <4>2, Zenon
    <3> QED
      BY <3>3, <3>6, <3>7, Zenon
  <2> QED
    BY <2>3, <2>4
<1>6. HdmaFollowsTable'
  <2>1. \A c \in steady : \A i \in 1 .. Len(lines'[c]) : lines'[c][i] = InTable(c, i - 1)
    <3> SUFFICES ASSUME NEW c \in steady, NEW i \in 1 .. Len(lines'[c])
                 PROVE  lines'[c][i] = InTable(c, i - 1)
      OBVIOUS
    <3> DEFINE m == Len(lines[c])
               v == c \in on /\ DMACH[c].DoTransfer
    <3>1. lines[c] \in Seq(BOOLEAN) /\ m \in Nat /\ lines'[c] = Append(lines[c], v)
      BY <1>3, <1>4
    <3>2. v = InTable(c, m)
      BY <1>5
    <3>3. CASE i = m + 1
      <4>1. lines'[c][m + 1] = v
        <5> HIDE DEF v
        <5> QED
          BY <3>1
      <4>2. i - 1 = m
        <5> HIDE DEF m
        <5> QED
          BY <3>1, <3>3
      <4> QED
        BY <3>2, <3>3, <4>1, <4>2
    <3>4. CASE i # m + 1
      <4>1. i \in 1 .. m /\ lines'[c][i] = lines[c][i]
        <5> HIDE DEF v
        <5> QED
          BY <3>1, <3>4
      <4>2. lines[c][i] = InTable(c, i - 1)
        BY <4>1 DEF HdmaInv, HdmaFollowsTable
      <4> QED
        BY <4>1, <4>2
    <3> QED
      BY <3>3, <3>4
  <2> QED
    BY <1>2, <2>1 DEF HdmaFollowsTable, InTable, FirstOf, Lines, Repeats
<1>7. lines' \in [Channels -> Seq(BOOLEAN)]
  <2>1. \A c \in Channels : lines[c] \in Seq(BOOLEAN)
    BY <1>3
  <2> DEFINE v(c) == c \in on /\ DMACH[c].DoTransfer
             a(c) == IF c \in steady THEN Append(lines[c], v(c)) ELSE lines[c]
  <2>2. \A c \in Channels : v(c) \in BOOLEAN
    OBVIOUS
  <2>3. lines' = [c \in Channels |-> a(c)]
    BY DEF RunHDMA
  <2>4. \A c \in Channels : a(c) \in Seq(BOOLEAN)
    <3> HIDE DEF v
    <3>1. \A x \in Seq(BOOLEAN), y \in BOOLEAN : Append(x, y) \in Seq(BOOLEAN)
      OBVIOUS
    <3> QED
      BY <2>1, <2>2, <3>1
  <2> HIDE DEF a
  <2> QED
    BY <2>3, <2>4
<1> QED
  BY <1>2, <1>3, <1>5, <1>6, <1>7 DEF HdmaInv, Following

LEMMA InitHdmaInv == Init => HdmaInv
<1> SUFFICES ASSUME Init
             PROVE  HdmaInv
  OBVIOUS
<1>1. steady = {} /\ HDMAEnable = {} /\ lines = [c \in Channels |-> <<>>]
  BY DEF Init
<1>2. lines \in [Channels -> Seq(BOOLEAN)]
  BY <1>1
<1> QED
  BY <1>1, <1>2 DEF HdmaInv, Following, HdmaFollowsTable

\* Every step keeps the channels in step with their tables.
LEMMA HdmaStepInv == IInv /\ HdmaInv /\ [Next]_vars => HdmaInv'
<1> SUFFICES ASSUME IInv, HdmaInv, [Next]_vars
             PROVE  HdmaInv'
  OBVIOUS
<1>0. /\ DMACH \in [Channels -> Regs] /\ DMAEnable \subseteq Channels
      /\ steady \subseteq HDMAEnable /\ HDMAEnable \subseteq Channels
  BY DEF IInv, Basic, Regs, HdmaInv, Following
<1>1. ASSUME NEW V \in SUBSET Channels, Write_420B(V)
      PROVE  HdmaInv'
  BY <1>0, <1>1, HdmaKept DEF Write_420B
<1>2. ASSUME NEW V \in SUBSET Channels, Write_420C(V)
      PROVE  HdmaInv'
  BY <1>0, <1>2, HdmaKept DEF Write_420C
<1>3. ASSUME NEW c \in Channels, NEW n \in 0 .. CountMod - 1, WriteCount(c, n)
      PROVE  HdmaInv'
  <2>1. \A x \in Channels : /\ DMACH'[x].LineCounter = DMACH[x].LineCounter
                            /\ DMACH'[x].DoTransfer = DMACH[x].DoTransfer
                            /\ DMACH'[x].TableAddr = DMACH[x].TableAddr
    BY <1>0, <1>3 DEF WriteCount, Regs
  <2> QED
    BY <1>0, <1>3, <2>1, HdmaKept DEF WriteCount, history
<1>4. ASSUME NEW c \in Channels, NEW n \in {0, Top}, WriteLineCounter(c, n)
      PROVE  HdmaInv'
  <2>1. \A x \in Channels : x # c => DMACH'[x] = DMACH[x]
    BY <1>0, <1>4 DEF WriteLineCounter
  <2> QED
    BY <1>0, <1>4, <2>1, HdmaKept DEF WriteLineCounter
<1>5. ASSUME NEW ch \in DMAEnable, DmaByte(ch)
      PROVE  HdmaInv'
  <2>1. \A x \in Channels : /\ DMACH'[x].LineCounter = DMACH[x].LineCounter
                            /\ DMACH'[x].DoTransfer = DMACH[x].DoTransfer
                            /\ DMACH'[x].TableAddr = DMACH[x].TableAddr
    BY <1>0, <1>5 DEF DmaByte, Regs
  <2> QED
    BY <1>0, <1>5, <2>1, HdmaKept DEF DmaByte
<1>6. CASE UNCHANGED <<registers, history>>
  BY <1>0, <1>6, HdmaKept DEF registers, history
<1>7. CASE LineStart
  <2>1. CASE scanline' = 0
    BY <1>7, <2>1, InitHdmaFollows DEF LineStart
  <2>2. CASE scanline' # 0
    BY <1>0, <1>7, <2>2, HdmaKept DEF LineStart, registers
  <2> QED
    BY <2>1, <2>2
<1>8. CASE HBlank
  <2>1. CASE scanline < Visible
    BY <1>8, <2>1, RunHdmaFollows DEF HBlank
  <2>2. CASE ~(scanline < Visible)
    BY <1>0, <1>8, <2>2, HdmaKept DEF HBlank, registers
  <2> QED
    BY <2>1, <2>2
<1>9. ASSUME \/ RunDMA \/ DmaYield \/ DmaDone \/ EventsDone \/ DMA_Update \/ CallEventHandler
             \/ UNCHANGED vars
      PROVE  UNCHANGED <<registers, history>>
  BY <1>9 DEF RunDMA, DmaYield, DmaDone, EventsDone, DMA_Update, CallEventHandler, vars
<1> QED
  BY <1>1, <1>2, <1>3, <1>4, <1>5, <1>6, <1>7, <1>8, <1>9
     DEF Next, CpuStep, Write, Moves

\* A channel that HDMA starts the frame with, and nobody writes to, transfers
\* in just the lines its table says, however long the table, whichever its
\* entries are, and whatever DMA does meanwhile (DMA_InitHDMA, DMA_RunHDMA).
THEOREM HdmaIsInStep == Spec => []HdmaFollowsTable
<1>1. Init => HdmaInv
  BY InitHdmaInv
<1>2. IInv /\ HdmaInv /\ [Next]_vars => HdmaInv'
  BY HdmaStepInv
<1>3. HdmaInv => HdmaFollowsTable
  BY DEF HdmaInv
<1> QED
  BY <1>1, <1>2, <1>3, Invariance, PTL DEF Spec

----------------------------------------------------------------------------
(* The types.                                                              *)

Rest ==
  /\ HDMAEnableMask \subseteq Channels
  /\ kludge \in BOOLEAN /\ InDMABusAccess \in BOOLEAN /\ hblank \in BOOLEAN
  /\ scanline \in 0 .. Visible /\ writes \in 0 .. MaxWrites
  /\ moved \in [Channels -> 0 .. CountMod]

LEMMA RestWritten ==
  ASSUME Rest, Instruction
  PROVE  /\ kludge' \in BOOLEAN /\ InDMABusAccess' \in BOOLEAN /\ hblank' \in BOOLEAN
         /\ scanline' \in 0 .. Visible /\ writes' \in 0 .. MaxWrites
<1>1. writes' \in 0 .. MaxWrites
  BY BoundsAssumption DEF Rest, Instruction
<1> QED
  BY <1>1 DEF Rest, Instruction, ppu

LEMMA RestStep == IInv /\ Rest /\ [Next]_vars => Rest'
<1> SUFFICES ASSUME IInv, Rest, [Next]_vars
             PROVE  Rest'
  OBVIOUS
<1>0. Visible \in Nat /\ MaxWrites \in Nat /\ CountMod \in Nat /\ CountMod > 1
  BY BoundsAssumption
<1>1. ASSUME NEW V \in SUBSET Channels, Write_420B(V)
      PROVE  Rest'
  <2>1. moved' \in [Channels -> 0 .. CountMod] /\ HDMAEnableMask' \subseteq Channels
    BY <1>0, <1>1 DEF Rest, Write_420B
  <2> QED
    BY <1>1, <2>1, RestWritten DEF Rest, Write_420B
<1>2. ASSUME NEW V \in SUBSET Channels, Write_420C(V)
      PROVE  Rest'
  <2>1. moved' \in [Channels -> 0 .. CountMod] /\ HDMAEnableMask' \subseteq Channels
    BY <1>0, <1>2 DEF Rest, Write_420C
  <2> QED
    BY <1>2, <2>1, RestWritten DEF Rest, Write_420C
<1>3. ASSUME NEW c \in Channels, NEW n, WriteCount(c, n)
      PROVE  Rest'
  <2>1. moved' \in [Channels -> 0 .. CountMod] /\ HDMAEnableMask' \subseteq Channels
    BY <1>0, <1>3 DEF Rest, WriteCount, history
  <2> QED
    BY <1>3, <2>1, RestWritten DEF Rest, WriteCount
<1>4. ASSUME NEW c \in Channels, NEW n, WriteLineCounter(c, n)
      PROVE  Rest'
  <2>1. moved' \in [Channels -> 0 .. CountMod] /\ HDMAEnableMask' \subseteq Channels
    BY <1>0, <1>4 DEF Rest, WriteLineCounter
  <2> QED
    BY <1>4, <2>1, RestWritten DEF Rest, WriteLineCounter
<1>5. ASSUME NEW ch \in DMAEnable, DmaByte(ch)
      PROVE  Rest'
  <2>1. ch \in Channels
    BY DEF IInv, Basic
  <2>2. moved[ch] + Left(DMACH[ch].Count) = programmed[ch] /\ programmed[ch] \in 0 .. CountMod
    BY <2>1 DEF IInv, Accounted, Basic
  <2>3. Left(DMACH[ch].Count) \in Nat /\ Left(DMACH[ch].Count) >= 1
    <3>1. DMACH[ch].Count \in 0 .. CountMod - 1
      BY <2>1 DEF IInv, Basic
    <3> QED
      BY <1>0, <3>1 DEF Left
  <2>4. moved[ch] \in 0 .. CountMod
    BY <2>1 DEF Rest
  <2>5. moved[ch] + 1 \in 0 .. CountMod
    BY <1>0, <2>2, <2>3, <2>4
  <2>6. moved' = [moved EXCEPT ![ch] = moved[ch] + 1]
    BY <1>5 DEF DmaByte
  <2>7. moved' \in [Channels -> 0 .. CountMod]
    BY <2>1, <2>5, <2>6 DEF Rest
  <2> QED
    BY <1>5, <2>7 DEF Rest, DmaByte, cpu, ppu
<1>6. CASE LineStart
  <2>1. scanline' \in 0 .. Visible /\ hblank' \in BOOLEAN /\ UNCHANGED <<moved, writes>>
    <3>1. scanline' = (scanline + 1) % (Visible + 1) /\ scanline \in 0 .. Visible
      BY <1>6 DEF LineStart, Rest
    <3>2. \A x \in Nat : x % (Visible + 1) \in 0 .. Visible
      BY <1>0
    <3>3. scanline + 1 \in Nat
      BY <3>1
    <3> QED
      BY <1>6, <3>1, <3>2, <3>3 DEF LineStart
  <2>2. HDMAEnableMask' \subseteq Channels /\ kludge' \in BOOLEAN /\ InDMABusAccess' \in BOOLEAN
    <3>1. CASE scanline' = 0
      BY <1>6, <3>1 DEF LineStart, InitHDMA, Rest
    <3>2. CASE scanline' # 0
      BY <1>6, <3>2 DEF LineStart, registers, Rest
    <3> QED
      BY <3>1, <3>2
  <2> QED
    BY <2>1, <2>2 DEF Rest
<1>7. CASE HBlank
  <2>1. hblank' \in BOOLEAN /\ UNCHANGED <<scanline, moved, writes>>
    BY <1>7 DEF HBlank
  <2>2. HDMAEnableMask' \subseteq Channels /\ kludge' \in BOOLEAN /\ InDMABusAccess' \in BOOLEAN
    <3>1. CASE scanline < Visible
      BY <1>7, <3>1 DEF HBlank, RunHDMA, Rest
    <3>2. CASE ~(scanline < Visible)
      BY <1>7, <3>2 DEF HBlank, registers, Rest
    <3> QED
      BY <3>1, <3>2
  <2> QED
    BY <2>1, <2>2 DEF Rest
<1>8. CASE \/ RunDMA \/ DmaYield \/ DmaDone \/ EventsDone \/ DMA_Update \/ CallEventHandler
           \/ UNCHANGED vars
  BY <1>8 DEF RunDMA, DmaYield, DmaDone, EventsDone, DMA_Update, CallEventHandler,
              vars, registers, cpu, ppu, history, Rest
<1> QED
  BY <1>1, <1>2, <1>3, <1>4, <1>5, <1>6, <1>7, <1>8 DEF Next, CpuStep, Write, Moves

\* Counters and registers keep their widths; in particular no channel ever
\* moves more bytes than Count can stand for.
THEOREM TypeCorrect == Spec => []TypeOK
<1>1. Init => Rest
  <2>1. 0 \in 0 .. MaxWrites /\ 0 \in 0 .. CountMod /\ Visible \in 0 .. Visible
    BY BoundsAssumption
  <2> QED
    BY <2>1 DEF Init, Rest
<1>2. IInv /\ Rest /\ [Next]_vars => Rest'
  BY RestStep
<1>3. IInv /\ HdmaInv /\ Rest => TypeOK
  BY DEF IInv, Basic, HdmaInv, Following, Rest, TypeOK, Register
<1>4. Spec => []HdmaInv
  BY InitHdmaInv, HdmaStepInv, Invariance, PTL DEF Spec
<1> QED
  BY <1>1, <1>2, <1>3, <1>4, Invariance, PTL DEF Spec
============================================================================
