----------------------------- MODULE Cartridge -----------------------------
(***************************************************************************)
(* What a cartridge can hold besides its ROM: one of the boards of         *)
(* cart.cpp, with the chip the header names. A chip's parts that share no  *)
(* state are kinds of their own, so that each is explored alone; kind is   *)
(* chosen once, as CART_Init does, and the other variables belong to it.   *)
(* What is not a constant here is the least in which a part's hazards occur. *)
(***************************************************************************)
EXTENDS Integers, Sequences

CONSTANTS
  GsuSize, GsuLine, GsuLines, GsuCost, GsuPeriod,     \* of the Super FX
  CxPages, CxWords, CxDepth, CxElapse,                \* of the CX4
  SaCost, SaLength, SaSlice,                          \* of the SA-1
  DspVersions, DspLens, DspLimit, DspDump,            \* of the DSPs
  MsuTracks, MsuNone, MsuFrames, MsuLead, MsuBusy,    \* of MSU1
  MsuNever, MsuStep, MsuFrameTime, MsuEnd, MsuWrites

ASSUME GsuAssumption ==
  {GsuSize, GsuLine, GsuLines} \subseteq Nat \ {0} /\ {GsuCost, GsuPeriod} \subseteq Nat
ASSUME CxAssumption ==
  CxPages \subseteq Nat /\ {CxWords, CxDepth, CxElapse} \subseteq Nat \ {0}
ASSUME SaAssumption ==
  {SaCost, SaLength, SaSlice} \subseteq Nat
ASSUME DspAssumption ==
  DspLens \subseteq Nat /\ {DspLimit, DspDump} \subseteq Nat
\* No clock reaches "never", nor does a deadline.
ASSUME MsuAssumption ==
  /\ {MsuFrames, MsuLead, MsuBusy, MsuNever, MsuStep, MsuFrameTime, MsuEnd, MsuWrites} \subseteq Nat
  /\ MsuTracks # {} /\ MsuFrameTime + MsuStep + MsuBusy < MsuNever

VARIABLES kind, s, s2, s3, s4, s5, s6, s7, s8, s9

vars == <<kind, s, s2, s3, s4, s5, s6, s7, s8, s9>>

Rest4 == <<s5, s6, s7, s8, s9>>
Rest2 == <<s3, s4, Rest4>>
Rest1 == <<s2, Rest2>>
Absent(v) == v = "absent"
Absent4 == Absent(s5) /\ Absent(s6) /\ Absent(s7) /\ Absent(s8) /\ Absent(s9)
Absent2 == Absent(s3) /\ Absent(s4) /\ Absent4
Absent1 == Absent(s2) /\ Absent2

\* A step of the part kind names.
Step(k, rest) == kind = k /\ UNCHANGED <<kind, rest>>

----------------------------------------------------------------------------
(* The boards.                                                             *)

\* A header with the right sum, of a board of some maker's; one without it has no
\* chip and none of the large maps. Code without a header, and neither.
Header(map, chip, ram, maker) ==
  [vector |-> TRUE, sizes |-> TRUE, sum |-> TRUE, plain |-> FALSE, map |-> map, board |-> maker, chip |-> chip, ram |-> ram]
Unsure(map, ram) == [Header(map, "none", ram, "usual") EXCEPT !.sum = FALSE, !.plain = TRUE]
Code == [Header("lo", "none", 0, "usual") EXCEPT !.sizes = FALSE]
Blank == [Code EXCEPT !.vector = FALSE]
Headers ==
  {Header("lo", "dsp1", 1, "usual"), Header("hi", "dsp1", 0, "usual"), Header("lo", "dsp2", 4, "usual"),
   Header("lo", "cx4", 0, "usual"), Header("unknown", "sa1", 4, "usual"), Header("exlo", "sdd1", 1, "usual"),
   Header("lo", "superfx", 0, "usual"), Header("exlo", "none", 0, "usual"), Header("exhi", "none", 1, "usual"),
   Header("lo", "none", 2, "special"), Header("lo", "none", 1, "mirror"), Unsure("lo", 0), Unsure("hi", 1)}

\* One header or two, in an image that has code, or none, at the other places.
Placements == {[i \in 0 .. 3 |-> CASE i = p -> h [] i = q /\ i # p -> g [] OTHER -> else] :
                 p \in 0 .. 3, q \in 0 .. 3, h \in Headers, g \in Headers, else \in {Code, Blank}}
                \cup [0 .. 3 -> {Code, Blank}]

Map == INSTANCE Board WITH
  board <- s, Sizes <- {1, 40, 160}, Banks <- {130}, Writes <- 1, Placements <- Placements

\* What is mapped is what the header says, and the same to every reader.
BoardIsSound == kind = "board" => Map!BoardSound

----------------------------------------------------------------------------
(* The Super FX.                                                           *)

Gsu == INSTANCE SuperFx WITH
  gsu <- s, Size <- GsuSize, Line <- GsuLine, Lines <- GsuLines,
  MaxCost <- GsuCost, Period <- GsuPeriod
GsuPlot == INSTANCE SuperFxPlot WITH
  px <- s, ram <- s2, port <- s3, seen <- s4,
  Width <- 2, Xs <- 0 .. 2, Ys <- {0}, Colors <- {0, 34},
  Screens <- {[scbr |-> 0, bpp |-> 0, high |-> 0, obj |-> FALSE],
              [scbr |-> 1, bpp |-> 1, high |-> 3, obj |-> FALSE]},
  PORs <- {[opaque |-> TRUE, dither |-> FALSE, low |-> FALSE],
           [opaque |-> FALSE, dither |-> TRUE, low |-> TRUE]}

\* The Super FX executes the code the S-CPU and its own registers ask for, its
\* prefixes reach one instruction, its interrupt has a cause and its clock owes
\* nothing.
GsuRuns == kind = "gsu" => Gsu!GsuSound

----------------------------------------------------------------------------
(* The CX4.                                                                *)

Capcom == INSTANCE Cx4 WITH 
  cx <- s, Pages <- CxPages, Words <- CxWords, Depth <- CxDepth, Elapse <- CxElapse

\* The CX4 executes the page its registers name, and stops where it ends.
Cx4Runs == kind = "cx4" => Capcom!RunsItsPage /\ Capcom!StopsAtTail

\* A locked cache page survives what the CX4 runs.
Cx4Locks == [][kind = "cx4" => Capcom!LockedStays]_vars

----------------------------------------------------------------------------
(* The SA-1.                                                               *)

Super == INSTANCE Sa1 WITH
  sa <- s, MaxCost <- SaCost, MaxLength <- SaLength, Slice <- SaSlice
Tiles == INSTANCE Sa1Tiles WITH
  cc <- s, Depths <- {1, 2}, Widths <- {0, 1}, Dests <- {0, 2040}, Points <- {<<7, 1>>}, Reads <- 40
Bits == INSTANCE Sa1Bits WITH vl <- s, Size <- 8, Starts <- {0, 6}, Codes <- 2

\* What one CPU of an SA-1 cartridge asks of the other arrives, once.
Sa1Answers == kind = "sa1" => Super!MessagesArrive

----------------------------------------------------------------------------
(* The DSPs, the S-DD1 and MSU1.                                           *)

Nec == INSTANCE Dsp WITH
  dsp <- s, host <- s2, Chips <- {"DSP1", "DSP2"},
  Versions <- DspVersions, Lens <- DspLens, Limit <- DspLimit, Dump <- DspDump
Graphics == INSTANCE Sdd1 WITH
  sdd <- s, Patterns <- {<<165, 60, 255, 0, 201>>}, Headers <- {11, 112, 173, 230},
  Setups <- {<<0, 64, 3>>, <<8, 128, 17>>}, Meg <- 64, Reads <- 17, Changes <- 3
Media == INSTANCE Msu1 WITH
  timestamp <- s, pc <- s2, event <- s3, apu_last <- s4, chip <- s5, reader <- s6,
  inStep <- s7, saved <- s8, writes <- s9,
  Tracks <- MsuTracks, NoTrack <- MsuNone, FrameCount <- [t \in MsuTracks |-> MsuFrames],
  Lead <- MsuLead, BusyTime <- MsuBusy, MAXTS <- MsuNever, MaxStep <- MsuStep,
  FrameTime <- MsuFrameTime, MaxPos <- MsuEnd, MaxWrites <- MsuWrites

\* A DSP gives the results of the command it was given, as many as it has.
DspAnswers == kind = "dsp" => Nec!DspServes

\* What is converted while it passes is what its source holds: the pixels the Super
\* FX plots into bit planes, the SA-1's tiles and bit fields, and the bytes an S-DD1
\* stream describes, for the DMA that asked.
DataConverted ==
  /\ kind = "plot" => GsuPlot!PixelsLand
  /\ kind = "tiles" => Tiles!TilesReadAsDrawn
  /\ kind = "bits" => Bits!BitsInOrder
  /\ kind = "sdd1" => Graphics!Decompressed

\* MSU1's flags, deadlines and audio stream agree.
Msu1InStep ==
  kind = "msu1" => Media!FlagsHaveDeadlines /\ Media!NoneOverdue /\ Media!StreamInStep

----------------------------------------------------------------------------
(* What the chips compute.                                                 *)

GsuAlu == INSTANCE SuperFxAlu WITH
  op <- s, W <- 8, Operands <- {0, 1, 2, 15, 16, 127, 128, 129, 254, 255}
CapcomAlu == INSTANCE Cx4Alu WITH cpu <- s, B <- 3, Values <- {0, 7, 8, 256, 511}
Tables == INSTANCE ChipMath WITH
  job <- s, W <- 8, N <- 2, Operands <- {0, 1, 2, 3, 64, 65, 127, 128, 129, 200, 254, 255},
  Lens <- {1, 2, 3}

\* Every operation gives the number it is named for, the GSU's and the CX4's with the
\* flags that say so, and leaves the other registers and flags as they were.
ChipsCompute ==
  /\ kind = "gsualu" => GsuAlu!GsuArithmetic
  /\ kind = "cx4alu" => CapcomAlu!Cx4Arithmetic
  /\ kind = "math" => Tables!ChipArithmetic

----------------------------------------------------------------------------
Init ==
  \/ kind = "board" /\ Absent1 /\ Map!Init
  \/ kind = "gsu" /\ Absent1 /\ Gsu!Init
  \/ kind = "plot" /\ Absent4 /\ GsuPlot!Init
  \/ kind = "cx4" /\ Absent1 /\ Capcom!Init
  \/ kind = "sa1" /\ Absent1 /\ Super!Init
  \/ kind = "tiles" /\ Absent1 /\ Tiles!Init
  \/ kind = "bits" /\ Absent1 /\ Bits!Init
  \/ kind = "dsp" /\ Absent2 /\ Nec!Init
  \/ kind = "sdd1" /\ Absent1 /\ Graphics!Init
  \/ kind = "msu1" /\ Media!Init
  \/ kind = "gsualu" /\ Absent1 /\ GsuAlu!Init
  \/ kind = "cx4alu" /\ Absent1 /\ CapcomAlu!Init
  \/ kind = "math" /\ Absent1 /\ Tables!Init

Next ==
  \/ Step("board", Rest1) /\ Map!Next
  \/ Step("gsu", Rest1) /\ Gsu!Next
  \/ Step("plot", Rest4) /\ GsuPlot!Next
  \/ Step("cx4", Rest1) /\ Capcom!Next
  \/ Step("sa1", Rest1) /\ Super!Next
  \/ Step("tiles", Rest1) /\ Tiles!Next
  \/ Step("bits", Rest1) /\ Bits!Next
  \/ Step("dsp", Rest2) /\ Nec!Next
  \/ Step("sdd1", Rest1) /\ Graphics!Next
  \/ Step("msu1", <<>>) /\ Media!Next
  \/ Step("gsualu", Rest1) /\ GsuAlu!Next
  \/ Step("cx4alu", Rest1) /\ CapcomAlu!Next
  \/ Step("math", Rest1) /\ Tables!Next

Spec == Init /\ [][Next]_vars
============================================================================
