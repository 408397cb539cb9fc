------------------------------ MODULE Services ------------------------------
(***************************************************************************)
(* What the emulation rests on: threads and semaphores, streams, save      *)
(* states, settings, the input ports, the bus, the renderer's copy of the  *)
(* PPU, the deinterlacer, and the calls of the front end with run-ahead    *)
(* between the two. As in Cartridge, parts that share no state are         *)
(* explored one at a time: part is chosen once and the other variables     *)
(* belong to it. What is not a constant here is the least in which a part's *)
(* hazards occur.                                                          *)
(***************************************************************************)
EXTENDS Integers, Sequences, FiniteSets

CONSTANTS
  SemWaiters, SemLone, SemPosters, SemMax, SemPosts, SemSecond,       \* of the threads
  BusA, BusB, BusAPairs, BusBPairs, BusSets, BusValues, BusRam,       \* of the bus
  BusBase, BusCalls,
  PadWidth, PadReads, PadActive, PadHot, PadPatterns, PadSaves,       \* of the ports
  PadCuts,
  RegValues, RegQueue, RegWrites,                                     \* of the PPU's copies
  ScreenTypes, ScreenRows, ScreenWidths,                              \* of the deinterlacers
  FrameInputs, FrameSizes, FrameMost,                                 \* of run-ahead
  CoreAffinities, CoreOwn, CoreTaps, CoreActive, CoreCodes, CoreGood, \* of the front end
  CoreSlots

ASSUME SemAssumption ==
  /\ IsFiniteSet(SemWaiters)
  /\ SemMax \in Nat /\ SemPosts \in Nat
  /\ SemSecond \in Nat /\ SemSecond > 0

\* A handler set has an index in 1 .. 254; 255 stands for a patch. No address is
\* given to both buses' tables, and what the B bus has is whole.
BusReads == {h[1] : h \in BusAPairs} \cup {"open"}
BusWrites == {h[2] : h \in BusAPairs} \cup {"open"}
ASSUME BusAssumption ==
  /\ BusA \subseteq Int /\ BusB \subseteq BusA
  /\ BusSets \in 0 .. 253 /\ BusValues \subseteq Nat
  /\ BusRam \in Nat \ {0} /\ BusBase \in Nat \ {0}
  /\ \A h \in BusAPairs \cup BusBPairs : h = <<h[1], h[2]>>
  /\ \A h \in BusBPairs : h[1] # "null" /\ h[2] # "null"
  /\ \A r \in BusReads, w \in BusWrites : <<r, w>> \in BusBPairs => <<r, w>> = <<"open", "open">>

ASSUME PadAssumption ==
  /\ PadWidth \in Nat /\ PadHot \subseteq PadActive
  /\ PadPatterns \subseteq [PadActive -> [1 .. PadWidth -> {0, 1}]]
  /\ PadCuts \subseteq -2 .. 24
  /\ PadSaves \subseteq
       [JoyLS : BOOLEAN, wrio : [0 .. 1 -> BOOLEAN], pls : [0 .. 1 -> BOOLEAN],
        pads : [PadActive -> [buttons : [1 .. PadWidth -> {0, 1}], latched : Seq({0, 1}), pls : BOOLEAN]]]
  /\ \A f \in PadSaves, d \in PadActive : Len(f.pads[d].latched) <= PadWidth

ASSUME RegAssumption == RegValues \subseteq Nat

\* A field has rows and a row pixels, and there is a longest field and row.
ASSUME ScreenAssumption ==
  /\ ScreenRows \subseteq Nat \ {0} /\ \E h \in ScreenRows : \A x \in ScreenRows : x <= h
  /\ ScreenWidths \subseteq Nat \ {0} /\ \E w \in ScreenWidths : \A x \in ScreenWidths : x <= w

\* No frame makes more sound than two others together.
ASSUME FrameAssumption ==
  /\ FrameSizes \subseteq Nat
  /\ \A a, b, c \in FrameSizes : a <= b + c

\* The caller's own affinity is not 0, which asks for none.
ASSUME CoreAssumption ==
  /\ CoreOwn # 0
  /\ CoreActive \in [DOMAIN CoreActive -> 0 .. 3]
  /\ CoreTaps \in Seq(DOMAIN CoreActive) /\ CoreTaps # <<>>
  /\ CoreSlots \in Nat

VARIABLES part, s, s2, s3, s4, s5, s6, s7

vars == <<part, s, s2, s3, s4, s5, s6, s7>>

Rest == <<s2, s3, s4, s5, s6, s7>>
Alone == /\ s2 = "absent" /\ s3 = "absent" /\ s4 = "absent"
         /\ s5 = "absent" /\ s6 = "absent" /\ s7 = "absent"
One(p) == part = p /\ UNCHANGED <<part, Rest>>

----------------------------------------------------------------------------
(* Threads and semaphores.                                                 *)

Sync == INSTANCE Threads WITH
  th <- s, Kinds <- {"native", "condvar", "event"}, Lone <- SemLone, Waiters <- SemWaiters,
  Posters <- SemPosters, Max <- SemMax, Posts <- SemPosts, Second <- SemSecond

\* Every post lets one wait through and nobody sleeps who could go on, whatever
\* times out; a thread is joined once, with what its function returned.
ThreadsAgree == part = "threads" => Sync!ThreadsSound

----------------------------------------------------------------------------
(* Streams, save states and settings.                                      *)

Files == INSTANCE Streams WITH
  io <- s, Contents <- {<<239, 187, 191, 65, 10>>, <<65, 13, 10>>}, Writes <- {<<10>>, <<65, 13>>},
  Buffers <- {0, 2, 4}, Counts <- {1, 4}, Room <- 3, Most <- 5

\* States of other versions: before MemSelect became part of another variable,
\* in another order with a section more, with a variable of another size, and
\* without one section or the other.
Layout == INSTANCE StateFormat WITH ss <- s, Values <- {}, Others <- {}
Snes(sizes) == Layout!Section("SNES", sizes)
OtherLayouts ==
  {[version |-> 2, sections |-> <<Snes(<<Layout!MemSelect, Layout!Var("WMAddress", 2, 2, 2)>>), Layout!PpuSection>>],
   [version |-> 3, sections |-> <<Layout!PpuSection, Layout!Section("CART", <<Layout!Var("ROM", 1, 2, 1)>>),
                                  Snes(Layout!SnesVars)>>],
   [version |-> 3, sections |-> <<Snes(<<Layout!Var("Multiplicand", 2, 2, 1), Layout!Var("Extra", 1, 3, 1)>>),
                                  Layout!PpuSection>>],
   [version |-> 3, sections |-> <<Layout!PpuSection>>],
   [version |-> 3, sections |-> <<Snes(Layout!SnesVars)>>]}
States == INSTANCE StateFormat WITH ss <- s, Values <- {1, 2, 5}, Others <- OtherLayouts

\* Two settings share a hash, as does a name that is none. A number has 5 bits.
Text(sign, hex, chars) == [sign |-> sign, hex |-> hex, chars |-> chars]
Plain(chars) == Text("", FALSE, chars)
None == Text("", FALSE, <<>>)
Setting(type, default, min, max, enum) ==
  [type |-> type, default |-> default, min |-> min, max |-> max, enum |-> enum]
Deinterlacers == <<[text |-> Plain(<<32>>), number |-> 0], [text |-> Plain(<<11>>), number |-> 1]>>
Described ==
  [deinterlacer |-> Setting("enum", Plain(<<32>>), None, None, Deinterlacers),
   clock_rate   |-> Setting("uint", Plain(<<4>>), Plain(<<4>>), Plain(<<2, 0>>), <<>>),
   slstart      |-> Setting("int", Plain(<<0>>), Plain(<<0>>), None, <<>>),
   spex         |-> Setting("bool", Plain(<<0>>), None, None, <<>>)]
Hashes == [deinterlacer |-> 7, clock_rate |-> 3, slstart |-> 7, spex |-> 9, unknown |-> 7]
Options == INSTANCE Settings WITH
  st <- s, Names <- DOMAIN Described, Hash <- Hashes, Desc <- Described, Notified <- {"deinterlacer"},
  Unknown <- "unknown", W <- 5,
  Texts <- {Plain(c) : c \in {<<32>>, <<11>>, <<36>>, <<1>>, <<1, 5>>, <<1, 6>>, <<3, 1>>, <<3, 2>>,
                             <<3, 4>>, <<4, 0>>, <<0, 0, 5>>}}
           \cup {Text("-", FALSE, <<1>>), Text("-", FALSE, <<1, 6>>), Text("-", FALSE, <<0>>),
                Text("+", TRUE, <<15>>), Text("", TRUE, <<>>), Text("", TRUE, <<2, 0>>)}

\* What was written is what is read. Whatever a stream buffers, it gives the bytes
\* at its position; a state is restored as far as it is whole and of a form that is
\* loaded, what it lacks is kept, and a full state of this version is refused as a
\* whole; a setting is found and has the last value that was accepted for it.
DataReadBack ==
  /\ part = "streams" => Files!StreamSound
  /\ part = "states" => States!StateSound
  /\ part = "settings" => Options!SettingsSound

\* state.h says of loading a state that it "throws exceptions on errors".
LoadsThrow == part = "states" => States!LoadThrows

----------------------------------------------------------------------------
(* The machine's surroundings: the bus, the ports, the renderer's copy of  *)
(* the PPU, and the deinterlacer.                                          *)

Board == INSTANCE Bus WITH
  bus <- s, A <- BusA, B <- BusB, APairs <- BusAPairs, BPairs <- BusBPairs, Sets <- BusSets,
  Values <- BusValues, RamSize <- BusRam, Base <- BusBase, Calls <- BusCalls
Pads == INSTANCE InputPorts WITH
  in <- s, Width <- PadWidth, Reads <- PadReads, Active <- PadActive, Hot <- PadHot, Patterns <- PadPatterns,
  Saves <- PadSaves, Cuts <- PadCuts
Mirror == INSTANCE PpuMirror WITH
  ppu <- s, renderer <- s2, queue <- s3, between <- s4, saved <- s5, paletteRead <- s6, writes <- s7,
  V <- RegValues, MaxQueue <- RegQueue, MaxWrites <- RegWrites
Screen == INSTANCE Deinterlacer WITH
  di <- s, Types <- ScreenTypes, Rows <- ScreenRows, Widths <- ScreenWidths

\* What the CPU asks for is what is connected. An access reaches the handler that
\* was set last, through the cheats in force; the pads are those the player holds,
\* read by hand, through a multitap or automatically.
AccessesReach ==
  /\ part = "bus" => Board!BusSound
  /\ part = "pads" => Pads!InputSound

\* The picture is of the frame. Lines are drawn from what the game had written
\* when they came up, and the two copies of the PPU agree whenever nothing is
\* under way; a picture made of two fields holds rows of this field and the one
\* before it only, each where it belongs.
PictureAgrees ==
  /\ part = "mirror" => Mirror!DrawnAsWritten /\ Mirror!Agree /\ Mirror!PalettesAgree
  /\ part = "screen" => Screen!PictureSound

----------------------------------------------------------------------------
(* The front end.                                                          *)

Ahead == INSTANCE RunAhead WITH ra <- s, Inputs <- FrameInputs, Sizes <- FrameSizes, MaxFrames <- FrameMost
Core == INSTANCE Frontend WITH
  fe <- s, Affinities <- CoreAffinities, Own <- CoreOwn, Taps <- CoreTaps, Active <- CoreActive,
  Codes <- CoreCodes, Good <- CoreGood, Slots <- CoreSlots

\* A call leaves what it is for and nothing else. Run-ahead leaves no trace in the
\* machine, and what is heard is what was emulated, once; between calls the core
\* has what the last of them asked for: pads of the ports that exist, the caller's
\* own affinity, the cheats that are on.
CallsKept ==
  /\ part = "ahead" => Ahead!Invisible
  /\ part = "core" => Core!CallsSound

----------------------------------------------------------------------------
Init ==
  \/ part = "threads" /\ Alone /\ Sync!Init
  \/ part = "streams" /\ Alone /\ Files!Init
  \/ part = "states" /\ Alone /\ States!Init
  \/ part = "settings" /\ Alone /\ Options!Init
  \/ part = "bus" /\ Alone /\ Board!Init
  \/ part = "pads" /\ Alone /\ Pads!Init
  \/ part = "mirror" /\ Mirror!Init
  \/ part = "screen" /\ Alone /\ Screen!Init
  \/ part = "ahead" /\ Alone /\ Ahead!Init
  \/ part = "core" /\ Alone /\ Core!Init

Next ==
  \/ One("threads") /\ Sync!Next
  \/ One("streams") /\ Files!Next
  \/ One("states") /\ States!Next
  \/ One("settings") /\ Options!Next
  \/ One("bus") /\ Board!Next
  \/ One("pads") /\ Pads!Next
  \/ part = "mirror" /\ Mirror!Next /\ UNCHANGED part
  \/ One("screen") /\ Screen!Next
  \/ One("ahead") /\ Ahead!Next
  \/ One("core") /\ Core!Next

Spec == Init /\ [][Next]_vars
============================================================================
