-------------------------------- MODULE Msu1 --------------------------------
(***************************************************************************)
(* The MSU1 chip (msu1.cpp) between the CPU, the event list, the sound     *)
(* CPU's clock (apu.cpp) and its audio stream.                             *)
(*                                                                         *)
(* The CPU runs ahead of events by up to an instruction, so the chip is    *)
(* brought up to date at two kinds of times: the CPU's own, by a register  *)
(* write, and the event's, by EventHandler at the end of the instruction.  *)
(* Each of these drives the sound CPU, whose last time is kept too.        *)
(* Positions of the audio stream count sample frames; the first Lead ones  *)
(* of a track are silence put before it.                                   *)
(***************************************************************************)
EXTENDS Integers

CONSTANTS
  Tracks,        \* the tracks there are files for
  NoTrack,       \* a track number without a file (0, after a reset, is taken to be one)
  FrameCount,    \* [Tracks -> Nat]: their sample frames
  Lead,          \* NumCoeffs / 2
  BusyTime,      \* how long a seek keeps the chip busy (400000)
  MAXTS,         \* SNES_EVENT_MAXTS
  MaxStep,       \* bound on the time of a bus access, and on the frames played by one Update
  FrameTime,     \* bound on the length of a video frame
  MaxPos,        \* bound on virtual_play_frame_pos
  MaxWrites      \* bound on register writes

VARIABLES
  timestamp, pc,      \* the CPU: between frames, in its loop, in an instruction, in EventHandler
  event,              \* MSU1's event_time
  apu_last,           \* apu_last_master_timestamp
  chip,               \* the chip's registers, deadlines and virtual_play_* position
  reader,             \* the audio stream's position
  inStep,             \* history: a track was started, and not cut in its lead-in
  saved,              \* a save state
  writes

vars == <<timestamp, pc, event, apu_last, chip, reader, inStep, saved, writes>>

Flags == {"dataBusy", "audioBusy", "repeat", "playing", "missing"}

\* What set_active_stream(w, skip, pzb) leaves, in frames; taken counts what
\* advance has consumed since.
Stream(t, skip, lead) == [track |-> t, skip |-> skip, lead |-> lead, taken |-> 0]

PowerOn == [data_busy_until |-> MAXTS, audio_busy_until |-> MAXTS, status |-> {},
            track |-> NoTrack, play_pos |-> 0, play_count |-> 0]

Init ==
  /\ timestamp = 0 /\ pc = "stopped" /\ event = MAXTS /\ apu_last = 0
  /\ chip = PowerOn /\ reader = Stream(NoTrack, 0, 0)
  /\ inStep = FALSE /\ saved = [chip |-> PowerOn, inStep |-> FALSE] /\ writes = 0

----------------------------------------------------------------------------
Later(a, b) == IF a > b THEN a ELSE b
CalcNextEventTS(c) == Later(c.audio_busy_until, c.data_busy_until)

Playing(c) == "playing" \in c.status /\ "audioBusy" \notin c.status

\* The frames Update may play; a track without repeat ends at its count.
Played(c) ==
  {n \in 0 .. MaxStep :
     n > 0 => /\ Playing(c) /\ c.play_pos + n <= MaxPos
              /\ "repeat" \in c.status \/ n = 1 \/ c.play_pos + n <= c.play_count}

\* Update at time t: n frames are played, deadlines that have come end.
Update(c, t, n) ==
  LET ended == n > 0 /\ c.play_pos + n >= c.play_count /\ "repeat" \notin c.status
      dataOver  == t >= c.data_busy_until
      audioOver == t >= c.audio_busy_until
  IN [c EXCEPT
        !.play_pos = @ + n,
        !.status = @ \ ( (IF ended THEN {"playing"} ELSE {})
                         \cup (IF dataOver THEN {"dataBusy"} ELSE {})
                         \cup (IF audioOver THEN {"audioBusy"} ELSE {}) ),
        !.data_busy_until = IF dataOver THEN MAXTS ELSE @,
        !.audio_busy_until = IF audioOver THEN MAXTS ELSE @]
Advance(n) == [reader EXCEPT !.taken = @ + n]

----------------------------------------------------------------------------
(* The CPU.                                                                *)

BusAccess == timestamp' \in timestamp + 1 .. timestamp + MaxStep /\ timestamp' <= FrameTime + MaxStep

StartFrame ==
  /\ pc = "stopped" /\ pc' = "loop"
  /\ UNCHANGED <<timestamp, event, apu_last, chip, reader, inStep, saved, writes>>

\* An instruction starts only before the next event.
Instruction ==
  /\ pc = "loop" /\ timestamp < event /\ timestamp < FrameTime
  /\ pc' = "instr" /\ BusAccess
  /\ UNCHANGED <<event, apu_last, chip, reader, inStep, saved, writes>>

\* MainCPU_APUIORead, MainCPU_APUIOWrite.
ApuPort ==
  /\ pc = "instr" /\ BusAccess
  /\ apu_last' = timestamp'
  /\ UNCHANGED <<pc, event, chip, reader, inStep, saved, writes>>

EndInstruction ==
  /\ pc = "instr" /\ pc' = "dispatch"
  /\ UNCHANGED <<timestamp, event, apu_last, chip, reader, inStep, saved, writes>>

\* A register write brings the chip up to the CPU's time first; c is what that
\* leaves.
Write(n) ==
  /\ pc = "instr" /\ writes < MaxWrites /\ writes' = writes + 1
  /\ n \in Played(chip)
  /\ BusAccess
  /\ apu_last' = timestamp'
  /\ UNCHANGED <<pc, saved>>
Current(n) == Update(chip, timestamp', n)

\* MSU1_WriteDataSeek, of the last of the four bytes.
WriteDataSeek(n) ==
  /\ Write(n)
  /\ chip' = [Current(n) EXCEPT !.status = @ \cup {"dataBusy"},
                                !.data_busy_until = timestamp' + BusyTime]
  /\ event' = CalcNextEventTS(chip')
  /\ reader' = Advance(n)
  /\ UNCHANGED inStep

\* MSU1_WriteTrack, of the second byte.
WriteTrack(n, t) ==
  /\ Write(n)
  /\ LET stopped == [Current(n) EXCEPT
           !.status = @ \ {"audioBusy", "repeat", "playing", "missing"},
           !.play_pos = 0, !.play_count = 0, !.audio_busy_until = MAXTS]
     IN IF t \in Tracks
        THEN /\ chip' = [stopped EXCEPT
                  !.status = @ \cup {"audioBusy"}, !.track = t,
                  !.play_count = FrameCount[t] + Lead,
                  !.audio_busy_until = timestamp' + BusyTime]
             /\ reader' = Stream(t, 0, Lead)
             /\ event' = CalcNextEventTS(chip')
             /\ inStep' = TRUE
        ELSE /\ chip' = [stopped EXCEPT !.status = @ \cup {"missing"}]
             /\ reader' = Advance(n)
             /\ inStep' = FALSE
             /\ UNCHANGED event

\* MSU1_WriteControl: not while the chip seeks.
WriteControl(n, flags) ==
  /\ Write(n)
  /\ chip' = IF "audioBusy" \in Current(n).status THEN Current(n)
             ELSE [Current(n) EXCEPT !.status = (@ \ {"repeat", "playing"}) \cup flags]
  /\ reader' = Advance(n)
  /\ UNCHANGED <<event, inStep>>

\* MSU1_WriteVolume.
WriteVolume(n) ==
  /\ Write(n)
  /\ chip' = Current(n) /\ reader' = Advance(n)
  /\ UNCHANGED <<event, inStep>>

\* EventHandler: the handler is given the event's time, not the CPU's.
Handle(n) ==
  /\ pc = "dispatch" /\ timestamp >= event
  /\ n \in Played(chip)
  /\ chip' = Update(chip, event, n)
  /\ reader' = Advance(n)
  /\ apu_last' = event
  /\ event' = CalcNextEventTS(chip')
  /\ UNCHANGED <<timestamp, pc, inStep, saved, writes>>
Handled ==
  /\ pc = "dispatch" /\ timestamp < event
  /\ pc' = "loop"
  /\ UNCHANGED <<timestamp, event, apu_last, chip, reader, inStep, saved, writes>>

\* Fault: "never" becomes a time.
AdjustedAlways(until) == Later(0, until - timestamp)

\* EmulateReal after CPU_Run: ForceEventUpdates, APU_EndFrame, then RebaseTS
\* with MSU1_AdjustTS.
Adjusted(until) == IF until = MAXTS THEN MAXTS ELSE Later(0, until - timestamp)
EndFrame(n) ==
  /\ pc = "loop" /\ timestamp > 0
  /\ n \in Played(chip)
  /\ LET c == Update(chip, timestamp, n)
     IN /\ chip' = [c EXCEPT !.data_busy_until = Adjusted(@), !.audio_busy_until = Adjusted(@)]
        /\ event' = CalcNextEventTS(c) - timestamp
  /\ reader' = Advance(n)
  /\ timestamp' = 0 /\ apu_last' = 0
  /\ pc' = "stopped"
  /\ UNCHANGED <<inStep, saved, writes>>

\* MSU1_StateAction between frames.
Save ==
  /\ pc = "stopped"
  /\ saved' = [chip |-> chip, inStep |-> inStep]
  /\ UNCHANGED <<timestamp, pc, event, apu_last, chip, reader, inStep, writes>>

\* ... and loading it: the stream is started again where the position says.
Load ==
  /\ pc = "stopped"
  /\ LET c == saved.chip
     IN IF c.track \notin Tracks
        THEN /\ chip' = [c EXCEPT
                  !.status = @ \ {"audioBusy", "repeat", "playing", "missing"},
                  !.audio_busy_until = MAXTS, !.track = NoTrack, !.play_count = 0, !.play_pos = 0]
             /\ UNCHANGED reader
             /\ inStep' = FALSE
        ELSE /\ chip' = c
             /\ reader' = IF c.play_pos < Lead THEN Stream(c.track, 0, c.play_pos)
                          ELSE Stream(c.track, c.play_pos - Lead, 0)
             /\ inStep' = (saved.inStep /\ c.play_pos >= Lead)
  /\ event' = CalcNextEventTS(Update(chip', 0, 0))
  /\ UNCHANGED <<timestamp, pc, apu_last, saved, writes>>

\* MSU1_Reset.
Reset ==
  /\ pc = "stopped"
  /\ chip' = PowerOn /\ event' = MAXTS
  /\ reader' = Stream(CHOOSE t \in Tracks : TRUE, 0, 0)
  /\ inStep' = FALSE
  /\ UNCHANGED <<timestamp, pc, apu_last, saved, writes>>

CpuStep ==
  \/ StartFrame \/ Instruction \/ EndInstruction \/ Handled
  \/ \E n \in Played(chip) : Handle(n) \/ EndFrame(n)

Next ==
  \/ CpuStep \/ ApuPort \/ Save \/ Load \/ Reset
  \/ \E n \in Played(chip) :
       \/ WriteDataSeek(n) \/ WriteVolume(n)
       \/ \E t \in Tracks \cup {NoTrack} : WriteTrack(n, t)
       \/ \E flags \in SUBSET {"repeat", "playing"} : WriteControl(n, flags)

Spec == Init /\ [][Next]_vars
----------------------------------------------------------------------------
TypeOK ==
  /\ timestamp \in 0 .. FrameTime + MaxStep /\ pc \in {"stopped", "loop", "instr", "dispatch"}
  /\ event \in Nat /\ apu_last \in Nat
  /\ {chip.data_busy_until, chip.audio_busy_until} \subseteq 0 .. MAXTS
  /\ chip.status \subseteq Flags /\ chip.track \in Tracks \cup {NoTrack}
  /\ {chip.play_pos, chip.play_count, reader.skip, reader.lead, reader.taken} \subseteq Nat
  /\ inStep \in BOOLEAN /\ writes \in 0 .. MaxWrites

\* A busy flag is set exactly while its deadline runs, whatever order seeks,
\* tracks, missing tracks, updates, resets and save states come in: a flag
\* without a deadline would never end.
FlagsHaveDeadlines ==
  /\ "dataBusy" \in chip.status <=> chip.data_busy_until # MAXTS
  /\ "audioBusy" \in chip.status <=> chip.audio_busy_until # MAXTS

\* Between frames no deadline has passed, although the event is the later of
\* the two: what EventHandler leaves, the end of the frame ends.
NoneOverdue ==
  pc = "stopped" =>
    chip.data_busy_until > 0 /\ chip.audio_busy_until > 0 /\ event > 0

\* The audio stream is where virtual_play_frame_pos says, also after a save
\* state was loaded past the track's lead-in: as many frames of silence to
\* come, or the same frame of the file.
StreamInStep ==
  inStep =>
    /\ reader.track = chip.track
    /\ IF chip.play_pos < Lead
       THEN reader.skip = 0 /\ reader.lead - reader.taken = Lead - chip.play_pos
       ELSE /\ reader.taken >= reader.lead
            /\ reader.skip + reader.taken - reader.lead = chip.play_pos - Lead

\* apu.cpp asserts in APU_Update that it is never given an earlier time.
ApuRunsForward ==
  [][apu_last' < apu_last => pc' = "stopped"]_vars
============================================================================
