---------------------------- MODULE StreamReader ----------------------------
(***************************************************************************)
(* The read-ahead buffer of mednafen/MTStreamReader.{h,cpp}: a consumer    *)
(* (the MSU1 emulation) takes bytes of an endless, possibly looping stream *)
(* out of a ring that a reader thread fills.  One command is in flight at  *)
(* a time: two semaphores pass a single token, and whoever holds it may    *)
(* touch pending_*, write_pos and the cells the command fills.             *)
(*                                                                         *)
(* A cell holds which byte of which stream it is, so a wrong, stale or     *)
(* missing byte shows.  A step is one semaphore call, or one piece that    *)
(* read_into_buffer moves.                                                  *)
(***************************************************************************)
EXTENDS Integers, Sequences

CONSTANTS
  Streams,            \* what add_stream was given: a sequence of [size, loop_pos]
  Buffer_Size,        \* cells in the ring (0x10000)
  Chunk_Size,         \* cells a BufferNext fills (Buffer_Size / 4)
  Overbuffer_Count,   \* cells after the ring that mirror its start (256)
  Skips, Pzbs,        \* values the caller passes as skip and pzb
  MaxRead             \* bound on read_pos

ASSUME StreamsAssumption ==
  /\ Streams \in Seq([size : Nat, loop_pos : Nat])
  /\ Streams # <<>>
  /\ \A w \in 1 .. Len(Streams) : Streams[w].loop_pos <= Streams[w].size
ASSUME BufferAssumption ==
  /\ {Buffer_Size, Chunk_Size, Overbuffer_Count} \subseteq Nat \ {0}
  /\ Buffer_Size = 4 * Chunk_Size
  /\ Overbuffer_Count <= Chunk_Size
ASSUME ArgsAssumption ==
  Skips \subseteq Nat /\ Pzbs \subseteq 0 .. Buffer_Size /\ MaxRead \in Nat

VARIABLES
  command_sem, ack_sem,
  pending_command, pending_which, pending_skip, pending_pzb,
  need_sync, read_pos,             \* consumer
  cpc, count,                      \* consumer: place in the code, bytes asked for
  write_pos, buffer,               \* written by the thread (and reset under the token)
  active, pos, filepos,            \* thread: active stream, its pos, the files' own cursors
  tpc, tcount, basep               \* thread: place in the code, bytes to go, loop body in memory

consumerVars == <<need_sync, read_pos, cpc, count>>
pendingVars  == <<pending_command, pending_which, pending_skip, pending_pzb>>
threadVars   == <<buffer, active, pos, filepos, tpc, tcount, basep>>
vars == <<command_sem, ack_sem, write_pos, consumerVars, pendingVars, threadVars>>

Which == 1 .. Len(Streams)
Cells == 0 .. Buffer_Size + Overbuffer_Count - 1
Ring  == 0 .. Buffer_Size - 1
Zero  == <<>>
Byte(w, o) == <<w, o>>
NoBase == -1
Masked(p) == p % Buffer_Size
SmallerOf(a, b) == IF a < b THEN a ELSE b

\* Fault: the acknowledgement starts at one besides the constructor's NOP.
InitAcked ==
  /\ command_sem = 1 /\ ack_sem = 1
  /\ pending_command = "NOP" /\ pending_which = 1 /\ pending_skip = 0 /\ pending_pzb = 0
  /\ need_sync = FALSE /\ read_pos = 0 /\ cpc = "unset" /\ count = 0
  /\ write_pos = 0 /\ buffer = [i \in Cells |-> Zero]
  /\ active = 0 /\ pos = [w \in Which |-> 0] /\ filepos = [w \in Which |-> 0]
  /\ tpc = "wait" /\ tcount = 0 /\ basep = NoBase

Init ==
  /\ command_sem = 1 /\ ack_sem = 0         \* the constructor posts a NOP
  /\ pending_command = "NOP" /\ pending_which = 1 /\ pending_skip = 0 /\ pending_pzb = 0
  /\ need_sync = FALSE /\ read_pos = 0 /\ cpc = "unset" /\ count = 0
  /\ write_pos = 0 /\ buffer = [i \in Cells |-> Zero]
  /\ active = 0 /\ pos = [w \in Which |-> 0] /\ filepos = [w \in Which |-> 0]
  /\ tpc = "wait" /\ tcount = 0 /\ basep = NoBase

----------------------------------------------------------------------------
(* The consumer.  "unset" until a stream is chosen, then "ready".          *)

\* Every command goes through Sem_Wait(ack_sem) first ...
AwaitAck(from, to) ==
  /\ cpc = from
  /\ ack_sem > 0
  /\ ack_sem' = ack_sem - 1
  /\ cpc' = to
  /\ UNCHANGED <<command_sem, write_pos, need_sync, read_pos, count, pendingVars, threadVars>>

\* ... then fills in the request and posts command_sem.
Send(from, command, to) ==
  /\ cpc = from
  /\ pending_command' = command
  /\ command_sem' = command_sem + 1
  /\ cpc' = to
  /\ UNCHANGED <<ack_sem, count, threadVars>>

SetActiveCall ==
  /\ cpc \in {"unset", "ready"}
  /\ cpc' = "setActiveWait"
  /\ UNCHANGED <<command_sem, ack_sem, write_pos, need_sync, read_pos, count, pendingVars, threadVars>>
SetActiveSend(w, skip, pzb) ==
  /\ Send("setActiveSend", "SetActive", "ready")
  /\ pending_which' = w /\ pending_skip' = skip /\ pending_pzb' = pzb
  /\ read_pos' = 0 /\ write_pos' = 0
  /\ need_sync' = TRUE

\* Fault: the first buffer is handed out before it is filled.
GetCallUnsynced(n) ==
  /\ cpc = "ready"
  /\ read_pos + n <= MaxRead
  /\ count' = n
  /\ cpc' = "using"
  /\ UNCHANGED <<command_sem, ack_sem, write_pos, need_sync, read_pos, pendingVars, threadVars>>

\* get_buffer: the first one after set_active_stream waits for the prebuffer.
GetCall(n) ==
  /\ cpc = "ready"
  /\ read_pos + n <= MaxRead
  /\ count' = n
  /\ cpc' = IF need_sync THEN "syncWait" ELSE "using"
  /\ UNCHANGED <<command_sem, ack_sem, write_pos, need_sync, read_pos, pendingVars, threadVars>>
GetSend ==
  /\ Send("syncSend", "NOP", "using")
  /\ need_sync' = FALSE
  /\ UNCHANGED <<pending_which, pending_skip, pending_pzb, read_pos, write_pos>>

\* advance, by what was used of what was asked for.
ChunkBit(p) == (p \div Chunk_Size) % 2
Advance(n) ==
  /\ cpc = "using"
  /\ read_pos' = read_pos + n
  /\ cpc' = IF ChunkBit(read_pos) # ChunkBit(read_pos + n) THEN "nextWait" ELSE "ready"
  /\ UNCHANGED <<command_sem, ack_sem, write_pos, need_sync, count, pendingVars, threadVars>>
AdvanceSend ==
  /\ Send("nextSend", "BufferNext", "ready")
  /\ UNCHANGED <<pending_which, pending_skip, pending_pzb, need_sync, read_pos, write_pos>>

\* ~MTStreamReader: cleanup.
CleanupCall ==
  /\ cpc \in {"unset", "ready"}
  /\ cpc' = "exitWait"
  /\ UNCHANGED <<command_sem, ack_sem, write_pos, need_sync, read_pos, count, pendingVars, threadVars>>
CleanupSend ==
  /\ Send("exitSend", "Exit", "join")
  /\ UNCHANGED <<pending_which, pending_skip, pending_pzb, need_sync, read_pos, write_pos>>
Join ==
  /\ cpc = "join" /\ tpc = "exit"
  /\ cpc' = "gone"
  /\ UNCHANGED <<command_sem, ack_sem, write_pos, need_sync, read_pos, count, pendingVars, threadVars>>

ConsumerCall ==
  \/ SetActiveCall \/ CleanupCall
  \/ \E n \in 1 .. Overbuffer_Count : GetCall(n)

ConsumerStep ==
  \/ AwaitAck("setActiveWait", "setActiveSend")
  \/ AwaitAck("syncWait", "syncSend")
  \/ AwaitAck("nextWait", "nextSend")
  \/ AwaitAck("exitWait", "exitSend")
  \/ \E w \in Which, skip \in Skips, pzb \in Pzbs : SetActiveSend(w, skip, pzb)
  \/ GetSend \/ AdvanceSend \/ CleanupSend \/ Join
  \/ \E n \in 1 .. count : Advance(n)

----------------------------------------------------------------------------
(* The reader thread.                                                      *)

Size(w) == Streams[w].size
LoopPos(w) == Streams[w].loop_pos

\* memcpy of the ring's first cells behind its end.
Mirrored(b) ==
  [i \in Cells |-> IF i < Buffer_Size THEN b[i] ELSE b[i - Buffer_Size]]

\* The n cells from c on are replaced.
Written(b, c, n, value(_)) ==
  [i \in Cells |-> IF c <= i /\ i < c + n THEN value(i - c) ELSE b[i]]

\* zero_into_buffer, which may go round the end.
Zeroed(b, p, n) ==
  Mirrored([i \in Cells |-> IF i \in Ring /\ (i - p) % Buffer_Size < n THEN Zero ELSE b[i]])

\* Where SetActive starts in a stream skipped into.
StartPos(w, skip) ==
  IF skip < Size(w) THEN skip
  ELSE IF LoopPos(w) = Size(w) THEN Size(w)
  ELSE LoopPos(w) + ((skip - LoopPos(w)) % (Size(w) - LoopPos(w)))

Dispatch ==
  /\ tpc = "wait"
  /\ command_sem > 0
  /\ command_sem' = command_sem - 1
  /\ CASE pending_command = "Exit" ->
            /\ tpc' = "lastAck"
            /\ UNCHANGED <<buffer, active, pos, filepos, tcount, basep, write_pos>>
       [] pending_command = "NOP" ->
            /\ tpc' = "ack"
            /\ UNCHANGED <<buffer, active, pos, filepos, tcount, basep, write_pos>>
       [] pending_command = "SetActive" ->
            LET p == StartPos(pending_which, pending_skip) IN
            /\ active' = pending_which
            /\ pos' = [pos EXCEPT ![pending_which] = p]
            /\ filepos' = [filepos EXCEPT ![pending_which] = p]
            /\ buffer' = Zeroed(buffer, Masked(write_pos), pending_pzb)
            /\ write_pos' = write_pos + pending_pzb
            /\ tcount' = Buffer_Size - pending_pzb
            /\ basep' = NoBase
            /\ tpc' = "read"
       [] pending_command = "BufferNext" ->
            /\ tcount' = Chunk_Size /\ basep' = NoBase
            /\ tpc' = "read"
            /\ UNCHANGED <<buffer, active, pos, filepos, write_pos>>
  /\ UNCHANGED <<ack_sem, consumerVars, pendingVars>>

\* One round of read_into_buffer's loop: a piece up to the end of the ring,
\* of the stream or of the request, from the file, or from the loop body if
\* that was read whole earlier in this call.
ReadPiece ==
  LET w == active
      c == Masked(write_pos)
      n == SmallerOf(Buffer_Size - c, SmallerOf(tcount, Size(w) - pos[w]))
      fromLoop(j) == buffer[basep + (pos[w] - LoopPos(w)) + j]
      fromFile(j) == Byte(w, filepos[w] + j)
      atEnd == pos[w] + n = Size(w)
      wholeLoop == LoopPos(w) < Size(w) /\ Size(w) - LoopPos(w) = n
      cursor == IF basep = NoBase THEN filepos[w] + n ELSE filepos[w]
  IN /\ tpc = "read" /\ tcount > 0 /\ pos[w] # Size(w)
     /\ buffer' = IF basep = NoBase THEN Written(buffer, c, n, fromFile)
                                    ELSE Written(buffer, c, n, fromLoop)
     /\ write_pos' = write_pos + n
     /\ tcount' = tcount - n
     /\ pos' = [pos EXCEPT ![w] = IF atEnd THEN LoopPos(w) ELSE pos[w] + n]
     /\ basep' = IF basep = NoBase /\ atEnd /\ wholeLoop THEN c ELSE basep
     /\ filepos' = [filepos EXCEPT ![w] =
          IF basep = NoBase /\ atEnd /\ ~wholeLoop THEN LoopPos(w) ELSE cursor]
     /\ UNCHANGED <<tpc, active, command_sem, ack_sem, consumerVars, pendingVars>>

\* Fault: past the end reading is tried again and again, and brings nothing.
ReadSilenceRetry ==
  /\ tpc = "read" /\ tcount > 0 /\ pos[active] = Size(active)
  /\ UNCHANGED vars

\* Past the end of a stream without a loop the rest is silence.
ReadSilence ==
  /\ tpc = "read" /\ tcount > 0 /\ pos[active] = Size(active)
  /\ buffer' = Zeroed(buffer, Masked(write_pos), tcount)
  /\ write_pos' = write_pos + tcount
  /\ tcount' = 0
  /\ UNCHANGED <<tpc, active, pos, filepos, basep, command_sem, ack_sem,
                 consumerVars, pendingVars>>

\* Fault: the file is not sought to where the loop body's copies ended.
ReadDoneUnsought ==
  /\ tpc = "read" /\ tcount = 0
  /\ buffer' = Mirrored(buffer)
  /\ tpc' = "ack"
  /\ UNCHANGED <<write_pos, active, pos, filepos, tcount, basep, command_sem, ack_sem,
                 consumerVars, pendingVars>>

\* The end of read_into_buffer: the file follows, the mirror is renewed.
ReadDone ==
  /\ tpc = "read" /\ tcount = 0
  /\ filepos' = IF basep = NoBase THEN filepos
                ELSE [filepos EXCEPT ![active] = pos[active]]
  /\ buffer' = Mirrored(buffer)
  /\ tpc' = "ack"
  /\ UNCHANGED <<write_pos, active, pos, tcount, basep, command_sem, ack_sem,
                 consumerVars, pendingVars>>

Ack ==
  /\ tpc \in {"ack", "lastAck"}
  /\ ack_sem' = ack_sem + 1
  /\ tpc' = IF tpc = "ack" THEN "wait" ELSE "exit"
  /\ UNCHANGED <<command_sem, write_pos, buffer, active, pos, filepos, tcount, basep,
                 consumerVars, pendingVars>>

ThreadStep == Dispatch \/ ReadPiece \/ ReadSilence \/ ReadDone \/ Ack

Stopped == cpc = "gone" /\ UNCHANGED vars

Next == ConsumerCall \/ ConsumerStep \/ ThreadStep \/ Stopped

Spec == Init /\ [][Next]_vars

\* Both threads are scheduled; a further call is the caller's choice, but one
\* that holds a buffer goes on to advance.
FairSpec == Spec /\ WF_vars(ConsumerStep) /\ WF_vars(ThreadStep)

----------------------------------------------------------------------------
ConsumerStates == {"unset", "ready", "using", "join", "gone",
                   "setActiveWait", "setActiveSend", "syncWait", "syncSend",
                   "nextWait", "nextSend", "exitWait", "exitSend"}
ThreadStates == {"wait", "read", "ack", "lastAck", "exit"}
Commands == {"NOP", "SetActive", "BufferNext", "Exit"}
Content == {Zero} \cup {Byte(w, o) : w \in Which, o \in Nat}

TypeOK ==
  /\ command_sem \in 0 .. 1 /\ ack_sem \in 0 .. 1
  /\ pending_command \in Commands
  /\ pending_which \in Which /\ pending_skip \in Nat /\ pending_pzb \in 0 .. Buffer_Size
  /\ need_sync \in BOOLEAN /\ read_pos \in Nat
  /\ cpc \in ConsumerStates /\ tpc \in ThreadStates
  /\ count \in 0 .. Overbuffer_Count
  /\ write_pos \in Nat
  /\ DOMAIN buffer = Cells
  /\ active \in {0} \cup Which
  /\ pos \in [Which -> Nat] /\ filepos \in [Which -> Nat]
  /\ tcount \in 0 .. Buffer_Size
  /\ basep \in Ring \cup {NoBase}

\* The byte a caller must find at distance l from where set_active_stream put
\* it: silence for pzb bytes, then the stream from skip on, its loop over and
\* over, or silence if it has none.
Expected(l) ==
  LET w == pending_which
      o == pending_skip + l - pending_pzb
  IN CASE l < pending_pzb            -> Zero
       [] l >= pending_pzb /\ o < Size(w) -> Byte(w, o)
       [] l >= pending_pzb /\ o >= Size(w) /\ LoopPos(w) = Size(w) -> Zero
       [] OTHER -> Byte(w, LoopPos(w) + ((o - LoopPos(w)) % (Size(w) - LoopPos(w))))

\* What get_buffer hands out holds the right bytes for as long as the caller
\* uses them, whatever the thread is filling meanwhile.
WindowCorrect ==
  cpc = "using" =>
    \A j \in 0 .. count - 1 : buffer[Masked(read_pos) + j] = Expected(read_pos + j)

\* One token: it is a unit of one of the semaphores, or one of the threads
\* works on it.  So two commands are never in flight, and pending_*, write_pos
\* and the cells being filled belong to one thread at a time.
Holding == cpc \in {"setActiveSend", "syncSend", "nextSend", "exitSend"}
Busy    == tpc \in {"read", "ack", "lastAck"}
Units   == command_sem + ack_sem
OneToken ==
  Units + (IF Holding THEN 1 ELSE 0) + (IF Busy THEN 1 ELSE 0) = 1

\* The file cursor agrees with StreamInfo.pos when the thread is done, also
\* when the last pieces came from memory.
FileFollows ==
  active # 0 /\ tpc # "read" => filepos[active] = pos[active]

\* set_active_stream, get_buffer, advance and the destructor come back: the
\* token is always on its way to whoever waits for it.
CallsReturn == (cpc \notin {"unset", "ready", "gone"}) ~> (cpc \in {"ready", "gone"})
============================================================================
