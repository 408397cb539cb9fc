---------------------------- MODULE RenderQueue ----------------------------
(***************************************************************************)
(* The queue between the emulation thread and the PPU render thread        *)
(* (ppu_mtrender.h: Wakeup, WWQ, MTIF_*; ppu_mtrender.cpp: RThreadEntry,    *)
(* DoCommand, MTIF_Init, MTIF_Kill).                                        *)
(*                                                                         *)
(* A ring of Size entries with no lock.  Each thread keeps its own cursors *)
(* and publishes one of them to the other: TMP_WritePos tells the render   *)
(* thread how far it may read, TMP_ReadPos tells the emulation thread what *)
(* has been executed.  Two counting semaphores only shorten the waits;     *)
(* every wait on them is timed.  A step is one access to shared memory, or *)
(* one semaphore call.                                                     *)
(*                                                                         *)
(* A ring entry is two bytes, written one after the other.  Command is     *)
(* kept as the kind of command, Arg8 as the ordinal of the call, which     *)
(* tells apart any two entries whatever their payload.                     *)
(***************************************************************************)
EXTENDS Naturals, Sequences

CONSTANTS
  Size,        \* entries in the ring (65536)
  MaxCalls,    \* bound on the number of commands issued
  SemMax       \* the semaphores' ceiling: Sem_Post fails there

ASSUME SizeAssumption == Size \in Nat /\ Size >= 2
ASSUME MaxCallsAssumption == MaxCalls \in Nat
ASSUME SemMaxAssumption == SemMax \in Nat \ {0}

VARIABLES
  WQ,                             \* the ring
  WritePos, ReadPos,              \* emulation thread: its cursor; what it last saw of the other's
  TMP_WritePos, TMP_ReadPos,      \* the published cursors (atomics)
  RT_WakeupSem, WakeupSem,        \* the semaphores' values
  mpc, mode, tail,                \* emulation thread: place in the code; wakeup in progress; wakeup to come
  rpc, rWritePos, rReadPos, entry, Running,   \* render thread
  sent, applied                   \* history: the commands issued and executed

mainVars   == <<WritePos, ReadPos, mpc, mode, tail, sent>>
renderVars == <<rpc, rWritePos, rReadPos, entry, Running, applied>>
shared     == <<WQ, TMP_WritePos, TMP_ReadPos, RT_WakeupSem, WakeupSem>>
vars       == <<mainVars, renderVars, shared>>

Slots == 0 .. Size - 1
Nxt(p) == (p + 1) % Size

\* "write" stands for every command that is only put into the ring (register
\* writes and reads, sprite fetches, line target resets).
Kinds == {"write", "line", "vblank", "exit"}
Entry == [Command : Kinds, Arg8 : 0 .. MaxCalls]

\* How a Wakeup ends what the caller does: "refresh" publishes without waking,
\* "wake" posts, "full" and "sync" wait until the queue is empty, "exit" posts
\* and then joins the thread.
Modes == {"none", "refresh", "wake", "full", "sync", "exit"}
\* Fault: MTIF_Sync wakes the renderer but does not wait.
WaitOnlyWhenFull == {"full"}

WaitUntilEmpty == {"full", "sync"}

\* What follows the WWQ in each MTIF_ function.
Tails(c) == CASE c = "line"   -> {"wake", "refresh"}    \* by (l & 3) == 1, 0xE0, 0xEF
              [] c = "vblank" -> {"wake", "none"}       \* by skip
              [] c = "exit"   -> {"exit"}
              [] OTHER        -> {"none"}

Init ==
  /\ WQ = [p \in Slots |-> [Command |-> "write", Arg8 |-> 0]]
  /\ WritePos = 0 /\ ReadPos = 0
  /\ TMP_WritePos = 0 /\ TMP_ReadPos = 0
  /\ RT_WakeupSem = 0 /\ WakeupSem = 0
  /\ mpc = "idle" /\ mode = "none" /\ tail = "none"
  /\ rpc = "store" /\ rWritePos = 0 /\ rReadPos = 0 /\ Running = TRUE
  /\ entry = [Command |-> "write", Arg8 |-> 0]
  /\ sent = <<>> /\ applied = <<>>

Posted(v) == IF v < SemMax THEN v + 1 ELSE v

----------------------------------------------------------------------------
(* The emulation thread.  mpc is where it stands:                          *)
(*   idle -> arg -> (publish -> load -> post -> wait <-> reload) -> commit  *)
(*        -> publish -> ... -> idle | join -> gone                          *)

\* Entering MTIF_Write, MTIF_RenderLine, ..., MTIF_Kill: WWQ writes the
\* command byte of the slot at WritePos.
WriteCommand(c, t) ==
  /\ mpc = "idle"
  /\ Len(sent) < MaxCalls
  /\ t \in Tails(c)
  /\ WQ' = [WQ EXCEPT ![WritePos].Command = c]
  /\ mpc' = "arg" /\ mode' = "none" /\ tail' = t
  /\ UNCHANGED <<WritePos, ReadPos, TMP_WritePos, TMP_ReadPos, RT_WakeupSem,
                 WakeupSem, renderVars, sent>>

\* Fault: the cursor is tested before it is advanced.
WriteArgLate ==
  /\ mpc = "arg"
  /\ WQ' = [WQ EXCEPT ![WritePos].Arg8 = Len(sent) + 1]
  /\ IF WritePos = ReadPos
     THEN mpc' = "publish" /\ mode' = "full"
     ELSE mpc' = "commit" /\ UNCHANGED mode
  /\ UNCHANGED <<WritePos, ReadPos, tail, TMP_WritePos, TMP_ReadPos, RT_WakeupSem,
                 WakeupSem, renderVars, sent>>

\* ... then the argument byte; a ring that looks full is drained first, by a
\* Wakeup that still publishes the old WritePos.
WriteArg ==
  /\ mpc = "arg"
  /\ WQ' = [WQ EXCEPT ![WritePos].Arg8 = Len(sent) + 1]
  /\ IF Nxt(WritePos) = ReadPos
     THEN mpc' = "publish" /\ mode' = "full"
     ELSE mpc' = "commit" /\ UNCHANGED mode
  /\ UNCHANGED <<WritePos, ReadPos, tail, TMP_WritePos, TMP_ReadPos, RT_WakeupSem,
                 WakeupSem, renderVars, sent>>

\* The end of WWQ.
Commit ==
  /\ mpc = "commit"
  /\ WritePos' = Nxt(WritePos)
  /\ sent' = Append(sent, WQ[WritePos])
  /\ mode' = tail
  /\ mpc' = IF tail = "none" THEN "idle" ELSE "publish"
  /\ UNCHANGED <<ReadPos, tail, shared, renderVars>>

\* MTIF_Sync.
Sync ==
  /\ mpc = "idle"
  /\ mode' = "sync" /\ tail' = "none" /\ mpc' = "publish"
  /\ UNCHANGED <<WritePos, ReadPos, shared, renderVars, sent>>

\* Where a Wakeup returns to.
After(m) == CASE m = "full" -> "commit"
              [] m = "exit" -> "join"
              [] OTHER      -> "idle"

Publish ==
  /\ mpc = "publish"
  /\ TMP_WritePos' = WritePos
  /\ mpc' = "load"
  /\ UNCHANGED <<WritePos, ReadPos, mode, tail, sent, WQ, TMP_ReadPos,
                 RT_WakeupSem, WakeupSem, renderVars>>

Load ==
  /\ mpc = "load"
  /\ ReadPos' = TMP_ReadPos
  /\ mpc' = IF mode # "refresh" /\ TMP_ReadPos # WritePos THEN "post" ELSE After(mode)
  /\ UNCHANGED <<WritePos, mode, tail, sent, shared, renderVars>>

Post ==
  /\ mpc = "post"
  /\ RT_WakeupSem' = Posted(RT_WakeupSem)
  /\ mpc' = IF mode \in WaitUntilEmpty THEN "wait" ELSE After(mode)
  /\ UNCHANGED <<WritePos, ReadPos, mode, tail, sent, WQ, TMP_WritePos,
                 TMP_ReadPos, WakeupSem, renderVars>>

\* Sem_TimedWait(WakeupSem, 1): a unit is taken, or the time runs out.
Wait ==
  /\ mpc = "wait"
  /\ WakeupSem' \in {WakeupSem} \cup (IF WakeupSem > 0 THEN {WakeupSem - 1} ELSE {})
  /\ mpc' = "reload"
  /\ UNCHANGED <<WritePos, ReadPos, mode, tail, sent, WQ, TMP_WritePos,
                 TMP_ReadPos, RT_WakeupSem, renderVars>>

\* Fault: one wait is taken to be enough.
ReloadOnce ==
  /\ mpc = "reload"
  /\ ReadPos' = TMP_ReadPos
  /\ mpc' = After(mode)
  /\ UNCHANGED <<WritePos, mode, tail, sent, shared, renderVars>>

\* Fault: the cursor read before the loop is tested.
ReloadStale ==
  /\ mpc = "reload"
  /\ mpc' = IF ReadPos # WritePos THEN "wait" ELSE After(mode)
  /\ UNCHANGED <<WritePos, ReadPos, mode, tail, sent, shared, renderVars>>

Reload ==
  /\ mpc = "reload"
  /\ ReadPos' = TMP_ReadPos
  /\ mpc' = IF TMP_ReadPos # WritePos THEN "wait" ELSE After(mode)
  /\ UNCHANGED <<WritePos, mode, tail, sent, shared, renderVars>>

\* Fault: the semaphores are destroyed while the thread runs.
JoinAtOnce ==
  /\ mpc = "join"
  /\ mpc' = "gone"
  /\ UNCHANGED <<WritePos, ReadPos, mode, tail, sent, shared, renderVars>>

\* MTIF_Kill: Thread_Wait, then the semaphores are destroyed.
Join ==
  /\ mpc = "join"
  /\ rpc = "exit"
  /\ mpc' = "gone"
  /\ UNCHANGED <<WritePos, ReadPos, mode, tail, sent, shared, renderVars>>

MainStep == WriteArg \/ Commit \/ Publish \/ Load \/ Post \/ Wait \/ Reload \/ Join

Call == Sync \/ \E c \in Kinds : \E t \in Tails(c) : WriteCommand(c, t)

----------------------------------------------------------------------------
(* The render thread: RThreadEntry.                                        *)

StoreReadPos ==
  /\ rpc = "store"
  /\ TMP_ReadPos' = rReadPos
  /\ rpc' = "load"
  /\ UNCHANGED <<rWritePos, rReadPos, entry, Running, applied, WQ, TMP_WritePos,
                 RT_WakeupSem, WakeupSem, mainVars>>

LoadWritePos ==
  /\ rpc = "load"
  /\ rWritePos' = TMP_WritePos
  /\ rpc' = IF rReadPos = TMP_WritePos THEN "post" ELSE "take"
  /\ UNCHANGED <<rReadPos, entry, Running, applied, shared, mainVars>>

PostIdle ==
  /\ rpc = "post"
  /\ WakeupSem' = Posted(WakeupSem)
  /\ rpc' = "timed"
  /\ UNCHANGED <<rWritePos, rReadPos, entry, Running, applied, WQ, TMP_WritePos,
                 TMP_ReadPos, RT_WakeupSem, mainVars>>

\* Fault: the render thread waits without a timeout.
UntimedWait ==
  /\ rpc = "timed"
  /\ RT_WakeupSem > 0 /\ RT_WakeupSem' = RT_WakeupSem - 1
  /\ rpc' = "load"
  /\ UNCHANGED <<rWritePos, rReadPos, entry, Running, applied, WQ, TMP_WritePos,
                 TMP_ReadPos, WakeupSem, mainVars>>

TimedWait ==
  /\ rpc = "timed"
  /\ RT_WakeupSem' \in {RT_WakeupSem} \cup
                       (IF RT_WakeupSem > 0 THEN {RT_WakeupSem - 1} ELSE {})
  /\ rpc' = "load"
  /\ UNCHANGED <<rWritePos, rReadPos, entry, Running, applied, WQ, TMP_WritePos,
                 TMP_ReadPos, WakeupSem, mainVars>>

Take ==
  /\ rpc = "take"
  /\ entry' = WQ[rReadPos]
  /\ rReadPos' = Nxt(rReadPos)
  /\ rpc' = "exec"
  /\ UNCHANGED <<rWritePos, Running, applied, shared, mainVars>>

\* Write or DoCommand; the batch goes on to its end even after EXIT.
Exec ==
  /\ rpc = "exec"
  /\ applied' = Append(applied, entry)
  /\ Running' = (Running /\ entry.Command # "exit")
  /\ rpc' = IF rReadPos # rWritePos THEN "take"
            ELSE IF Running' THEN "store" ELSE "exit"
  /\ UNCHANGED <<rWritePos, rReadPos, entry, shared, mainVars>>

RenderStep == StoreReadPos \/ LoadWritePos \/ PostIdle \/ TimedWait \/ Take \/ Exec

\* After MTIF_Kill neither thread has anything left to do.
Stopped == mpc = "gone" /\ UNCHANGED vars

Next == Call \/ MainStep \/ RenderStep \/ Stopped

\* The scheduler runs both threads; nobody promises that the emulation thread
\* makes a further call.
Fairness == WF_vars(MainStep) /\ WF_vars(RenderStep)

Spec == Init /\ [][Next]_vars
FairSpec == Spec /\ Fairness

----------------------------------------------------------------------------
TypeOK ==
  /\ WQ \in [Slots -> Entry]
  /\ {WritePos, ReadPos, TMP_WritePos, TMP_ReadPos, rWritePos, rReadPos} \subseteq Slots
  /\ {RT_WakeupSem, WakeupSem} \subseteq 0 .. SemMax
  /\ mpc \in {"idle", "arg", "commit", "publish", "load", "post", "wait", "reload",
              "join", "gone"}
  /\ mode \in Modes /\ tail \in {"none", "refresh", "wake", "exit"}
  /\ rpc \in {"store", "load", "post", "timed", "take", "exec", "exit"}
  /\ entry \in Entry
  /\ Running \in BOOLEAN
  /\ sent \in Seq(Entry) /\ applied \in Seq(Entry)
  /\ Len(sent) <= MaxCalls

\* The commands executed are exactly the first ones issued, in their order,
\* each once and with both of its bytes: no entry of the ring is overwritten
\* before it is executed, read half-written, skipped or read twice.
AppliedInOrder ==
  /\ Len(applied) <= Len(sent)
  /\ \A i \in 1 .. Len(applied) : applied[i] = sent[i]

\* When PPU_SyncMT has returned, the render thread has executed everything
\* and holds nothing: the caller may touch the renderer's variables.
SyncDrains ==
  mpc = "idle" /\ mode = "sync" =>
    /\ applied = sent
    /\ rpc \notin {"take", "exec"}

\* MTIF_Kill cuts nothing off: the thread ends having executed every command,
\* and only then are the semaphores it posts to destroyed.
ExitDrains ==
  /\ rpc = "exit" => applied = sent
  /\ mpc = "gone" => rpc = "exit"

\* The two threads never touch the same entry: where the emulation thread is
\* about to store a byte is never where the render thread is about to read
\* (the entries are plain memory, only the cursors are atomic).
NoRace ==
  mpc \in {"idle", "arg"} /\ rpc = "take" => rReadPos # WritePos

\* A call to MTIF_Sync, MTIF_RenderLine, ... returns, and MTIF_Kill too: the
\* timed waits find the queue empty however the semaphores' units went.
CallsReturn == (mpc \notin {"idle", "gone"}) ~> (mpc \in {"idle", "gone"})

\* A line handed over is rendered even when no further call follows, whether
\* or not the call posted the semaphore.
LinesRendered ==
  \A n \in 1 .. MaxCalls :
    (mpc = "idle" /\ mode \in {"refresh", "wake"} /\ Len(sent) >= n)
      ~> (Len(applied) >= n)

----------------------------------------------------------------------------
\* The queue is the channel of module RenderChannel.
CallerAt(p, m) == CASE p = "gone"               -> "gone"
                    [] m = "exit" /\ p # "gone"  -> "killing"
                    [] m = "sync" /\ p = "idle"  -> "synced"
                    [] m = "sync" /\ p # "idle" /\ p # "gone" -> "syncing"
                    [] OTHER                     -> "running"
caller == CallerAt(mpc, mode)

Channel == INSTANCE RenderChannel WITH
             Entry <- Entry, sent <- sent, applied <- applied, caller <- caller

ImplementsChannel == Channel!ChanSpec
============================================================================
