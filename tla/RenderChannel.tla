--------------------------- MODULE RenderChannel ---------------------------
(***************************************************************************)
(* What the emulation thread may rely on when it hands PPU work to the     *)
(* render thread (ppu_mtrender.h, ppu_mtrender.cpp): an unbounded channel   *)
(* whose commands are applied exactly once and in the order in which they  *)
(* were issued; a Sync that returns only once everything issued has been   *)
(* applied; a shutdown that loses nothing.  How the ring, the published    *)
(* cursors and the semaphores bring this about is module RenderQueue.      *)
(***************************************************************************)
EXTENDS Naturals, Sequences

CONSTANT Entry            \* what a command carries

VARIABLES sent,           \* the commands issued, oldest first
          applied,        \* the commands the render thread has executed
          caller          \* what the emulation thread is doing

chanVars == <<sent, applied, caller>>

CallerStates == {"running", "syncing", "synced", "killing", "gone"}

ChanInit ==
  /\ sent = <<>>
  /\ applied = <<>>
  /\ caller = "running"

\* A register write, a line to render, ... is handed over.
Issue(e) ==
  /\ caller \in {"running", "synced"}
  /\ sent' = Append(sent, e)
  /\ caller' = "running"
  /\ UNCHANGED applied

\* The render thread executes the next command.
Apply ==
  /\ Len(applied) < Len(sent)
  /\ applied' = Append(applied, sent[Len(applied) + 1])
  /\ UNCHANGED <<sent, caller>>

\* The emulation thread starts on a call (which may or may not issue).
Resume ==
  /\ caller = "synced"
  /\ caller' = "running"
  /\ UNCHANGED <<sent, applied>>

SyncCall ==
  /\ caller \in {"running", "synced"}
  /\ caller' = "syncing"
  /\ UNCHANGED <<sent, applied>>

\* Sync returns: the channel is empty.
SyncReturn ==
  /\ caller = "syncing"
  /\ applied = sent
  /\ caller' = "synced"
  /\ UNCHANGED <<sent, applied>>

\* Shutdown: the last command is handed over, and the thread is joined.
KillCall(e) ==
  /\ caller \in {"running", "synced"}
  /\ sent' = Append(sent, e)
  /\ caller' = "killing"
  /\ UNCHANGED applied

Joined ==
  /\ caller = "killing"
  /\ applied = sent
  /\ caller' = "gone"
  /\ UNCHANGED <<sent, applied>>

ChanNext ==
  \/ \E e \in Entry : Issue(e) \/ KillCall(e)
  \/ Apply \/ Resume \/ SyncCall \/ SyncReturn \/ Joined

ChanSpec == ChanInit /\ [][ChanNext]_chanVars
============================================================================
