------------------------- MODULE RenderQueueProofs -------------------------
(***************************************************************************)
(* Proofs about the render queue, for every ring size, every number of     *)
(* calls and every semaphore ceiling: the type invariant, that commands    *)
(* are executed in the order they were issued, that Sync drains, that the  *)
(* shutdown loses nothing, that no unread entry is overwritten, and that   *)
(* the queue implements the channel of RenderChannel.                      *)
(***************************************************************************)
EXTENDS RenderQueue, TLAPS

\* How far b is ahead of a on the ring.
Dist(a, b) == IF a <= b THEN b - a ELSE b - a + Size

\* 1 while the render thread holds an entry it has taken and not executed.
Held == IF rpc = "exec" THEN 1 ELSE 0

\* A slot is being filled; a call is only begun while the bound allows it.
Filling == mpc \in {"arg", "commit"} \/ mode = "full"
RoomInv == Filling => Len(sent) < MaxCalls
TypeInv == TypeOK /\ RoomInv

\* The cursors never overtake one another: going round the ring one meets the
\* emulation thread's stale copy, the published read cursor, the real one, the
\* render thread's stale copy of the write cursor, the published one, the real
\* one.
CursorInv ==
  /\ Dist(rReadPos, rWritePos) <= Dist(rReadPos, TMP_WritePos)
  /\ Dist(rReadPos, TMP_WritePos) <= Dist(rReadPos, WritePos)
  /\ Dist(TMP_ReadPos, rReadPos) + Dist(rReadPos, WritePos) = Dist(TMP_ReadPos, WritePos)
  /\ Dist(ReadPos, TMP_ReadPos) + Dist(TMP_ReadPos, WritePos) = Dist(ReadPos, WritePos)
  /\ mpc = "commit" => Nxt(WritePos) # ReadPos
  /\ rpc = "take" => rReadPos # rWritePos
  /\ rpc = "exec" => TMP_ReadPos # rReadPos

\* The place in the code and the wakeup in progress go together.
ControlInv ==
  /\ mode = "none" => mpc \in {"idle", "arg", "commit"}
  /\ mode = "full" => mpc \in {"publish", "load", "post", "wait", "reload", "commit"}
  /\ mode = "exit" => mpc \in {"publish", "load", "post", "join", "gone"}
  /\ mode \in {"refresh", "wake", "sync"} => mpc \notin {"arg", "commit", "join", "gone"}
  /\ mpc \in {"wait", "reload"} => mode \in WaitUntilEmpty
  /\ mpc = "idle" /\ mode = "sync" => ReadPos = WritePos
  /\ mpc = "gone" => rpc = "exit"

\* Between the cursors the ring holds the commands issued and not executed.
ContentInv ==
  /\ Len(sent) = Len(applied) + Held + Dist(rReadPos, WritePos)
  /\ \A p \in Slots : Dist(rReadPos, p) < Dist(rReadPos, WritePos)
       => WQ[p] = sent[Len(applied) + Held + Dist(rReadPos, p) + 1]
  /\ rpc = "exec" => entry = sent[Len(applied) + 1]
  /\ \A i \in 1 .. Len(applied) : applied[i] = sent[i]

\* EXIT is the last command, and the thread ends having executed it.
ExitInv ==
  /\ Filling => (WQ[WritePos].Command = "exit" => tail = "exit")
  /\ \A i \in 1 .. Len(sent) :
       sent[i].Command = "exit" => i = Len(sent) /\ mode = "exit"
  /\ ~Running => rpc = "exit"
  /\ rpc = "exit" => applied = sent /\ mode = "exit"

IInv == TypeInv /\ CursorInv /\ ControlInv /\ ContentInv /\ ExitInv

----------------------------------------------------------------------------
\* Going to the next slot without the remainder.
LEMMA NxtOf ==
  ASSUME NEW p \in Slots
  PROVE  /\ Nxt(p) = IF p = Size - 1 THEN 0 ELSE p + 1
         /\ Nxt(p) \in Slots
<1>1. CASE p = Size - 1
  <2>1. (p + 1) % Size = 0 BY <1>1, SizeAssumption, SMT
  <2> QED BY <2>1, <1>1, SizeAssumption DEF Nxt, Slots
<1>2. CASE p # Size - 1
  <2>1. (p + 1) % Size = p + 1 BY <1>2, SizeAssumption, SMT DEF Slots
  <2> QED BY <2>1, <1>2, SizeAssumption DEF Nxt, Slots
<1> QED BY <1>1, <1>2

\* The distance on the ring, and what a step of either end does to it.
LEMMA DistOf ==
  ASSUME NEW a \in Slots, NEW b \in Slots
  PROVE  /\ Dist(a, b) \in 0 .. Size - 1
         /\ Dist(a, b) = 0 <=> a = b
         /\ a # b => Dist(Nxt(a), b) = Dist(a, b) - 1
         /\ Nxt(b) # a => Dist(a, Nxt(b)) = Dist(a, b) + 1
BY NxtOf, SizeAssumption DEF Dist, Slots

\* The slot before b is the farthest ahead of b.
LEMMA DistFull ==
  ASSUME NEW b \in Slots, NEW c \in Slots, Nxt(c) = b
  PROVE  Dist(b, c) = Size - 1
<1>1. CASE c = Size - 1 BY <1>1, NxtOf, SizeAssumption DEF Dist, Slots
<1>2. CASE c # Size - 1
  <2>1. b = c + 1 BY <1>2, NxtOf
  <2> QED BY <2>1, SizeAssumption DEF Dist, Slots
<1> QED BY <1>1, <1>2

\* b lies between a and c; moving c on, short of a, keeps it there.
LEMMA DistStretch ==
  ASSUME NEW a \in Slots, NEW b \in Slots, NEW c \in Slots,
         Dist(a, b) + Dist(b, c) = Dist(a, c), Nxt(c) # a
  PROVE  Dist(b, Nxt(c)) = Dist(b, c) + 1
<1>1. Nxt(c) # b
  <2> SUFFICES ASSUME Nxt(c) = b PROVE FALSE OBVIOUS
  <2>1. Dist(b, c) = Size - 1 BY DistFull
  <2>2. Dist(a, b) \in Nat /\ Dist(a, c) \in 0 .. Size - 1 BY DistOf
  <2>3. Dist(a, b) = 0 BY <2>1, <2>2, SizeAssumption
  <2> QED BY <2>3, DistOf
<1> QED BY <1>1, DistOf

\* b lies between a and c and is not c: moving b on does not reach a.
LEMMA DistAdvance ==
  ASSUME NEW a \in Slots, NEW b \in Slots, NEW c \in Slots,
         Dist(a, b) + Dist(b, c) = Dist(a, c), b # c
  PROVE  Nxt(b) # a
<1> SUFFICES ASSUME Nxt(b) = a PROVE FALSE OBVIOUS
<1>1. Dist(a, b) = Size - 1 BY DistFull
<1>2. Dist(b, c) \in Nat /\ Dist(a, c) \in 0 .. Size - 1 BY DistOf
<1>3. Dist(b, c) = 0 BY <1>1, <1>2, SizeAssumption
<1> QED BY <1>3, DistOf

\* Of a, b, c, d met in this order, b may be left out.
LEMMA DistChain ==
  ASSUME NEW a \in Slots, NEW b \in Slots, NEW c \in Slots, NEW d \in Slots,
         Dist(a, b) + Dist(b, d) = Dist(a, d),
         Dist(b, c) + Dist(c, d) = Dist(b, d)
  PROVE  Dist(a, c) + Dist(c, d) = Dist(a, d)
BY SizeAssumption DEF Dist, Slots

----------------------------------------------------------------------------
LEMMA TypeInit == Init => TypeInv
BY SizeAssumption, SemMaxAssumption, MaxCallsAssumption
   DEF Init, TypeInv, TypeOK, RoomInv, Filling, Slots, Entry, Kinds, Modes

\* A value posted to a semaphore stays under its ceiling.
LEMMA PostedOf ==
  ASSUME NEW v \in 0 .. SemMax
  PROVE  Posted(v) \in 0 .. SemMax
BY SemMaxAssumption DEF Posted

LEMMA TypeStep == TypeInv /\ [Next]_vars => TypeInv'
<1> SUFFICES ASSUME TypeInv, [Next]_vars PROVE TypeInv'
  OBVIOUS
<1> USE SizeAssumption, SemMaxAssumption, MaxCallsAssumption
<1> USE DEF TypeInv, TypeOK, RoomInv, Filling, Modes
<1>1. ASSUME NEW c \in Kinds, NEW t \in Tails(c), WriteCommand(c, t) PROVE TypeInv'
  <2>1. WQ' \in [Slots -> Entry]
    BY <1>1 DEF WriteCommand, Entry
  <2>2. t \in {"none", "refresh", "wake", "exit"} BY <1>1 DEF Tails, Kinds
  <2> QED BY <1>1, <2>1, <2>2 DEF WriteCommand, renderVars
<1>2. CASE WriteArg
  <2>1. Len(sent) + 1 \in 0 .. MaxCalls BY <1>2 DEF WriteArg
  <2>2. WQ' \in [Slots -> Entry] BY <1>2, <2>1 DEF WriteArg, Entry
  <2> QED BY <1>2, <2>2 DEF WriteArg, renderVars
<1>3. CASE Commit
  <2>1. sent' \in Seq(Entry) /\ Len(sent') = Len(sent) + 1 BY <1>3 DEF Commit
  <2>2. WritePos' \in Slots BY <1>3, NxtOf DEF Commit
  <2> QED BY <1>3, <2>1, <2>2 DEF Commit, shared, renderVars
<1>4. CASE Sync BY <1>4 DEF Sync, shared, renderVars
<1>5. CASE Publish BY <1>5 DEF Publish, renderVars
<1>6. CASE Load BY <1>6 DEF Load, After, shared, renderVars
<1>7. CASE Post BY <1>7, PostedOf DEF Post, After, WaitUntilEmpty, renderVars
<1>8. CASE Wait BY <1>8 DEF Wait, renderVars
<1>9. CASE Reload BY <1>9 DEF Reload, After, shared, renderVars
<1>10. CASE Join BY <1>10 DEF Join, shared, renderVars
<1>11. CASE StoreReadPos BY <1>11 DEF StoreReadPos, mainVars
<1>12. CASE LoadWritePos BY <1>12 DEF LoadWritePos, shared, mainVars
<1>13. CASE PostIdle BY <1>13, PostedOf DEF PostIdle, mainVars
<1>14. CASE TimedWait BY <1>14 DEF TimedWait, mainVars
<1>15. CASE Take BY <1>15, NxtOf DEF Take, shared, mainVars
<1>16. CASE Exec
  <2>1. applied' \in Seq(Entry) BY <1>16 DEF Exec
  <2> QED BY <1>16, <2>1 DEF Exec, shared, mainVars
<1>17. CASE UNCHANGED vars BY <1>17 DEF vars, shared, mainVars, renderVars
<1> QED
  BY <1>1, <1>2, <1>3, <1>4, <1>5, <1>6, <1>7, <1>8, <1>9, <1>10, <1>11, <1>12,
     <1>13, <1>14, <1>15, <1>16, <1>17
     DEF Next, Call, MainStep, RenderStep, Stopped

\* Every cursor stays inside the ring, every entry well formed, and no
\* semaphore above its ceiling.
THEOREM TypeCorrect == Spec => []TypeOK
<1>1. TypeInv => TypeOK BY DEF TypeInv
<1> QED BY <1>1, TypeInit, TypeStep, PTL DEF Spec

----------------------------------------------------------------------------
\* What a Wakeup returns to.
LEMMA AfterOf ==
  /\ After("full") = "commit"
  /\ After("exit") = "join"
  /\ \A m \in Modes \ {"full", "exit"} : After(m) = "idle"
BY DEF After, Modes

LEMMA ControlStep == TypeInv /\ ControlInv /\ [Next]_vars => ControlInv'
<1> SUFFICES ASSUME TypeInv, ControlInv, [Next]_vars PROVE ControlInv'
  OBVIOUS
<1> USE AfterOf DEF TypeInv, TypeOK, ControlInv, WaitUntilEmpty, Modes
<1>1. ASSUME NEW c \in Kinds, NEW t \in Tails(c), WriteCommand(c, t) PROVE ControlInv'
  BY <1>1 DEF WriteCommand, renderVars
<1>2. CASE WriteArg BY <1>2 DEF WriteArg, renderVars
<1>3. CASE Commit BY <1>3 DEF Commit, shared, renderVars
<1>4. CASE Sync BY <1>4 DEF Sync, shared, renderVars
<1>5. CASE Publish BY <1>5 DEF Publish, renderVars
<1>6. CASE Load BY <1>6 DEF Load, shared, renderVars
<1>7. CASE Post BY <1>7 DEF Post, renderVars
<1>8. CASE Wait BY <1>8 DEF Wait, renderVars
<1>9. CASE Reload BY <1>9 DEF Reload, shared, renderVars
<1>10. CASE Join BY <1>10 DEF Join, shared, renderVars
<1>11. CASE StoreReadPos BY <1>11 DEF StoreReadPos, mainVars
<1>12. CASE LoadWritePos BY <1>12 DEF LoadWritePos, shared, mainVars
<1>13. CASE PostIdle BY <1>13 DEF PostIdle, mainVars
<1>14. CASE TimedWait BY <1>14 DEF TimedWait, mainVars
<1>15. CASE Take BY <1>15 DEF Take, shared, mainVars
<1>16. CASE Exec BY <1>16 DEF Exec, shared, mainVars
<1>17. CASE UNCHANGED vars BY <1>17 DEF vars, shared, mainVars, renderVars
<1> QED
  BY <1>1, <1>2, <1>3, <1>4, <1>5, <1>6, <1>7, <1>8, <1>9, <1>10, <1>11, <1>12,
     <1>13, <1>14, <1>15, <1>16, <1>17
     DEF Next, Call, MainStep, RenderStep, Stopped

----------------------------------------------------------------------------
\* A step that moves no cursor and enters none of the places CursorInv speaks
\* of leaves it true.
LEMMA CursorStep == TypeInv /\ ControlInv /\ CursorInv /\ [Next]_vars => CursorInv'
<1> SUFFICES ASSUME TypeInv, ControlInv, CursorInv, [Next]_vars PROVE CursorInv'
  OBVIOUS
<1>s. /\ WritePos \in Slots /\ ReadPos \in Slots
      /\ TMP_WritePos \in Slots /\ TMP_ReadPos \in Slots
      /\ rWritePos \in Slots /\ rReadPos \in Slots
  BY DEF TypeInv, TypeOK
<1>d. \A a, b \in Slots : Dist(a, b) \in Nat /\ (Dist(a, b) = 0 <=> a = b)
  BY DistOf, SizeAssumption
<1>n. Nxt(WritePos) \in Slots /\ Nxt(WritePos) # WritePos
  BY <1>s, NxtOf, SizeAssumption DEF Slots
<1> USE DEF CursorInv
<1>1. ASSUME NEW c \in Kinds, NEW t \in Tails(c), WriteCommand(c, t) PROVE CursorInv'
  BY <1>1 DEF WriteCommand, renderVars
<1>2. CASE WriteArg BY <1>2 DEF WriteArg, renderVars
<1>3. CASE Commit
  <2>1. WritePos' = Nxt(WritePos) /\ Nxt(WritePos) # ReadPos /\ mpc' # "commit"
    BY <1>3 DEF Commit
  <2>2. Dist(ReadPos, Nxt(WritePos)) = Dist(ReadPos, WritePos) + 1
    BY <2>1, <1>s, DistOf
  <2>3. UNCHANGED <<ReadPos, rWritePos, rReadPos, TMP_ReadPos, TMP_WritePos, rpc>>
    BY <1>3 DEF Commit, shared, renderVars
  <2>4. Dist(TMP_ReadPos, Nxt(WritePos)) = Dist(TMP_ReadPos, WritePos) + 1
    BY <2>1, <1>s, DistStretch
  <2>5. Dist(rReadPos, Nxt(WritePos)) = Dist(rReadPos, WritePos) + 1
    BY <2>1, <1>s, DistStretch, DistChain
  <2>7. /\ Dist(rReadPos, TMP_WritePos) <= Dist(rReadPos, WritePos')
        /\ Dist(TMP_ReadPos, rReadPos) + Dist(rReadPos, WritePos') = Dist(TMP_ReadPos, WritePos')
        /\ Dist(ReadPos, TMP_ReadPos) + Dist(TMP_ReadPos, WritePos') = Dist(ReadPos, WritePos')
    BY <2>1, <2>2, <2>4, <2>5, <1>s, <1>d
  <2> QED BY <2>1, <2>3, <2>7 DEF Dist
<1>4. CASE Sync BY <1>4 DEF Sync, shared, renderVars
<1>5. CASE Publish BY <1>5, <1>s, <1>d DEF Publish, renderVars
<1>6. CASE Load
  <2>1. ReadPos' = TMP_ReadPos
        /\ UNCHANGED <<WritePos, rWritePos, rReadPos, TMP_ReadPos, TMP_WritePos, rpc>>
    BY <1>6 DEF Load, shared, renderVars
  <2>2. mpc' = "commit" => TMP_ReadPos = WritePos
    BY <1>6, AfterOf DEF Load, ControlInv, TypeInv, TypeOK
  <2> QED BY <2>1, <2>2, <1>s, <1>d, <1>n
<1>7. CASE Post
  <2>1. mpc' # "commit" BY <1>7, AfterOf DEF Post, WaitUntilEmpty, TypeInv, TypeOK
  <2> QED BY <1>7, <2>1 DEF Post, renderVars
<1>8. CASE Wait BY <1>8 DEF Wait, renderVars
<1>9. CASE Reload
  <2>1. ReadPos' = TMP_ReadPos
        /\ UNCHANGED <<WritePos, rWritePos, rReadPos, TMP_ReadPos, TMP_WritePos, rpc>>
    BY <1>9 DEF Reload, shared, renderVars
  <2>2. mpc' = "commit" => TMP_ReadPos = WritePos
    BY <1>9 DEF Reload
  <2> QED BY <2>1, <2>2, <1>s, <1>d, <1>n
<1>10. CASE Join BY <1>10 DEF Join, shared, renderVars
<1>11. CASE StoreReadPos
  <2>1. TMP_ReadPos' = rReadPos /\ rpc' = "load"
        /\ UNCHANGED <<WritePos, ReadPos, rWritePos, rReadPos, TMP_WritePos, mpc>>
    BY <1>11 DEF StoreReadPos, mainVars
  <2>2. Dist(ReadPos, rReadPos) + Dist(rReadPos, WritePos) = Dist(ReadPos, WritePos)
    BY <1>s, DistChain
  <2> QED BY <2>1, <2>2, <1>s, <1>d
<1>12. CASE LoadWritePos
  <2>1. rWritePos' = TMP_WritePos /\ rpc' # "exec"
        /\ (rpc' = "take" => rReadPos # TMP_WritePos)
        /\ UNCHANGED <<WritePos, ReadPos, rReadPos, TMP_ReadPos, TMP_WritePos, mpc>>
    BY <1>12 DEF LoadWritePos, shared, mainVars
  <2> QED BY <2>1, <1>s, <1>d
<1>13. CASE PostIdle BY <1>13 DEF PostIdle, mainVars
<1>14. CASE TimedWait BY <1>14 DEF TimedWait, mainVars
<1>15. CASE Take
  <2>1. rReadPos # rWritePos /\ rReadPos' = Nxt(rReadPos) /\ rpc' = "exec"
        /\ UNCHANGED <<WritePos, ReadPos, rWritePos, TMP_ReadPos, TMP_WritePos, mpc>>
    BY <1>15 DEF Take, shared, mainVars
  <2>2. rReadPos # TMP_WritePos /\ rReadPos # WritePos BY <2>1, <1>s, <1>d
  <2>3. /\ Dist(Nxt(rReadPos), rWritePos) = Dist(rReadPos, rWritePos) - 1
        /\ Dist(Nxt(rReadPos), TMP_WritePos) = Dist(rReadPos, TMP_WritePos) - 1
        /\ Dist(Nxt(rReadPos), WritePos) = Dist(rReadPos, WritePos) - 1
    BY <2>1, <2>2, <1>s, DistOf
  <2>4. Nxt(rReadPos) # TMP_ReadPos
    BY <2>1, <2>2, <1>s, DistAdvance
  <2>5. Dist(TMP_ReadPos, Nxt(rReadPos)) = Dist(TMP_ReadPos, rReadPos) + 1
    BY <2>4, <1>s, DistOf
  <2> QED BY <2>1, <2>3, <2>4, <2>5, <1>s, <1>d
<1>16. CASE Exec BY <1>16 DEF Exec, shared, mainVars
<1>17. CASE UNCHANGED vars BY <1>17 DEF vars, shared, mainVars, renderVars
<1> QED
  BY <1>1, <1>2, <1>3, <1>4, <1>5, <1>6, <1>7, <1>8, <1>9, <1>10, <1>11, <1>12,
     <1>13, <1>14, <1>15, <1>16, <1>17
     DEF Next, Call, MainStep, RenderStep, Stopped

----------------------------------------------------------------------------
\* Steps that touch neither history nor the ring nor the read cursor leave
\* the content alone.
LEMMA ContentFrame ==
  ASSUME ContentInv,
         UNCHANGED <<sent, applied, WQ, rReadPos, WritePos, entry>>,
         rpc' = "exec" <=> rpc = "exec"
  PROVE  ContentInv'
BY DEF ContentInv, Held, Dist

\* Rewriting the slot at WritePos touches no unread entry.
LEMMA ContentFill ==
  ASSUME TypeInv, ContentInv,
         UNCHANGED <<sent, applied, rReadPos, WritePos, entry, rpc>>,
         \A p \in Slots : p # WritePos => WQ'[p] = WQ[p]
  PROVE  ContentInv'
<1>1. ASSUME NEW p \in Slots, Dist(rReadPos, p) < Dist(rReadPos, WritePos)
      PROVE  WQ'[p] = sent[Len(applied) + Held + Dist(rReadPos, p) + 1]
  <2>1. p # WritePos
    <3>1. Dist(rReadPos, p) \in 0 .. Size - 1 BY DistOf DEF TypeInv, TypeOK
    <3> QED BY <1>1, <3>1, SizeAssumption
  <2> QED BY <1>1, <2>1 DEF ContentInv
<1>2. Held' = Held BY DEF Held
<1>3. /\ Dist(rReadPos, WritePos)' = Dist(rReadPos, WritePos)
      /\ \A p : Dist(rReadPos, p)' = Dist(rReadPos, p)
  BY DEF Dist
<1> QED BY <1>1, <1>2, <1>3 DEF ContentInv

LEMMA ContentStep ==
  TypeInv /\ ControlInv /\ CursorInv /\ ContentInv /\ [Next]_vars => ContentInv'
<1> SUFFICES ASSUME TypeInv, ControlInv, CursorInv, ContentInv, [Next]_vars
             PROVE  ContentInv'
  OBVIOUS
<1>s. /\ WritePos \in Slots /\ ReadPos \in Slots /\ TMP_ReadPos \in Slots
      /\ rWritePos \in Slots /\ rReadPos \in Slots /\ TMP_WritePos \in Slots
  BY DEF TypeInv, TypeOK
<1>q. sent \in Seq(Entry) /\ applied \in Seq(Entry) /\ WQ \in [Slots -> Entry]
  BY DEF TypeInv, TypeOK
<1>h. Held \in 0 .. 1 BY DEF Held
<1>d. \A a, b \in Slots : Dist(a, b) \in Nat /\ (Dist(a, b) = 0 <=> a = b)
  BY DistOf, SizeAssumption
<1>l. Len(sent) \in Nat /\ Len(applied) \in Nat BY <1>q
<1>e. Len(sent) = Len(applied) + Held + Dist(rReadPos, WritePos) BY DEF ContentInv
<1>r. Dist(rReadPos, WritePos) \in Nat /\ Held \in Nat BY <1>s, <1>d, <1>h
<1>1. ASSUME NEW c \in Kinds, NEW t \in Tails(c), WriteCommand(c, t) PROVE ContentInv'
  BY <1>1, <1>s, <1>q, ContentFill DEF WriteCommand, renderVars
<1>2. CASE WriteArg BY <1>2, <1>s, <1>q, ContentFill DEF WriteArg, renderVars
<1>3. CASE Commit
  <2>1. /\ WritePos' = Nxt(WritePos) /\ Nxt(WritePos) # ReadPos
        /\ sent' = Append(sent, WQ[WritePos])
        /\ UNCHANGED <<applied, WQ, rReadPos, entry, rpc>>
    BY <1>3 DEF Commit, CursorInv, shared, renderVars
  <2>2. /\ Len(sent') = Len(sent) + 1
        /\ sent'[Len(sent) + 1] = WQ[WritePos]
        /\ \A i \in 1 .. Len(sent) : sent'[i] = sent[i]
    BY <2>1, <1>s, <1>q
  <2>3. Dist(rReadPos, Nxt(WritePos)) = Dist(rReadPos, WritePos) + 1
    BY <2>1, <1>s, DistStretch, DistChain DEF CursorInv
  <2>4. Held' = Held BY <2>1 DEF Held
  <2>5. Len(sent') = Len(applied) + Held + Dist(rReadPos, WritePos')
    BY <2>1, <2>2, <2>3, <1>l, <1>e, <1>r
  <2>6. ASSUME NEW p \in Slots, Dist(rReadPos, p) < Dist(rReadPos, WritePos')
        PROVE  WQ[p] = sent'[Len(applied) + Held + Dist(rReadPos, p) + 1]
    <3> DEFINE k == Len(applied) + Held + Dist(rReadPos, p) + 1
    <3>1. CASE p = WritePos
      <4>1. k = Len(sent) + 1 BY <3>1 DEF ContentInv
      <4> QED BY <4>1, <2>2, <3>1
    <3>2. CASE p # WritePos
      <4>1. Dist(rReadPos, p) # Dist(rReadPos, WritePos)
        BY <3>2, <1>s, SizeAssumption DEF Dist, Slots
      <4>2. Dist(rReadPos, p) < Dist(rReadPos, WritePos)
        <5>1. Dist(rReadPos, p) \in Nat BY <1>s, <1>d
        <5>2. Dist(rReadPos, p) < Dist(rReadPos, WritePos) + 1 BY <2>1, <2>3, <2>6
        <5> QED BY <4>1, <5>1, <5>2, <1>r
      <4>3. WQ[p] = sent[k] BY <4>2 DEF ContentInv
      <4>4. k \in 1 .. Len(sent) 
        <5>1. Dist(rReadPos, p) \in Nat BY <1>s, <1>d
        <5> QED BY <4>2, <5>1, <1>l, <1>r, <1>e
      <4> QED BY <4>3, <4>4, <2>2
    <3> QED BY <3>1, <3>2
  <2>7. rpc = "exec" => entry = sent'[Len(applied) + 1]
    <3> SUFFICES ASSUME rpc = "exec" PROVE entry = sent'[Len(applied) + 1] OBVIOUS
    <3>1. Held = 1 BY DEF Held
    <3>2. Len(applied) + 1 \in 1 .. Len(sent)
      BY <3>1, <1>l, <1>r, <1>e
    <3> QED BY <3>2, <2>2 DEF ContentInv
  <2>8. \A i \in 1 .. Len(applied) : applied[i] = sent'[i]
    <3>1. \A i \in 1 .. Len(applied) : i \in 1 .. Len(sent)
      BY <1>l, <1>r, <1>e
    <3> QED BY <3>1, <2>2 DEF ContentInv
  <2>9. \A p : Dist(rReadPos, p)' = Dist(rReadPos, p') BY <2>1 DEF Dist
  <2> QED BY <2>1, <2>4, <2>5, <2>6, <2>7, <2>8, <2>9 DEF ContentInv
<1>4. CASE Sync BY <1>4, ContentFrame DEF Sync, shared, renderVars
<1>5. CASE Publish BY <1>5, ContentFrame DEF Publish, renderVars
<1>6. CASE Load BY <1>6, ContentFrame DEF Load, shared, renderVars
<1>7. CASE Post BY <1>7, ContentFrame DEF Post, renderVars
<1>8. CASE Wait BY <1>8, ContentFrame DEF Wait, renderVars
<1>9. CASE Reload BY <1>9, ContentFrame DEF Reload, shared, renderVars
<1>10. CASE Join BY <1>10, ContentFrame DEF Join, shared, renderVars
<1>11. CASE StoreReadPos BY <1>11, ContentFrame DEF StoreReadPos, mainVars
<1>12. CASE LoadWritePos BY <1>12, ContentFrame DEF LoadWritePos, shared, mainVars
<1>13. CASE PostIdle BY <1>13, ContentFrame DEF PostIdle, mainVars
<1>14. CASE TimedWait BY <1>14, ContentFrame DEF TimedWait, mainVars
<1>15. CASE Take
  <2>1. /\ rReadPos # rWritePos /\ rReadPos' = Nxt(rReadPos) /\ rpc' = "exec"
        /\ entry' = WQ[rReadPos] /\ rpc = "take"
        /\ UNCHANGED <<sent, applied, WQ, WritePos>>
    BY <1>15 DEF Take, CursorInv, shared, mainVars
  <2>2. rReadPos # WritePos BY <2>1, <1>s, <1>d DEF CursorInv
  <2>3. Held = 0 /\ Held' = 1 BY <2>1 DEF Held
  <2>4. \A p \in Slots : rReadPos # p => Dist(Nxt(rReadPos), p) = Dist(rReadPos, p) - 1
    BY <1>s, DistOf
  <2>5. Len(sent) = Len(applied) + 1 + Dist(Nxt(rReadPos), WritePos)
    BY <2>2, <2>3, <2>4, <1>s, <1>l, <1>r, <1>e
  <2>6. WQ[rReadPos] = sent[Len(applied) + 1]
    <3>1. Dist(rReadPos, rReadPos) = 0 /\ Dist(rReadPos, WritePos) > 0
      BY <2>2, <1>s, <1>d
    <3> QED BY <3>1, <2>3, <1>s, <1>l DEF ContentInv
  <2>7. ASSUME NEW p \in Slots, Dist(Nxt(rReadPos), p) < Dist(Nxt(rReadPos), WritePos)
        PROVE  WQ[p] = sent[Len(applied) + 1 + Dist(Nxt(rReadPos), p) + 1]
    <3>1. p # rReadPos
      <4> SUFFICES ASSUME p = rReadPos PROVE FALSE OBVIOUS
      <4>1. Dist(Nxt(rReadPos), rReadPos) = Size - 1 BY <1>s, NxtOf, DistFull
      <4>2. Dist(Nxt(rReadPos), WritePos) <= Size - 1
        BY <1>s, NxtOf, DistOf, SizeAssumption
      <4>3. Nxt(rReadPos) \in Slots BY <1>s, NxtOf
      <4> QED BY <4>1, <4>2, <4>3, <2>7, <1>s, <1>d, SizeAssumption
    <3>2. Dist(Nxt(rReadPos), p) = Dist(rReadPos, p) - 1 BY <3>1, <2>4
    <3>3. Dist(rReadPos, p) < Dist(rReadPos, WritePos)
      BY <3>2, <2>2, <2>4, <2>7, <1>s, <1>d
    <3>4. WQ[p] = sent[Len(applied) + Held + Dist(rReadPos, p) + 1]
      BY <3>3 DEF ContentInv
    <3>5. Len(applied) + Held + Dist(rReadPos, p) + 1
          = Len(applied) + 1 + Dist(Nxt(rReadPos), p) + 1
      <4>1. Dist(rReadPos, p) \in Nat BY <1>s, <1>d
      <4> QED BY <3>2, <4>1, <2>3, <1>l
    <3> QED BY <3>4, <3>5
  <2>8. \A p : Dist(rReadPos, p)' = Dist(Nxt(rReadPos), p') BY <2>1 DEF Dist
  <2> QED BY <2>1, <2>3, <2>5, <2>6, <2>7, <2>8 DEF ContentInv
<1>16. CASE Exec
  <2>1. /\ rpc = "exec" /\ rpc' # "exec" /\ applied' = Append(applied, entry)
        /\ UNCHANGED <<sent, WQ, WritePos, rReadPos, entry>>
    BY <1>16 DEF Exec, shared, mainVars
  <2>2. Held = 1 /\ Held' = 0 BY <2>1 DEF Held
  <2>3. entry \in Entry BY DEF TypeInv, TypeOK
  <2>4. /\ Len(applied') = Len(applied) + 1
        /\ applied'[Len(applied) + 1] = entry
        /\ \A i \in 1 .. Len(applied) : applied'[i] = applied[i]
    BY <2>1, <2>3, <1>q
  <2>5. \A p \in Slots : /\ Dist(rReadPos, p)' = Dist(rReadPos, p')
                         /\ Len(applied') + Held' + Dist(rReadPos, p)
                            = Len(applied) + Held + Dist(rReadPos, p)
    BY <2>1, <2>2, <2>4, <1>l, <1>d, <1>s DEF Dist
  <2>6. \A i \in 1 .. Len(applied') : applied'[i] = sent[i]
    BY <2>1, <2>4, <1>l DEF ContentInv
  <2>7. Dist(rReadPos, WritePos)' = Dist(rReadPos, WritePos) BY <2>1 DEF Dist
  <2> QED BY <2>1, <2>5, <2>6, <2>7, <1>s DEF ContentInv
<1>17. CASE UNCHANGED vars BY <1>17, ContentFrame DEF vars, shared, mainVars, renderVars
<1> QED
  BY <1>1, <1>2, <1>3, <1>4, <1>5, <1>6, <1>7, <1>8, <1>9, <1>10, <1>11, <1>12,
     <1>13, <1>14, <1>15, <1>16, <1>17
     DEF Next, Call, MainStep, RenderStep, Stopped

----------------------------------------------------------------------------
\* Only MTIF_Kill puts EXIT into the ring.
LEMMA TailsOfExit == Tails("exit") = {"exit"}
BY DEF Tails

\* Two sequences of the same length with the same elements are equal.
LEMMA SameSequence ==
  ASSUME NEW S, NEW s \in Seq(S), NEW t \in Seq(S), Len(s) = Len(t),
         \A i \in 1 .. Len(s) : s[i] = t[i]
  PROVE  s = t
BY SMT

LEMMA ExitStep ==
  TypeInv /\ CursorInv /\ ControlInv /\ ContentInv /\ ExitInv /\ [Next]_vars => ExitInv'
<1> SUFFICES ASSUME TypeInv, CursorInv, ControlInv, ContentInv, ExitInv, [Next]_vars
             PROVE  ExitInv'
  OBVIOUS
<1>w. WritePos \in Slots /\ WQ \in [Slots -> Entry] /\ sent \in Seq(Entry)
  BY DEF TypeInv, TypeOK
<1>t. mode \in Modes /\ tail \in {"none", "refresh", "wake", "exit"}
  BY DEF TypeInv, TypeOK
<1> USE DEF ExitInv, Filling
<1>1. ASSUME NEW c \in Kinds, NEW t \in Tails(c), WriteCommand(c, t) PROVE ExitInv'
  <2>1. mode # "exit" BY <1>1 DEF WriteCommand, ControlInv
  <2>2. WQ'[WritePos].Command = c BY <1>1, <1>w DEF WriteCommand, Entry
  <2>3. c = "exit" => t = "exit" BY TailsOfExit
  <2> QED BY <1>1, <2>1, <2>2, <2>3 DEF WriteCommand, renderVars
<1>2. CASE WriteArg
  <2>1. WQ'[WritePos].Command = WQ[WritePos].Command
    BY <1>2, <1>w DEF WriteArg, Entry
  <2>2. mode # "exit" BY <1>2 DEF WriteArg, ControlInv
  <2> QED BY <1>2, <2>1, <2>2 DEF WriteArg, renderVars
<1>3. CASE Commit
  <2>1. mode # "exit" BY <1>3 DEF Commit, ControlInv
  <2>2. WQ[WritePos].Command = "exit" => tail = "exit" BY <1>3 DEF Commit
  <2>3. /\ Len(sent') = Len(sent) + 1
        /\ sent'[Len(sent) + 1] = WQ[WritePos]
        /\ \A i \in 1 .. Len(sent) : sent'[i] = sent[i]
    BY <1>3, <1>w DEF Commit
  <2>4. \A i \in 1 .. Len(sent') : i = Len(sent') \/ i \in 1 .. Len(sent)
    BY <2>3, <1>w
  <2>5. mode' = tail /\ UNCHANGED <<rpc, Running, applied, tail>>
        /\ mpc' \notin {"arg", "commit"} /\ rpc # "exit"
    BY <1>3, <2>1 DEF Commit, shared, renderVars
  <2>6. \A i \in 1 .. Len(sent') :
          sent'[i].Command = "exit" => i = Len(sent') /\ mode' = "exit"
    BY <2>1, <2>2, <2>3, <2>4, <2>5
  <2> QED BY <2>5, <2>6, <1>t
<1>4. CASE Sync BY <1>4 DEF Sync, ControlInv, shared, renderVars
<1>5. CASE Publish BY <1>5 DEF Publish, renderVars
<1>6. CASE Load BY <1>6, <1>t, AfterOf DEF Load, ControlInv, shared, renderVars
<1>7. CASE Post BY <1>7, <1>t, AfterOf DEF Post, ControlInv, WaitUntilEmpty, renderVars
<1>8. CASE Wait BY <1>8 DEF Wait, renderVars
<1>9. CASE Reload BY <1>9, <1>t, AfterOf DEF Reload, ControlInv, shared, renderVars
<1>10. CASE Join BY <1>10 DEF Join, shared, renderVars
<1>11. CASE StoreReadPos BY <1>11 DEF StoreReadPos, mainVars
<1>12. CASE LoadWritePos BY <1>12 DEF LoadWritePos, shared, mainVars
<1>13. CASE PostIdle BY <1>13 DEF PostIdle, mainVars
<1>14. CASE TimedWait BY <1>14 DEF TimedWait, mainVars
<1>15. CASE Take BY <1>15 DEF Take, shared, mainVars
<1>16. CASE Exec
  <2>1. /\ rpc = "exec" /\ Running
        /\ UNCHANGED <<sent, WQ, WritePos, mpc, mode, tail>>
    BY <1>16 DEF Exec, shared, mainVars, TypeInv, TypeOK
  <2>2. Len(applied) \in Nat /\ Len(sent) \in Nat
        /\ applied \in Seq(Entry) /\ entry \in Entry
    BY DEF TypeInv, TypeOK
  <2>3. Held = 1 BY <2>1 DEF Held
  <2>4. /\ Dist(rReadPos, WritePos) \in Nat /\ Dist(rReadPos, TMP_WritePos) \in Nat
        /\ Dist(rReadPos, rWritePos) \in Nat
        /\ Dist(rReadPos, rWritePos) = 0 <=> rReadPos = rWritePos
    BY DistOf, SizeAssumption DEF TypeInv, TypeOK
  <2>5. Len(sent) = Len(applied) + 1 + Dist(rReadPos, WritePos)
    BY <2>3 DEF ContentInv
  <2>6. entry = sent[Len(applied) + 1] /\ \A i \in 1 .. Len(applied) : applied[i] = sent[i]
    BY <2>1 DEF ContentInv
  <2>7. CASE entry.Command # "exit"
    BY <1>16, <2>1, <2>7 DEF Exec
  <2>8. CASE entry.Command = "exit"
    <3>1. Len(applied) + 1 \in 1 .. Len(sent) BY <2>2, <2>4, <2>5
    <3>2. Len(applied) + 1 = Len(sent) /\ mode = "exit" BY <3>1, <2>6, <2>8
    <3>3. Dist(rReadPos, WritePos) = 0 BY <3>2, <2>2, <2>4, <2>5
    <3>4. Dist(rReadPos, rWritePos) = 0 BY <3>3, <2>4 DEF CursorInv
    <3>5. rpc' = "exit" /\ ~Running' /\ applied' = Append(applied, entry)
      BY <1>16, <2>4, <2>8, <3>4 DEF Exec
    <3>6. /\ Len(applied') = Len(sent) /\ applied' \in Seq(Entry)
          /\ \A i \in 1 .. Len(applied') : applied'[i] = sent[i]
      BY <3>5, <3>2, <2>2, <2>6
    <3>7. applied' = sent BY <3>6, <1>w, SameSequence
    <3> QED BY <2>1, <3>2, <3>5, <3>7
  <2> QED BY <2>7, <2>8
<1>17. CASE UNCHANGED vars BY <1>17 DEF vars, shared, mainVars, renderVars
<1> QED
  BY <1>1, <1>2, <1>3, <1>4, <1>5, <1>6, <1>7, <1>8, <1>9, <1>10, <1>11, <1>12,
     <1>13, <1>14, <1>15, <1>16, <1>17
     DEF Next, Call, MainStep, RenderStep, Stopped

----------------------------------------------------------------------------
LEMMA InvInit == Init => IInv
<1> SUFFICES ASSUME Init PROVE IInv OBVIOUS
<1>1. TypeInv BY TypeInit
<1>2. CursorInv BY SizeAssumption DEF Init, CursorInv, Dist
<1>3. ControlInv BY DEF Init, ControlInv, WaitUntilEmpty
<1>4. ContentInv
  <2>1. Dist(rReadPos, WritePos) = 0 /\ Held = 0 BY DEF Init, Dist, Held
  <2>2. \A p \in Slots : Dist(rReadPos, p) \in Nat
    BY DistOf, SizeAssumption, <1>1 DEF TypeInv, TypeOK
  <2> QED BY <2>1, <2>2 DEF Init, ContentInv
<1>5. ExitInv BY DEF Init, ExitInv, Filling
<1> QED BY <1>1, <1>2, <1>3, <1>4, <1>5 DEF IInv

LEMMA InvStep == IInv /\ [Next]_vars => IInv'
BY TypeStep, CursorStep, ControlStep, ContentStep, ExitStep DEF IInv

LEMMA Invariance == Spec => []IInv
BY InvInit, InvStep, PTL DEF Spec

\* When the emulation thread knows the queue empty, it is: nothing is unread,
\* and nothing is being executed.
LEMMA Drained ==
  ASSUME IInv, TMP_ReadPos = WritePos
  PROVE  applied = sent /\ rpc \notin {"take", "exec"}
<1>1. /\ WritePos \in Slots /\ TMP_ReadPos \in Slots /\ rReadPos \in Slots
      /\ TMP_WritePos \in Slots /\ rWritePos \in Slots
  BY DEF IInv, TypeInv, TypeOK
<1>2. \A a, b \in Slots : Dist(a, b) \in Nat /\ (Dist(a, b) = 0 <=> a = b)
  BY DistOf, SizeAssumption
<1>3. rReadPos = WritePos /\ rReadPos = TMP_ReadPos
  BY <1>1, <1>2 DEF IInv, CursorInv
<1>4. rReadPos = rWritePos BY <1>1, <1>2, <1>3 DEF IInv, CursorInv
<1>5. rpc \notin {"take", "exec"} BY <1>3, <1>4 DEF IInv, CursorInv
<1>6. Held = 0 /\ Dist(rReadPos, WritePos) = 0 BY <1>1, <1>2, <1>3, <1>5 DEF Held
<1>7. sent \in Seq(Entry) /\ applied \in Seq(Entry) BY DEF IInv, TypeInv, TypeOK
<1>8. Len(sent) = Len(applied) /\ \A i \in 1 .. Len(applied) : applied[i] = sent[i]
  BY <1>6, <1>7 DEF IInv, ContentInv
<1> QED BY <1>5, <1>7, <1>8, SameSequence

\* The render thread executes the commands issued, in order, each once, with
\* both their bytes.
THEOREM InOrder == Spec => []AppliedInOrder
<1>1. IInv => AppliedInOrder
  <2> SUFFICES ASSUME IInv PROVE AppliedInOrder OBVIOUS
  <2>0. WritePos \in Slots /\ rReadPos \in Slots
    BY DEF IInv, TypeInv, TypeOK
  <2>1. Dist(rReadPos, WritePos) \in Nat /\ Held \in Nat
        /\ Len(sent) \in Nat /\ Len(applied) \in Nat
    <3>1. Dist(rReadPos, WritePos) \in Nat BY <2>0, DistOf, SizeAssumption
    <3>2. Len(sent) \in Nat /\ Len(applied) \in Nat BY DEF IInv, TypeInv, TypeOK
    <3> QED BY <3>1, <3>2 DEF Held
  <2>2. Len(sent) = Len(applied) + Held + Dist(rReadPos, WritePos)
    BY DEF IInv, ContentInv
  <2> QED BY <2>1, <2>2 DEF IInv, ContentInv, AppliedInOrder
<1> QED BY <1>1, Invariance, PTL

\* PPU_SyncMT returns only to a drained queue and an idle renderer.
THEOREM SyncIsABarrier == Spec => []SyncDrains
<1>1. IInv => SyncDrains
  <2> SUFFICES ASSUME IInv, mpc = "idle", mode = "sync"
               PROVE  applied = sent /\ rpc \notin {"take", "exec"}
    BY DEF SyncDrains
  <2>1. ReadPos = WritePos BY DEF IInv, ControlInv
  <2>2. WritePos \in Slots /\ TMP_ReadPos \in Slots BY DEF IInv, TypeInv, TypeOK
  <2>3. \A a, b \in Slots : Dist(a, b) \in Nat /\ (Dist(a, b) = 0 <=> a = b)
    BY DistOf, SizeAssumption
  <2>4. TMP_ReadPos = WritePos BY <2>1, <2>2, <2>3 DEF IInv, CursorInv
  <2> QED BY <2>4, Drained
<1> QED BY <1>1, Invariance, PTL

\* MTIF_Kill joins a thread that has executed everything.
THEOREM KillIsClean == Spec => []ExitDrains
<1>1. IInv => ExitDrains BY DEF IInv, ExitInv, ControlInv, ExitDrains
<1> QED BY <1>1, Invariance, PTL

\* No entry is stored to while it is read.
THEOREM RaceFree == Spec => []NoRace
<1>1. IInv => NoRace
  <2> SUFFICES ASSUME IInv, rpc = "take" PROVE rReadPos # WritePos
    BY DEF NoRace
  <2>1. /\ WritePos \in Slots /\ rReadPos \in Slots
        /\ TMP_WritePos \in Slots /\ rWritePos \in Slots
    BY DEF IInv, TypeInv, TypeOK
  <2>2. \A a, b \in Slots : Dist(a, b) \in Nat /\ (Dist(a, b) = 0 <=> a = b)
    BY DistOf, SizeAssumption
  <2> QED BY <2>1, <2>2 DEF IInv, CursorInv
<1> QED BY <1>1, Invariance, PTL

----------------------------------------------------------------------------
(* The queue implements the channel.                                       *)

LEMMA CallerOf ==
  /\ \A m : CallerAt("gone", m) = "gone"
  /\ \A p : p # "gone" => CallerAt(p, "exit") = "killing"
  /\ CallerAt("idle", "sync") = "synced"
  /\ \A p : p \notin {"idle", "gone"} => CallerAt(p, "sync") = "syncing"
  /\ \A p, m : p # "gone" /\ m \notin {"exit", "sync"} => CallerAt(p, m) = "running"
BY DEF CallerAt

LEMMA StepImplements == IInv /\ [Next]_vars => [Channel!ChanNext]_(Channel!chanVars)
<1> SUFFICES ASSUME IInv, [Next]_vars PROVE [Channel!ChanNext]_(Channel!chanVars)
  OBVIOUS
<1>t. /\ mode \in Modes /\ tail \in {"none", "refresh", "wake", "exit"}
      /\ sent \in Seq(Entry) /\ applied \in Seq(Entry)
  BY DEF IInv, TypeInv, TypeOK
<1>c. ControlInv BY DEF IInv
<1>p. caller = CallerAt(mpc, mode) /\ caller' = CallerAt(mpc', mode') BY DEF caller
<1> USE <1>p, CallerOf DEF Channel!ChanNext, Channel!chanVars
<1>1. ASSUME NEW c \in Kinds, NEW t \in Tails(c), WriteCommand(c, t)
      PROVE  [Channel!ChanNext]_(Channel!chanVars)
  <2>1. mpc = "idle" /\ mpc' = "arg" /\ mode' = "none" /\ UNCHANGED <<sent, applied>>
    BY <1>1 DEF WriteCommand, renderVars
  <2>2. caller \in {"running", "synced"} /\ caller' = "running"
    BY <2>1, <1>t, <1>c DEF ControlInv, Modes
  <2> QED BY <2>1, <2>2 DEF Channel!Resume
<1>2. CASE WriteArg
  <2>1. mode = "none" BY <1>2, <1>t, <1>c DEF WriteArg, ControlInv, Modes
  <2>2. caller = "running" /\ caller' = "running"
    BY <1>2, <2>1 DEF WriteArg
  <2> QED BY <1>2, <2>2 DEF WriteArg, renderVars
<1>3. CASE Commit
  <2>1. mode \in {"none", "full"} /\ mpc = "commit"
    BY <1>3, <1>t, <1>c DEF Commit, ControlInv, Modes
  <2>2. caller = "running" BY <2>1
  <2>3. /\ sent' = Append(sent, WQ[WritePos]) /\ UNCHANGED applied
        /\ mode' = tail /\ mpc' \in {"idle", "publish"}
    BY <1>3 DEF Commit, renderVars
  <2>4. WQ[WritePos] \in Entry BY DEF IInv, TypeInv, TypeOK
  <2>5. CASE tail = "exit"
    <3>1. caller' = "killing" BY <2>3, <2>5
    <3> QED BY <2>2, <2>3, <2>4, <3>1 DEF Channel!KillCall
  <2>6. CASE tail # "exit"
    <3>1. caller' = "running" BY <2>3, <2>6, <1>t
    <3> QED BY <2>2, <2>3, <2>4, <3>1 DEF Channel!Issue
  <2> QED BY <2>5, <2>6
<1>4. CASE Sync
  <2>1. caller \in {"running", "synced"} BY <1>4, <1>t, <1>c DEF Sync, ControlInv, Modes
  <2>2. caller' = "syncing" /\ UNCHANGED <<sent, applied>>
    BY <1>4 DEF Sync, renderVars
  <2> QED BY <2>1, <2>2 DEF Channel!SyncCall
<1>w. ASSUME TMP_ReadPos = WritePos, mpc \in {"load", "reload"}, mpc' = After(mode),
             UNCHANGED <<mode, sent, applied>>
      PROVE  [Channel!ChanNext]_(Channel!chanVars)
  <2>1. applied = sent BY <1>w, Drained
  <2>2. CASE mode = "sync"
    <3>1. caller = "syncing" /\ caller' = "synced" BY <1>w, <2>2, AfterOf, <1>t
    <3> QED BY <3>1, <2>1, <1>w DEF Channel!SyncReturn
  <2>3. CASE mode = "exit"
    <3>1. caller = "killing" /\ caller' = "killing" BY <1>w, <2>3, AfterOf
    <3> QED BY <3>1, <1>w
  <2>4. CASE mode \notin {"sync", "exit"}
    <3>1. After(mode) # "gone" BY <1>t, <2>4, AfterOf
    <3>2. caller = "running" /\ caller' = "running" BY <1>w, <2>4, <3>1
    <3> QED BY <3>2, <1>w
  <2> QED BY <2>2, <2>3, <2>4
<1>v. ASSUME mpc' \notin {"idle", "gone"}, mpc \notin {"idle", "gone"},
             UNCHANGED <<mode, sent, applied>>
      PROVE  [Channel!ChanNext]_(Channel!chanVars)
  <2>1. caller' = caller BY <1>v, <1>t DEF Modes
  <2> QED BY <2>1, <1>v
<1>5. CASE Publish BY <1>5, <1>v DEF Publish, renderVars
<1>6. CASE Load
  <2>1. UNCHANGED <<mode, sent, applied>> /\ mpc = "load"
    BY <1>6 DEF Load, renderVars
  <2>2. CASE TMP_ReadPos = WritePos BY <1>6, <2>1, <2>2, <1>w DEF Load
  <2>3. CASE TMP_ReadPos # WritePos /\ mode # "refresh"
    BY <1>6, <2>1, <2>3, <1>v DEF Load
  <2>4. CASE mode = "refresh"
    <3>1. mpc' = "idle" BY <1>6, <2>4, AfterOf DEF Load, Modes
    <3>2. caller = "running" /\ caller' = "running" BY <2>1, <2>4, <3>1
    <3> QED BY <2>1, <3>2
  <2> QED BY <2>2, <2>3, <2>4
<1>7. CASE Post
  <2>1. UNCHANGED <<mode, sent, applied>> /\ mpc = "post"
    BY <1>7 DEF Post, renderVars
  <2>2. CASE mode \in WaitUntilEmpty BY <1>7, <2>1, <2>2, <1>v DEF Post
  <2>3. CASE mode = "exit"
    <3>1. mpc' = "join" BY <1>7, <2>3, AfterOf DEF Post, WaitUntilEmpty
    <3> QED BY <3>1, <2>1, <1>v
  <2>4. CASE mode \notin WaitUntilEmpty /\ mode # "exit"
    <3>1. mode # "sync" /\ mode # "full" BY <2>4 DEF WaitUntilEmpty
    <3>2. mpc' = "idle" BY <1>7, <2>4, <3>1, <1>t, AfterOf DEF Post
    <3>3. caller = "running" /\ caller' = "running" BY <2>1, <2>4, <3>1, <3>2
    <3> QED BY <2>1, <3>3
  <2> QED BY <2>2, <2>3, <2>4
<1>8. CASE Wait BY <1>8, <1>v DEF Wait, renderVars
<1>9. CASE Reload
  <2>1. UNCHANGED <<mode, sent, applied>> /\ mpc = "reload"
    BY <1>9 DEF Reload, renderVars
  <2>2. CASE TMP_ReadPos = WritePos BY <1>9, <2>1, <2>2, <1>w DEF Reload
  <2>3. CASE TMP_ReadPos # WritePos BY <1>9, <2>1, <2>3, <1>v DEF Reload
  <2> QED BY <2>2, <2>3
<1>10. CASE Join
  <2>1. mpc = "join" /\ mpc' = "gone" /\ rpc = "exit" /\ UNCHANGED <<sent, applied>>
    BY <1>10 DEF Join, renderVars
  <2>2. mode = "exit" BY <2>1, <1>t, <1>c DEF ControlInv, Modes
  <2>3. caller = "killing" /\ caller' = "gone" BY <2>1, <2>2
  <2>4. applied = sent BY <2>1 DEF IInv, ExitInv
  <2> QED BY <2>1, <2>3, <2>4 DEF Channel!Joined
<1>11. CASE StoreReadPos BY <1>11 DEF StoreReadPos, mainVars
<1>12. CASE LoadWritePos BY <1>12 DEF LoadWritePos, mainVars
<1>13. CASE PostIdle BY <1>13 DEF PostIdle, mainVars
<1>14. CASE TimedWait BY <1>14 DEF TimedWait, mainVars
<1>15. CASE Take BY <1>15 DEF Take, mainVars
<1>16. CASE Exec
  <2>1. /\ rpc = "exec" /\ applied' = Append(applied, entry)
        /\ UNCHANGED <<sent, mpc, mode>>
    BY <1>16 DEF Exec, mainVars
  <2>2. Held = 1 BY <2>1 DEF Held
  <2>3. WritePos \in Slots /\ rReadPos \in Slots BY DEF IInv, TypeInv, TypeOK
  <2>4. Dist(rReadPos, WritePos) \in Nat BY <2>3, DistOf, SizeAssumption
  <2>5. Len(applied) \in Nat /\ Len(sent) \in Nat BY <1>t
  <2>6. Len(applied) < Len(sent) BY <2>2, <2>4, <2>5 DEF IInv, ContentInv
  <2>7. entry = sent[Len(applied) + 1] BY <2>1 DEF IInv, ContentInv
  <2> QED BY <2>1, <2>6, <2>7 DEF Channel!Apply
<1>17. CASE UNCHANGED vars BY <1>17 DEF vars, mainVars, renderVars
<1> QED
  BY <1>1, <1>2, <1>3, <1>4, <1>5, <1>6, <1>7, <1>8, <1>9, <1>10, <1>11, <1>12,
     <1>13, <1>14, <1>15, <1>16, <1>17
     DEF Next, Call, MainStep, RenderStep, Stopped

\* The ring, its two pairs of cursors and its semaphores implement the
\* unbounded channel: every step is a channel step or none.
THEOREM QueueImplementsChannel == Spec => ImplementsChannel
<1>1. Init => Channel!ChanInit
  BY CallerOf DEF Init, Channel!ChanInit, caller
<1> QED BY <1>1, Invariance, StepImplements, PTL
        DEF Spec, ImplementsChannel, Channel!ChanSpec
============================================================================
