------------------------- MODULE StreamReaderProofs -------------------------
(***************************************************************************)
(* For every set of streams, ring size and caller: the two semaphores of   *)
(* MTStreamReader carry exactly one token, so the consumer and the reader  *)
(* thread are never both entitled to pending_*, write_pos and the cells    *)
(* being filled; and every byte that get_buffer hands out is the stream's. *)
(***************************************************************************)
EXTENDS StreamReader, SequenceTheorems, TLAPS

\* OneToken with what it needs of the types.
TokenInv ==
  command_sem \in Nat /\ ack_sem \in Nat /\ pending_command \in Commands /\ OneToken

LEMMA TokenInit == Init => TokenInv
BY DEF Init, TokenInv, OneToken, Units, Holding, Busy, Commands

\* Taking a unit of ack_sem turns a waiting consumer into a holding one.
LEMMA TokenAwait ==
  ASSUME TokenInv, NEW from \in {"setActiveWait", "syncWait", "nextWait", "exitWait"},
         NEW to \in {"setActiveSend", "syncSend", "nextSend", "exitSend"},
         AwaitAck(from, to)
  PROVE  TokenInv'
BY DEF TokenInv, OneToken, Units, Holding, Busy, AwaitAck, pendingVars, threadVars

\* Posting command_sem hands it over.
LEMMA TokenSend ==
  ASSUME TokenInv, NEW from \in {"setActiveSend", "syncSend", "nextSend", "exitSend"},
         NEW command \in Commands, NEW to \in {"ready", "using", "join"}, Send(from, command, to)
  PROVE  TokenInv'
BY DEF TokenInv, OneToken, Units, Holding, Busy, Send, threadVars

\* A step that leaves the semaphores and the holders alone.
LEMMA TokenFrame ==
  ASSUME TokenInv, UNCHANGED <<command_sem, ack_sem, pending_command>>,
         Holding' <=> Holding, Busy' <=> Busy
  PROVE  TokenInv'
BY DEF TokenInv, OneToken, Units

LEMMA TokenConsumer ==
  ASSUME TokenInv, ConsumerCall \/ ConsumerStep
  PROVE  TokenInv'
<1>1. CASE SetActiveCall
  BY <1>1, TokenFrame DEF SetActiveCall, pendingVars, Holding, Busy, threadVars
<1>2. CASE CleanupCall
  BY <1>2, TokenFrame DEF CleanupCall, pendingVars, Holding, Busy, threadVars
<1>3. ASSUME NEW n \in 1 .. Overbuffer_Count, GetCall(n) PROVE TokenInv'
  BY <1>3, TokenFrame DEF GetCall, pendingVars, Holding, Busy, threadVars
<1>4. CASE AwaitAck("setActiveWait", "setActiveSend") BY <1>4, TokenAwait
<1>5. CASE AwaitAck("syncWait", "syncSend") BY <1>5, TokenAwait
<1>6. CASE AwaitAck("nextWait", "nextSend") BY <1>6, TokenAwait
<1>7. CASE AwaitAck("exitWait", "exitSend") BY <1>7, TokenAwait
<1>8. ASSUME NEW w \in Which, NEW skip \in Skips, NEW pzb \in Pzbs,
             SetActiveSend(w, skip, pzb)
      PROVE  TokenInv'
  BY <1>8, TokenSend DEF SetActiveSend, Commands
<1>9. CASE GetSend BY <1>9, TokenSend DEF GetSend, Commands
<1>10. CASE AdvanceSend BY <1>10, TokenSend DEF AdvanceSend, Commands
<1>11. CASE CleanupSend BY <1>11, TokenSend DEF CleanupSend, Commands
<1>12. CASE Join BY <1>12, TokenFrame DEF Join, pendingVars, Holding, Busy, threadVars
<1>13. ASSUME NEW n \in 1 .. count, Advance(n) PROVE TokenInv'
  BY <1>13, TokenFrame DEF Advance, pendingVars, Holding, Busy, threadVars
<1> QED
  BY <1>1, <1>2, <1>3, <1>4, <1>5, <1>6, <1>7, <1>8, <1>9, <1>10, <1>11, <1>12, <1>13
     DEF ConsumerCall, ConsumerStep

LEMMA TokenThread ==
  ASSUME TokenInv, ThreadStep
  PROVE  TokenInv'
<1>1. CASE Dispatch
  <2>1. /\ tpc = "wait" /\ command_sem > 0 /\ command_sem' = command_sem - 1
        /\ UNCHANGED <<ack_sem, cpc>>
    BY <1>1 DEF Dispatch, consumerVars
  <2>2. pending_command' = pending_command /\ pending_command \in Commands
    BY <1>1 DEF Dispatch, pendingVars, TokenInv
  <2>3. tpc' \in {"lastAck", "ack", "read"} BY <1>1, <2>2 DEF Dispatch, Commands
  <2> QED BY <2>1, <2>2, <2>3 DEF TokenInv, OneToken, Units, Holding, Busy
<1>2. CASE ReadPiece
  BY <1>2, TokenFrame DEF ReadPiece, pendingVars, Holding, Busy, consumerVars
<1>3. CASE ReadSilence
  BY <1>3, TokenFrame DEF ReadSilence, pendingVars, Holding, Busy, consumerVars
<1>4. CASE ReadDone
  BY <1>4, TokenFrame DEF ReadDone, pendingVars, Holding, Busy, consumerVars
<1>5. CASE Ack
  BY <1>5 DEF TokenInv, OneToken, Units, Holding, Busy, Ack, pendingVars, consumerVars
<1> QED BY <1>1, <1>2, <1>3, <1>4, <1>5 DEF ThreadStep

LEMMA TokenStep == TokenInv /\ [Next]_vars => TokenInv'
<1> SUFFICES ASSUME TokenInv, [Next]_vars PROVE TokenInv' OBVIOUS
<1>1. CASE ConsumerCall \/ ConsumerStep BY <1>1, TokenConsumer
<1>2. CASE ThreadStep BY <1>2, TokenThread
<1>3. CASE UNCHANGED vars
  BY <1>3, TokenFrame DEF vars, consumerVars, threadVars, pendingVars, Holding, Busy
<1> QED BY <1>1, <1>2, <1>3 DEF Next, Stopped

\* There is one token: two commands are never in flight, and the consumer
\* never writes pending_* or write_pos while the thread works on them.
THEOREM TokenIsUnique == Spec => []OneToken
<1>1. TokenInv => OneToken BY DEF TokenInv
<1> QED BY <1>1, TokenInit, TokenStep, PTL DEF Spec

----------------------------------------------------------------------------
(* Arithmetic of the ring and of a loop.                                   *)

LEMMA Division ==
  ASSUME NEW a \in Int, NEW d \in Nat \ {0}
  PROVE  /\ a \div d \in Int /\ a % d \in 0 .. d - 1
         /\ a = d * (a \div d) + (a % d)
OBVIOUS

LEMMA Quotient ==
  ASSUME NEW a \in Int, NEW d \in Nat \ {0}, NEW q \in Int, NEW r \in 0 .. d - 1, a = d * q + r
  PROVE  a \div d = q /\ a % d = r
OBVIOUS

\* Going on by j goes on in the same turn, or in the next one.
LEMMA Further ==
  ASSUME NEW a \in Int, NEW d \in Nat \ {0}, NEW j \in 0 .. d
  PROVE  /\ (a % d) + j < d => (a + j) % d = (a % d) + j /\ (a + j) \div d = a \div d
         /\ (a % d) + j >= d => (a + j) % d = (a % d) + j - d /\ (a + j) \div d = (a \div d) + 1
<1> DEFINE q == a \div d
           r == a % d
<1>1. q \in Int /\ r \in 0 .. d - 1 /\ a = d * q + r BY Division
<1> HIDE DEF q, r
<1>2. r + j < d => (a + j) % d = r + j /\ (a + j) \div d = q
  <2>1. a + j = d * q + (r + j) BY <1>1
  <2> QED BY <1>1, <2>1, Quotient
<1>3. r + j >= d => (a + j) % d = r + j - d /\ (a + j) \div d = q + 1
  <2>1. a + j = d * (q + 1) + (r + j - d) BY <1>1
  <2> QED BY <1>1, <2>1, Quotient
<1> QED BY <1>2, <1>3 DEF q, r

LEMMA Geometry ==
  /\ Buffer_Size \in Nat \ {0} /\ Chunk_Size \in Nat \ {0} /\ Overbuffer_Count \in Nat \ {0}
  /\ Buffer_Size = 4 * Chunk_Size /\ Overbuffer_Count <= Chunk_Size
  /\ Ring \subseteq Cells
BY BufferAssumption DEF Ring, Cells

\* Bytes that follow each other lie in cells that do, round the end.
LEMMA Follows ==
  ASSUME NEW l \in Nat, NEW j \in 0 .. Buffer_Size
  PROVE  /\ Masked(l) \in Ring
         /\ Masked(l) + j < Buffer_Size => Masked(l + j) = Masked(l) + j
         /\ Masked(l) + j >= Buffer_Size => Masked(l + j) = Masked(l) + j - Buffer_Size
<1>1. Masked(l) \in Ring BY Geometry, Division DEF Masked, Ring
<1>2. l \in Int /\ Buffer_Size \in Nat \ {0} BY Geometry
<1>3. /\ Masked(l) + j < Buffer_Size => Masked(l + j) = Masked(l) + j
      /\ Masked(l) + j >= Buffer_Size => Masked(l + j) = Masked(l) + j - Buffer_Size
  BY <1>2, Further DEF Masked
<1> QED BY <1>1, <1>3

\* Less than a buffer apart, never in the same cell.
LEMMA Apart ==
  ASSUME NEW l \in Nat, NEW m \in Nat, l < m, m < l + Buffer_Size
  PROVE  Masked(l) # Masked(m)
<1>1. m - l \in 0 .. Buffer_Size /\ l + (m - l) = m BY Geometry
<1>2. \/ Masked(m) = Masked(l) + (m - l) \/ Masked(m) = Masked(l) + (m - l) - Buffer_Size
  <2>1. Masked(l) \in Ring /\ Masked(l) + (m - l) \in Int BY <1>1, Follows, Geometry DEF Ring
  <2> QED BY <1>1, <2>1, Follows, Geometry
<1>3. Masked(l) \in Int BY <1>1, Follows, Geometry DEF Ring
<1> QED BY <1>2, <1>3, Geometry

\* zero_into_buffer's cells are those of the n bytes from p on.
LEMMA ZeroedCells ==
  ASSUME NEW p \in Nat, NEW n \in 0 .. Buffer_Size, NEW l \in Nat
  PROVE  /\ p <= l /\ l < p + n => (Masked(l) - Masked(p)) % Buffer_Size < n
         /\ p + n <= l + Buffer_Size /\ l < p => ~((Masked(l) - Masked(p)) % Buffer_Size < n)
<1>1. ASSUME NEW j \in 0 .. Buffer_Size - 1
      PROVE  (Masked(p + j) - Masked(p)) % Buffer_Size = j
  <2>1. /\ Masked(p) \in Int
        /\ \/ Masked(p + j) = Masked(p) + j
           \/ Masked(p + j) = Masked(p) + j - Buffer_Size
    <3>1. j \in 0 .. Buffer_Size BY Geometry
    <3>2. Masked(p) \in Ring BY <3>1, Follows
    <3>3. Masked(p) \in Int BY <3>2, Geometry DEF Ring
    <3> QED BY <3>1, <3>3, Follows, Geometry
  <2>2. \/ Masked(p + j) - Masked(p) = Buffer_Size * 0 + j
        \/ Masked(p + j) - Masked(p) = Buffer_Size * (-1) + j
    BY <2>1, Geometry
  <2>3. Masked(p + j) - Masked(p) \in Int BY <2>2, Geometry
  <2>4. /\ Buffer_Size \in Nat \ {0} /\ j \in 0 .. Buffer_Size - 1 /\ 0 \in Int /\ -1 \in Int
    BY Geometry
  <2>5. CASE Masked(p + j) - Masked(p) = Buffer_Size * 0 + j
    BY <2>3, <2>4, <2>5, Quotient
  <2>6. CASE Masked(p + j) - Masked(p) = Buffer_Size * (-1) + j
    BY <2>3, <2>4, <2>6, Quotient
  <2> QED BY <2>2, <2>5, <2>6
<1>2. ASSUME p <= l, l < p + n
      PROVE  (Masked(l) - Masked(p)) % Buffer_Size < n
  <2>1. l - p \in 0 .. Buffer_Size - 1 /\ p + (l - p) = l BY <1>2, Geometry
  <2>2. (Masked(l) - Masked(p)) % Buffer_Size = l - p BY <1>1, <2>1
  <2> QED BY <1>2, <2>2
<1>3. ASSUME p + n <= l + Buffer_Size, l < p
      PROVE  ~((Masked(l) - Masked(p)) % Buffer_Size < n)
  <2>1. /\ l + Buffer_Size - p \in 0 .. Buffer_Size - 1
        /\ p + (l + Buffer_Size - p) = l + Buffer_Size
    BY <1>3, Geometry
  <2>2. Masked(l + Buffer_Size) = Masked(l)
    BY Follows, Geometry DEF Ring
  <2>3. (Masked(l) - Masked(p)) % Buffer_Size = l + Buffer_Size - p BY <1>1, <2>1, <2>2
  <2> QED BY <1>3, <2>3, Geometry
<1> QED BY <1>2, <1>3

LEMMA StreamTypes ==
  ASSUME NEW w \in Which
  PROVE  Size(w) \in Nat /\ LoopPos(w) \in Nat /\ LoopPos(w) <= Size(w)
<1>1. Streams[w] \in [size : Nat, loop_pos : Nat]
  <2>1. Len(Streams) \in Nat /\ w \in 1 .. Len(Streams) BY StreamsAssumption DEF Which
  <2> QED BY <2>1, StreamsAssumption, ElementOfSeq
<1> QED BY <1>1, StreamsAssumption DEF Which, Size, LoopPos

\* SetActive starts within the stream, and past its end only if it has no loop.
LEMMA StartsWithin ==
  ASSUME NEW w \in Which, NEW k \in Nat
  PROVE  /\ StartPos(w, k) \in 0 .. Size(w)
         /\ LoopPos(w) < Size(w) => StartPos(w, k) < Size(w)
<1>1. Size(w) \in Nat /\ LoopPos(w) \in Nat /\ LoopPos(w) <= Size(w) BY StreamTypes
<1>2. CASE k < Size(w) BY <1>1, <1>2 DEF StartPos
<1>3. CASE ~(k < Size(w)) /\ LoopPos(w) = Size(w) BY <1>1, <1>3 DEF StartPos
<1>4. CASE ~(k < Size(w)) /\ LoopPos(w) # Size(w)
  <2>1. Size(w) - LoopPos(w) \in Nat \ {0} /\ k - LoopPos(w) \in Int BY <1>1, <1>4
  <2>2. (k - LoopPos(w)) % (Size(w) - LoopPos(w)) \in 0 .. Size(w) - LoopPos(w) - 1
    BY <2>1, Division
  <2> QED BY <1>1, <1>4, <2>2 DEF StartPos
<1> QED BY <1>2, <1>3, <1>4

\* Reading on from a place is starting that much further.
LEMMA ReadsOn ==
  ASSUME NEW w \in Which, NEW k \in Nat, NEW j \in Nat
  PROVE  /\ StartPos(w, k) = Size(w) => StartPos(w, k + j) = Size(w)
         /\ StartPos(w, k) # Size(w) /\ StartPos(w, k) + j <= Size(w) =>
               StartPos(w, k + j) = IF StartPos(w, k) + j = Size(w) THEN LoopPos(w)
                                    ELSE StartPos(w, k) + j
<1> DEFINE S == Size(w)
           L == LoopPos(w)
           P(x) == StartPos(w, x)
           Goal == /\ P(k) = S => P(k + j) = S
                   /\ P(k) # S /\ P(k) + j <= S => P(k + j) = IF P(k) + j = S THEN L ELSE P(k) + j
<1>1. S \in Nat /\ L \in Nat /\ L <= S BY StreamTypes
<1>2. \A x \in Nat : P(x) = IF x < S THEN x ELSE IF L = S THEN S ELSE L + ((x - L) % (S - L))
  BY DEF StartPos
<1>0. k + j \in Nat OBVIOUS
<1> SUFFICES Goal OBVIOUS
<1> HIDE DEF S, L, P
<1>3. CASE k < S
  <2>1. P(k) = k BY <1>2, <1>3
  <2>2. CASE k + j < S
    <3>1. P(k + j) = k + j BY <1>0, <1>2, <2>2
    <3> QED BY <1>1, <1>3, <2>1, <2>2, <3>1
  <2>3. CASE k + j = S /\ L = S
    <3>1. P(k + j) = S BY <1>0, <1>2, <2>3
    <3> QED BY <1>3, <2>1, <2>3, <3>1
  <2>4. CASE k + j = S /\ L # S
    <3>1. S - L \in Nat \ {0} /\ S - L = (S - L) * 1 + 0 BY <1>1, <2>4
    <3>2. (S - L) % (S - L) = 0 BY <3>1, Quotient
    <3>3. P(k + j) = L + 0 BY <1>0, <1>1, <1>2, <2>4, <3>2
    <3> QED BY <1>1, <1>3, <2>1, <2>4, <3>3
  <2>5. CASE k + j > S BY <1>1, <1>3, <2>1, <2>5
  <2> QED BY <1>1, <2>2, <2>3, <2>4, <2>5
<1>4. CASE ~(k < S) /\ L = S
  <2>1. ~(k + j < S) BY <1>1, <1>4
  <2>2. P(k) = S /\ P(k + j) = S BY <1>0, <1>2, <1>4, <2>1
  <2> QED BY <2>2
<1>5. CASE ~(k < S) /\ L # S
  <2> DEFINE d == S - L
             r == (k - L) % d
  <2>1. d \in Nat \ {0} /\ k - L \in Int BY <1>1, <1>5
  <2>2. r \in 0 .. d - 1 BY <2>1, Division
  <2>3. P(k) = L + r BY <1>2, <1>5
  <2>4. P(k + j) = L + ((k - L + j) % d)
    <3>1. ~(k + j < S) /\ (k + j) - L = k - L + j BY <1>1, <1>5
    <3>2. P(k + j) = L + (((k + j) - L) % (S - L)) BY <1>0, <1>2, <1>5, <3>1
    <3> QED BY <3>1, <3>2
  <2>5. S = L + d BY <1>1
  <2> HIDE DEF d
  <2>6. /\ j \in 0 .. d /\ r + j < d => (k - L + j) % d = r + j
        /\ j \in 0 .. d /\ r + j >= d => (k - L + j) % d = r + j - d
    BY <2>1, Further
  <2> HIDE DEF r
  <2>7. CASE r + j < d
    <3>1. j \in 0 .. d BY <2>1, <2>2, <2>7
    <3>2. P(k + j) = L + (r + j) BY <2>4, <2>6, <2>7, <3>1
    <3> QED BY <1>1, <2>1, <2>2, <2>3, <2>5, <2>7, <3>2
  <2>8. CASE r + j = d
    <3>1. j \in 0 .. d BY <2>1, <2>2, <2>8
    <3>2. P(k + j) = L + (r + j - d) BY <2>1, <2>2, <2>4, <2>6, <2>8, <3>1
    <3>3. P(k + j) = L BY <1>1, <2>1, <2>2, <2>8, <3>2
    <3> QED BY <1>1, <2>1, <2>2, <2>3, <2>5, <2>8, <3>3
  <2>9. CASE r + j > d BY <1>1, <2>1, <2>2, <2>3, <2>5, <2>9
  <2> QED BY <2>1, <2>2, <2>7, <2>8, <2>9
<1> QED BY <1>3, <1>4, <1>5

\* What the caller must find, by where reading stands.
PosAt(l) == StartPos(pending_which, pending_skip + (l - pending_pzb))
LEMMA ExpectedThere ==
  ASSUME pending_which \in Which, pending_skip \in Nat, pending_pzb \in Nat, NEW l \in Nat
  PROVE  Expected(l) = IF l < pending_pzb \/ PosAt(l) = Size(pending_which) THEN Zero
                       ELSE Byte(pending_which, PosAt(l))
<1> DEFINE w == pending_which
           S == Size(w)
           L == LoopPos(w)
           o == pending_skip + l - pending_pzb
<1>1. S \in Nat /\ L \in Nat /\ L <= S BY StreamTypes
<1>2. o \in Int /\ o = pending_skip + (l - pending_pzb) OBVIOUS
<1>3. CASE l < pending_pzb BY <1>3 DEF Expected
<1>4. CASE l >= pending_pzb /\ o < S
  <2>1. PosAt(l) = o BY <1>2, <1>4 DEF PosAt, StartPos
  <2>2. Expected(l) = Byte(w, o) BY <1>1, <1>2, <1>4 DEF Expected
  <2> QED BY <1>1, <1>2, <1>4, <2>1, <2>2
<1>5. CASE l >= pending_pzb /\ ~(o < S) /\ L = S
  <2>1. PosAt(l) = S BY <1>2, <1>5 DEF PosAt, StartPos
  <2>2. Expected(l) = Zero BY <1>1, <1>2, <1>5 DEF Expected
  <2> QED BY <1>5, <2>1, <2>2
<1>6. CASE l >= pending_pzb /\ ~(o < S) /\ L # S
  <2>1. PosAt(l) = L + ((o - L) % (S - L)) BY <1>2, <1>6 DEF PosAt, StartPos
  <2>2. Expected(l) = Byte(w, L + ((o - L) % (S - L))) BY <1>1, <1>2, <1>6 DEF Expected
  <2>3. PosAt(l) < S /\ PosAt(l) \in Nat
    BY <1>1, <1>2, <1>6, StartsWithin DEF PosAt
  <2> QED BY <1>1, <1>6, <2>1, <2>2, <2>3
<1> QED BY <1>2, <1>3, <1>4, <1>5, <1>6

----------------------------------------------------------------------------
(* The invariant.                                                          *)

Live  == cpc \in {"ready", "using", "syncWait", "syncSend", "nextWait", "nextSend"}
Asked == command_sem = 1 /\ pending_command = "SetActive"
Begun == active # 0 /\ ~Asked
Rest  == IF tpc = "read" THEN tcount ELSE 0

\* Which command the thread can be at, and which stream it belongs to.
CommandInv ==
  /\ Begun => active = pending_which
  /\ tpc = "read" => active # 0 /\ pending_command \in {"SetActive", "BufferNext"}
  /\ tpc = "read" /\ pending_command = "BufferNext" => tcount <= Chunk_Size
  /\ pending_command = "BufferNext" => active # 0
  /\ Live => active # 0 \/ Asked
  /\ Live => pending_command # "Exit" /\ (need_sync <=> pending_command = "SetActive")
  /\ cpc \in {"syncWait", "syncSend"} => need_sync
  /\ cpc \in {"using", "nextWait", "nextSend"} => ~need_sync

\* The stream's position is that of the byte written next.
PosInv == Begun => write_pos >= pending_pzb /\ pos[active] = PosAt(write_pos)

\* The file's cursor follows it, but while copies of the loop are taken.
FileInv == active # 0 /\ (tpc = "read" => basep = NoBase) => filepos[active] = pos[active]

\* What is copied is the loop, and what is written next does not reach it.
LoopLen == Size(active) - LoopPos(active)
LoopInv ==
  tpc = "read" /\ basep # NoBase =>
    /\ LoopLen > 0 /\ basep + LoopLen <= Buffer_Size /\ pos[active] >= LoopPos(active)
    /\ \A i \in 0 .. LoopLen - 1 : buffer[basep + i] = Byte(active, LoopPos(active) + i)
    /\ \E l \in Nat : /\ Masked(l) = basep /\ l + LoopLen <= write_pos
                      /\ write_pos + tcount <= l + Buffer_Size

\* All that was written and is not about to be overwritten is as expected, in
\* the ring and, but for what this command writes, in the copy behind its end.
Start == IF tpc # "read" THEN write_pos
         ELSE IF pending_command = "SetActive" THEN 0 ELSE write_pos + tcount - Chunk_Size
ContentInv ==
  Begun =>
    \A l \in Nat : write_pos + Rest <= l + Buffer_Size =>
      /\ l < write_pos => buffer[Masked(l)] = Expected(l)
      /\ l < Start /\ Masked(l) < Overbuffer_Count => buffer[Masked(l) + Buffer_Size] = Expected(l)

\* How far the thread is ahead of the consumer, with what it was asked for.
Due == Rest + (IF command_sem = 0 THEN 0
               ELSE IF pending_command = "SetActive" THEN Buffer_Size
               ELSE IF pending_command = "BufferNext" THEN Chunk_Size ELSE 0)
Crossed == IF cpc \in {"nextWait", "nextSend"} THEN Chunk_Size ELSE 0
AheadInv ==
  /\ Asked => write_pos = 0
  /\ Live /\ need_sync => read_pos = 0
  /\ Live => write_pos + Due + Crossed = Buffer_Size + Chunk_Size * (read_pos \div Chunk_Size)

ThreadInv == PosInv /\ FileInv /\ LoopInv /\ ContentInv
IInv == TokenInv /\ TypeOK /\ CommandInv /\ ThreadInv /\ AheadInv

LEMMA InitInv == Init => IInv
<1> SUFFICES ASSUME Init PROVE IInv OBVIOUS
<1>1. TypeOK
  <2>1. 1 \in Which
    <3>1. Len(Streams) \in Nat /\ Len(Streams) # 0 BY StreamsAssumption, EmptySeq
    <3> QED BY <3>1 DEF Which
  <2>2. DOMAIN buffer = Cells BY DEF Init
  <2>3. pos \in [Which -> Nat] /\ filepos \in [Which -> Nat] BY DEF Init
  <2>4. /\ command_sem \in 0 .. 1 /\ ack_sem \in 0 .. 1 /\ pending_skip \in Nat
        /\ pending_pzb \in 0 .. Buffer_Size /\ read_pos \in Nat /\ count \in 0 .. Overbuffer_Count
        /\ write_pos \in Nat /\ tcount \in 0 .. Buffer_Size
    BY Geometry DEF Init
  <2>5. /\ pending_command \in Commands /\ need_sync \in BOOLEAN /\ cpc \in ConsumerStates
        /\ tpc \in ThreadStates /\ active \in {0} \cup Which /\ basep \in Ring \cup {NoBase}
    BY DEF Init, Commands, ConsumerStates, ThreadStates
  <2>6. pending_which \in Which BY <2>1 DEF Init
  <2> QED BY <2>2, <2>3, <2>4, <2>5, <2>6 DEF TypeOK
<1>2. CommandInv BY DEF Init, CommandInv, Begun, Live
<1>3. ThreadInv BY DEF Init, ThreadInv, PosInv, FileInv, LoopInv, ContentInv, Begun
<1>4. AheadInv BY DEF Init, AheadInv, Live, Asked
<1> QED BY <1>1, <1>2, <1>3, <1>4, TokenInit DEF IInv

----------------------------------------------------------------------------
(* What the steps do.                                                      *)

\* Nothing that ThreadInv speaks of is touched.
Undisturbed ==
  /\ UNCHANGED <<write_pos, buffer, active, pos, filepos, pending_which, pending_skip, pending_pzb>>
  /\ Asked' <=> Asked
  /\ \/ tpc # "read" /\ tpc' # "read"
     \/ UNCHANGED <<tpc, tcount, basep, pending_command>>

LEMMA ExpectedKept ==
  ASSUME UNCHANGED <<pending_which, pending_skip, pending_pzb>>
  PROVE  \A l : Expected(l)' = Expected(l) /\ PosAt(l)' = PosAt(l)
BY DEF Expected, PosAt

LEMMA StaysUndisturbed ==
  ASSUME ThreadInv, Undisturbed
  PROVE  ThreadInv'
<1>1. PosInv' BY ExpectedKept DEF ThreadInv, Undisturbed, PosInv, Begun
<1>2. FileInv' BY DEF ThreadInv, Undisturbed, FileInv
<1>3. LoopInv' BY DEF ThreadInv, Undisturbed, LoopInv, LoopLen
<1>4. ContentInv'
  <2>1. Rest' = Rest /\ Start' = Start BY DEF Undisturbed, Rest, Start
  <2> QED BY <2>1, ExpectedKept DEF ThreadInv, Undisturbed, ContentInv, Begun
<1> QED BY <1>1, <1>2, <1>3, <1>4 DEF ThreadInv

\* The token excludes the thread while the consumer fills in a request.
LEMMA TokenFacts ==
  ASSUME TokenInv
  PROVE  /\ Holding => command_sem = 0 /\ ~Busy
         /\ command_sem > 0 => command_sem = 1 /\ ~Busy /\ ~Holding
         /\ command_sem \in 0 .. 1 /\ ack_sem \in 0 .. 1
BY DEF TokenInv, OneToken, Units

LEMMA TokenRange == TokenInv' => command_sem' \in 0 .. 1 /\ ack_sem' \in 0 .. 1
<1> SUFFICES ASSUME TokenInv' PROVE command_sem' \in 0 .. 1 /\ ack_sem' \in 0 .. 1 OBVIOUS
<1> DEFINE h == IF Holding' THEN 1 ELSE 0
           b == IF Busy' THEN 1 ELSE 0
<1>1. command_sem' \in Nat /\ ack_sem' \in Nat /\ command_sem' + ack_sem' + h + b = 1
  BY DEF TokenInv, OneToken, Units, Holding, Busy
<1>2. h \in 0 .. 1 /\ b \in 0 .. 1 OBVIOUS
<1> HIDE DEF h, b
<1>3. ASSUME NEW m \in Nat, NEW n \in Nat, m + n + h + b = 1 PROVE m \in 0 .. 1 /\ n \in 0 .. 1
  BY <1>2, <1>3
<1> QED BY <1>1, <1>3

LEMMA ConsumerUndisturbed ==
  ASSUME TokenInv,
         \/ ConsumerCall
         \/ \E from, to : AwaitAck(from, to)
         \/ GetSend \/ AdvanceSend \/ CleanupSend \/ Join \/ \E n \in 1 .. count : Advance(n)
  PROVE  Undisturbed
<1>1. CASE GetSend \/ AdvanceSend \/ CleanupSend
  <2>1. Holding BY <1>1 DEF GetSend, AdvanceSend, CleanupSend, Send, Holding
  <2>2. ~Asked /\ tpc # "read" BY <2>1, TokenFacts DEF Asked, Busy
  <2>3. /\ UNCHANGED <<threadVars, write_pos, pending_which, pending_skip, pending_pzb>>
        /\ pending_command' # "SetActive"
    BY <1>1 DEF GetSend, AdvanceSend, CleanupSend, Send
  <2> QED BY <2>2, <2>3 DEF Undisturbed, Asked, threadVars
<1>2. ASSUME UNCHANGED <<command_sem, write_pos, pendingVars, threadVars>> PROVE Undisturbed
  BY <1>2 DEF Undisturbed, Asked, pendingVars, threadVars
<1>3. CASE ConsumerCall
  BY <1>2, <1>3 DEF ConsumerCall, SetActiveCall, CleanupCall, GetCall
<1>4. CASE \E from, to : AwaitAck(from, to) BY <1>2, <1>4 DEF AwaitAck
<1>5. CASE Join \/ \E n \in 1 .. count : Advance(n) BY <1>2, <1>5 DEF Join, Advance
<1> QED BY <1>1, <1>3, <1>4, <1>5

\* While the thread reads, the stream is the one asked for, and it stands
\* within it.
LEMMA Reading ==
  ASSUME TokenInv, TypeOK, CommandInv, PosInv, tpc = "read"
  PROVE  /\ Begun /\ ~Asked /\ command_sem = 0 /\ ack_sem = 0 /\ ~Holding
         /\ active \in Which /\ active = pending_which
         /\ pos[active] \in 0 .. Size(active) /\ pos[active] = PosAt(write_pos)
         /\ LoopPos(active) < Size(active) => pos[active] < Size(active)
         /\ write_pos >= pending_pzb /\ pending_skip + (write_pos - pending_pzb) \in Nat
<1>1. command_sem = 0 /\ ack_sem = 0 /\ ~Holding BY DEF TokenInv, OneToken, Units, Busy
<1>2. Begun /\ ~Asked BY <1>1 DEF CommandInv, Begun, Asked
<1>3. active \in Which /\ active = pending_which BY <1>2 DEF CommandInv, Begun, TypeOK
<1>4. /\ write_pos >= pending_pzb /\ pos[active] = PosAt(write_pos)
      /\ pending_skip + (write_pos - pending_pzb) \in Nat
  BY <1>2, Geometry DEF PosInv, TypeOK
<1> QED BY <1>1, <1>2, <1>3, <1>4, StartsWithin DEF PosAt

\* A round of read_into_buffer's loop brings the stream's next n bytes, from
\* the file as from memory.
PieceOf(n) ==
  /\ n \in 1 .. tcount
  /\ Masked(write_pos) + n <= Buffer_Size /\ pos[active] + n <= Size(active)
  /\ write_pos' = write_pos + n /\ tcount' = tcount - n
  /\ DOMAIN buffer' = Cells
  /\ \A i \in Cells : buffer'[i] = IF Masked(write_pos) <= i /\ i < Masked(write_pos) + n
                                   THEN Byte(active, pos[active] + (i - Masked(write_pos)))
                                   ELSE buffer[i]
  /\ pos' = [pos EXCEPT ![active] = IF pos[active] + n = Size(active) THEN LoopPos(active)
                                    ELSE pos[active] + n]
  /\ \/ /\ basep = NoBase /\ pos[active] + n = Size(active) /\ LoopLen = n /\ LoopPos(active) < Size(active)
        /\ basep' = Masked(write_pos)
        /\ filepos' = [filepos EXCEPT ![active] = filepos[active] + n]
     \/ /\ basep = NoBase /\ basep' = NoBase
        /\ filepos' = [filepos EXCEPT ![active] = IF pos[active] + n = Size(active) THEN LoopPos(active)
                                                  ELSE filepos[active] + n]
     \/ /\ basep # NoBase /\ basep' = basep
        /\ filepos' = [filepos EXCEPT ![active] = filepos[active]]
  /\ UNCHANGED <<tpc, active, command_sem, ack_sem, consumerVars, pendingVars>>

LEMMA PieceDoes ==
  ASSUME TokenInv, TypeOK, CommandInv, ThreadInv, ReadPiece
  PROVE  \E n \in 1 .. tcount : PieceOf(n)
<1> DEFINE w == active
           c == Masked(write_pos)
           n == SmallerOf(Buffer_Size - c, SmallerOf(tcount, Size(w) - pos[w]))
           fromLoop(j) == buffer[basep + (pos[w] - LoopPos(w)) + j]
           fromFile(j) == Byte(w, filepos[w] + j)
           atEnd == pos[w] + n = Size(w)
           wholeLoop == LoopPos(w) < Size(w) /\ Size(w) - LoopPos(w) = n
           cursor == IF basep = NoBase THEN filepos[w] + n ELSE filepos[w]
<1>1. tpc = "read" /\ tcount > 0 /\ pos[w] # Size(w) BY DEF ReadPiece
<1>2. /\ buffer' = IF basep = NoBase THEN Written(buffer, c, n, fromFile)
                                     ELSE Written(buffer, c, n, fromLoop)
      /\ write_pos' = write_pos + n
      /\ tcount' = tcount - n
      /\ pos' = [pos EXCEPT ![w] = IF atEnd THEN LoopPos(w) ELSE pos[w] + n]
      /\ basep' = IF basep = NoBase /\ atEnd /\ wholeLoop THEN c ELSE basep
      /\ filepos' = [filepos EXCEPT ![w] =
           IF basep = NoBase /\ atEnd /\ ~wholeLoop THEN LoopPos(w) ELSE cursor]
      /\ UNCHANGED <<tpc, active, command_sem, ack_sem, consumerVars, pendingVars>>
  BY DEF ReadPiece
<1>3. /\ w \in Which /\ pos[w] \in 0 .. Size(w) /\ pos[w] \in Nat
      /\ Size(w) \in Nat /\ LoopPos(w) \in Nat /\ LoopPos(w) <= Size(w)
  BY <1>1, Reading, StreamTypes DEF ThreadInv
<1>4. write_pos \in Nat /\ c \in 0 .. Buffer_Size - 1 /\ tcount \in 0 .. Buffer_Size /\ Buffer_Size \in Nat
  <2>1. write_pos \in Nat /\ tcount \in 0 .. Buffer_Size BY DEF TypeOK
  <2>2. 0 \in 0 .. Buffer_Size BY Geometry
  <2> QED BY <2>1, <2>2, Follows, Geometry DEF Ring
<1>5. n \in 1 .. tcount /\ c + n <= Buffer_Size /\ pos[w] + n <= Size(w)
  BY <1>1, <1>3, <1>4 DEF SmallerOf
<1>6. filepos[w] \in Nat /\ (basep = NoBase => filepos[w] = pos[w]) /\ basep \in Ring \cup {NoBase}
  BY <1>1, <1>3 DEF TypeOK, ThreadInv, FileInv, Which
<1> HIDE DEF n, c
<1>7. ASSUME NEW j \in 0 .. n - 1
      PROVE  /\ basep = NoBase => fromFile(j) = Byte(w, pos[w] + j)
             /\ basep # NoBase => fromLoop(j) = Byte(w, pos[w] + j)
  <2>1. CASE basep = NoBase BY <1>6, <2>1
  <2>2. CASE basep # NoBase
    <3>1. /\ pos[w] >= LoopPos(w) /\ LoopLen = Size(w) - LoopPos(w)
          /\ \A i \in 0 .. LoopLen - 1 : buffer[basep + i] = Byte(w, LoopPos(w) + i)
      BY <1>1, <2>2 DEF ThreadInv, LoopInv, LoopLen
    <3>2. pos[w] - LoopPos(w) + j \in 0 .. LoopLen - 1 BY <1>3, <1>5, <3>1
    <3>3. basep \in Int BY <1>6, <2>2, Geometry DEF Ring
    <3>4. /\ basep + (pos[w] - LoopPos(w)) + j = basep + (pos[w] - LoopPos(w) + j)
          /\ LoopPos(w) + (pos[w] - LoopPos(w) + j) = pos[w] + j
      BY <1>3, <3>3
    <3>5. buffer[basep + (pos[w] - LoopPos(w) + j)] = Byte(w, LoopPos(w) + (pos[w] - LoopPos(w) + j))
      BY <3>1, <3>2
    <3> QED BY <2>2, <3>4, <3>5
  <2> QED BY <2>1, <2>2
<1>8. /\ DOMAIN buffer' = Cells
      /\ \A i \in Cells : buffer'[i] = IF c <= i /\ i < c + n THEN Byte(w, pos[w] + (i - c)) ELSE buffer[i]
  <2>1. CASE basep = NoBase
    <3>1. buffer' = [i \in Cells |-> IF c <= i /\ i < c + n THEN fromFile(i - c) ELSE buffer[i]]
      BY <1>2, <2>1 DEF Written
    <3>2. \A i \in Cells : c <= i /\ i < c + n => i - c \in 0 .. n - 1
      BY <1>4, <1>5, Geometry DEF Cells
    <3> HIDE DEF fromFile, fromLoop
    <3>3. \A i \in Cells : c <= i /\ i < c + n => fromFile(i - c) = Byte(w, pos[w] + (i - c))
      BY <1>7, <2>1, <3>2
    <3> QED BY <3>1, <3>3
  <2>2. CASE basep # NoBase
    <3>1. buffer' = [i \in Cells |-> IF c <= i /\ i < c + n THEN fromLoop(i - c) ELSE buffer[i]]
      BY <1>2, <2>2 DEF Written
    <3>2. \A i \in Cells : c <= i /\ i < c + n => i - c \in 0 .. n - 1
      BY <1>4, <1>5, Geometry DEF Cells
    <3> HIDE DEF fromFile, fromLoop
    <3>3. \A i \in Cells : c <= i /\ i < c + n => fromLoop(i - c) = Byte(w, pos[w] + (i - c))
      BY <1>7, <2>2, <3>2
    <3> QED BY <3>1, <3>3
  <2> QED BY <2>1, <2>2
<1>9. \/ /\ basep = NoBase /\ atEnd /\ LoopLen = n /\ LoopPos(w) < Size(w)
         /\ basep' = c
         /\ filepos' = [filepos EXCEPT ![w] = filepos[w] + n]
      \/ /\ basep = NoBase /\ basep' = NoBase
         /\ filepos' = [filepos EXCEPT ![w] = IF atEnd THEN LoopPos(w) ELSE filepos[w] + n]
      \/ /\ basep # NoBase /\ basep' = basep
         /\ filepos' = [filepos EXCEPT ![w] = filepos[w]]
  <2>1. CASE basep = NoBase /\ atEnd /\ wholeLoop BY <1>2, <2>1 DEF LoopLen
  <2>2. CASE basep = NoBase /\ atEnd /\ ~wholeLoop BY <1>2, <2>2
  <2>3. CASE basep = NoBase /\ ~atEnd BY <1>2, <2>3
  <2>4. CASE basep # NoBase BY <1>2, <2>4
  <2> QED BY <2>1, <2>2, <2>3, <2>4
<1> QED BY <1>2, <1>5, <1>8, <1>9 DEF PieceOf, c

----------------------------------------------------------------------------
(* What the thread writes is what is expected.                             *)

\* A byte of the piece is the expected one, and lies in one of its cells.
LEMMA PieceBytes ==
  ASSUME TokenInv, TypeOK, CommandInv, PosInv, tpc = "read", NEW n \in 1 .. tcount,
         Masked(write_pos) + n <= Buffer_Size, pos[active] + n <= Size(active),
         NEW j \in 0 .. n - 1
  PROVE  /\ Masked(write_pos + j) = Masked(write_pos) + j
         /\ Expected(write_pos + j) = Byte(active, pos[active] + j)
<1>1. /\ active \in Which /\ active = pending_which /\ pos[active] = PosAt(write_pos)
      /\ write_pos >= pending_pzb /\ pending_skip + (write_pos - pending_pzb) \in Nat
      /\ pos[active] \in 0 .. Size(active) /\ Size(active) \in Nat
  BY Reading, StreamTypes
<1>2. write_pos \in Nat /\ pending_pzb \in Nat /\ pending_skip \in Nat /\ tcount \in 0 .. Buffer_Size
  BY Geometry DEF TypeOK
<1>3. j \in 0 .. Buffer_Size /\ j \in Nat BY <1>2, Geometry
<1>4. Masked(write_pos) \in Nat BY <1>2, <1>3, Follows, Geometry DEF Ring
<1>5. Masked(write_pos + j) = Masked(write_pos) + j
  BY <1>2, <1>3, <1>4, Follows, Geometry
<1>6. PosAt(write_pos + j) = pos[active] + j /\ pos[active] + j # Size(active)
  <2> DEFINE k == pending_skip + (write_pos - pending_pzb)
  <2>1. pending_skip + ((write_pos + j) - pending_pzb) = k + j
    BY <1>2, <1>3
  <2>2. pos[active] # Size(active) /\ pos[active] + j <= Size(active) /\ pos[active] + j # Size(active)
    BY <1>1, <1>2, <1>3
  <2>3. k \in Nat /\ StartPos(active, k) = pos[active] BY <1>1 DEF PosAt
  <2> HIDE DEF k
  <2>4. StartPos(active, k + j) = pos[active] + j BY <1>1, <1>3, <2>2, <2>3, ReadsOn
  <2>5. PosAt(write_pos + j) = StartPos(pending_which, k + j) BY <2>1 DEF PosAt
  <2> QED BY <1>1, <2>2, <2>4, <2>5
<1>7. write_pos + j \in Nat /\ ~(write_pos + j < pending_pzb) BY <1>1, <1>2, <1>3
<1> QED BY <1>1, <1>2, <1>5, <1>6, <1>7, ExpectedThere

LEMMA PieceKeeps ==
  ASSUME TokenInv, TypeOK, CommandInv, ThreadInv, tpc = "read", NEW n \in 1 .. tcount, PieceOf(n)
  PROVE  ThreadInv'
<1> DEFINE c == Masked(write_pos)
<1>1. /\ active \in Which /\ active = pending_which /\ pos[active] = PosAt(write_pos)
      /\ write_pos >= pending_pzb /\ pending_skip + (write_pos - pending_pzb) \in Nat
      /\ pos[active] \in 0 .. Size(active) /\ Size(active) \in Nat /\ LoopPos(active) \in Nat
      /\ LoopPos(active) <= Size(active) /\ Begun
  BY Reading, StreamTypes DEF ThreadInv
<1>2. /\ write_pos \in Nat /\ tcount \in 0 .. Buffer_Size /\ n \in Nat /\ n <= tcount /\ 0 < n
      /\ pos \in [Which -> Nat] /\ filepos \in [Which -> Nat] /\ pending_pzb \in Nat
      /\ pending_skip \in Nat
  BY Geometry DEF TypeOK
<1>3. /\ write_pos' = write_pos + n /\ tcount' = tcount - n
      /\ UNCHANGED <<tpc, active, command_sem, pending_command, pending_which, pending_skip, pending_pzb>>
      /\ pos' = [pos EXCEPT ![active] = IF pos[active] + n = Size(active) THEN LoopPos(active)
                                        ELSE pos[active] + n]
      /\ pos[active] + n <= Size(active) /\ c + n <= Buffer_Size
  BY DEF PieceOf, pendingVars
<1>4. c \in Ring /\ c \in Nat /\ c < Buffer_Size
  <2>1. 0 \in 0 .. Buffer_Size BY Geometry
  <2> QED BY <1>2, <2>1, Follows, Geometry DEF Ring
<1>5. pos'[active] = IF pos[active] + n = Size(active) THEN LoopPos(active) ELSE pos[active] + n
  BY <1>1, <1>2, <1>3
<1>6. PosInv'
  <2> DEFINE k == pending_skip + (write_pos - pending_pzb)
  <2>1. pending_skip + ((write_pos + n) - pending_pzb) = k + n
    BY <1>2
  <2>2. pos[active] # Size(active) BY <1>1, <1>2, <1>3
  <2>5. k \in Nat /\ StartPos(active, k) = pos[active] BY <1>1 DEF PosAt
  <2> HIDE DEF k
  <2>6. StartPos(active, k + n) = pos'[active] BY <1>1, <1>2, <1>3, <1>5, <2>2, <2>5, ReadsOn
  <2>3. StartPos(pending_which, pending_skip + ((write_pos + n) - pending_pzb)) = pos'[active]
    BY <1>1, <2>1, <2>6
  <2>4. write_pos + n >= pending_pzb BY <1>1, <1>2
  <2> QED BY <1>3, <2>3, <2>4 DEF PosInv, PosAt, StartPos, Size, LoopPos
<1>7. FileInv'
  <2>1. basep = NoBase => filepos[active] = pos[active] BY <1>1 DEF ThreadInv, FileInv, Begun
  <2>2. NoBase \notin Ring BY DEF NoBase, Ring
  <2>3. CASE basep' # NoBase BY <1>3, <2>3 DEF FileInv
  <2>4. CASE basep' = NoBase
    <3>1. /\ basep = NoBase
          /\ filepos' = [filepos EXCEPT ![active] = IF pos[active] + n = Size(active) THEN LoopPos(active)
                                                    ELSE filepos[active] + n]
      BY <1>4, <2>2, <2>4 DEF PieceOf
    <3>2. filepos'[active] = IF pos[active] + n = Size(active) THEN LoopPos(active) ELSE filepos[active] + n
      BY <1>1, <1>2, <3>1
    <3> QED BY <1>3, <1>5, <2>1, <3>1, <3>2 DEF FileInv
  <2> QED BY <2>3, <2>4
<1>8. \* Cells that hold bytes from less than a buffer ago are not written.
      ASSUME NEW l \in Nat, l < write_pos, write_pos + tcount <= l + Buffer_Size
      PROVE  /\ Masked(l) \in Ring /\ Masked(l) \in Cells
             /\ buffer'[Masked(l)] = buffer[Masked(l)]
  <2>1. Masked(l) \in Ring /\ Masked(l) \in Cells
    <3>1. 0 \in 0 .. Buffer_Size BY Geometry
    <3> QED BY <3>1, Follows, Geometry
  <2>2. ASSUME c <= Masked(l), Masked(l) < c + n
        PROVE  FALSE
    <3>1. PICK j \in 0 .. n - 1 : Masked(l) = c + j
      <4>1. Masked(l) - c \in 0 .. n - 1 /\ Masked(l) = c + (Masked(l) - c)
        BY <1>2, <1>4, <2>1, <2>2, Geometry DEF Ring
      <4> QED BY <4>1
    <3>2. Masked(write_pos + j) = Masked(l)
      BY <1>3, <3>1, PieceBytes DEF ThreadInv
    <3>3. l < write_pos + j /\ write_pos + j < l + Buffer_Size /\ write_pos + j \in Nat
      BY <1>2, <1>8, Geometry
    <3> QED BY <3>2, <3>3, Apart
  <2> QED BY <2>1, <2>2 DEF PieceOf
<1>9. LoopInv'
  <2> SUFFICES ASSUME basep' # NoBase
               PROVE  /\ LoopLen > 0 /\ basep' + LoopLen <= Buffer_Size /\ pos'[active] >= LoopPos(active)
                      /\ \A i \in 0 .. LoopLen - 1 : buffer'[basep' + i] = Byte(active, LoopPos(active) + i)
                      /\ \E l \in Nat : /\ Masked(l) = basep' /\ l + LoopLen <= write_pos + n
                                        /\ write_pos + n + (tcount - n) <= l + Buffer_Size
    BY <1>3 DEF LoopInv, LoopLen
  <2>1. CASE basep = NoBase
    <3>1. /\ pos[active] + n = Size(active) /\ LoopLen = n /\ basep' = c
      BY <2>1 DEF PieceOf
    <3>2. pos[active] = LoopPos(active) BY <1>1, <1>2, <3>1 DEF LoopLen
    <3>3. ASSUME NEW i \in 0 .. n - 1 PROVE buffer'[c + i] = Byte(active, LoopPos(active) + i)
      <4>1. c + i \in Cells /\ c <= c + i /\ c + i < c + n /\ (c + i) - c = i
        BY <1>2, <1>3, <1>4, Geometry DEF Cells
      <4>2. buffer'[c + i] = Byte(active, pos[active] + ((c + i) - c)) BY <4>1 DEF PieceOf
      <4> QED BY <3>2, <4>1, <4>2
    <3>4. write_pos + n + (tcount - n) <= write_pos + Buffer_Size /\ write_pos + n <= write_pos + n
      BY <1>2, Geometry
    <3> QED BY <1>1, <1>2, <1>3, <1>5, <3>1, <3>3, <3>4
  <2>2. CASE basep # NoBase
    <3>1. basep' = basep BY <2>2 DEF PieceOf
    <3>2. /\ LoopLen > 0 /\ basep + LoopLen <= Buffer_Size /\ pos[active] >= LoopPos(active)
          /\ \A i \in 0 .. LoopLen - 1 : buffer[basep + i] = Byte(active, LoopPos(active) + i)
      BY <2>2 DEF ThreadInv, LoopInv
    <3>3. PICK l \in Nat : /\ Masked(l) = basep /\ l + LoopLen <= write_pos
                           /\ write_pos + tcount <= l + Buffer_Size
      BY <2>2 DEF ThreadInv, LoopInv
    <3>4. LoopLen \in Nat BY <1>1, <3>2 DEF LoopLen
    <3>5. ASSUME NEW i \in 0 .. LoopLen - 1 PROVE buffer'[basep + i] = buffer[basep + i]
      <4>1. i \in 0 .. Buffer_Size /\ Masked(l) + i < Buffer_Size
        <5>1. 0 \in 0 .. Buffer_Size BY Geometry
        <5>2. Masked(l) \in Nat BY <5>1, Follows, Geometry DEF Ring
        <5> QED BY <3>2, <3>3, <3>4, <5>2, Geometry
      <4>2. Masked(l + i) = basep + i BY <3>3, <4>1, Follows
      <4>3. l + i \in Nat /\ l + i < write_pos /\ write_pos + tcount <= l + i + Buffer_Size
        BY <1>2, <3>3, <3>4, Geometry
      <4> QED BY <1>8, <4>2, <4>3
    <3>6. l + LoopLen <= write_pos + n /\ write_pos + n + (tcount - n) <= l + Buffer_Size
      BY <1>2, <3>3, <3>4, Geometry
    <3>7. pos'[active] >= LoopPos(active) BY <1>1, <1>2, <1>5, <3>2
    <3> QED BY <3>1, <3>2, <3>3, <3>5, <3>6, <3>7
  <2> QED BY <2>1, <2>2
<1>10. ContentInv'
  <2>1. Rest' = tcount - n /\ Rest = tcount BY <1>3 DEF Rest
  <2>2. Start' = Start /\ Start \in Int /\ Start <= write_pos
    <3>1. write_pos + n + (tcount - n) = write_pos + tcount BY <1>2
    <3>2. Start' = IF pending_command = "SetActive" THEN 0 ELSE write_pos + tcount - Chunk_Size
      BY <1>2, <1>3, <3>1, Geometry DEF Start
    <3>3. tcount <= Chunk_Size \/ pending_command = "SetActive" BY DEF CommandInv
    <3>4. Start = IF pending_command = "SetActive" THEN 0 ELSE write_pos + tcount - Chunk_Size
      BY DEF Start
    <3>5. Start \in Int /\ Start <= write_pos BY <1>2, <3>3, <3>4, Geometry
    <3> QED BY <3>2, <3>4, <3>5
  <2> SUFFICES ASSUME NEW l \in Nat, write_pos + n + (tcount - n) <= l + Buffer_Size
               PROVE  /\ l < write_pos + n => buffer'[Masked(l)] = Expected(l)
                      /\ l < Start /\ Masked(l) < Overbuffer_Count =>
                            buffer'[Masked(l) + Buffer_Size] = Expected(l)
    BY <1>1, <1>3, <2>1, <2>2, ExpectedKept DEF ContentInv
  <2>3. write_pos + tcount <= l + Buffer_Size BY <1>2
  <2>4. /\ l < write_pos => buffer[Masked(l)] = Expected(l)
        /\ l < Start /\ Masked(l) < Overbuffer_Count => buffer[Masked(l) + Buffer_Size] = Expected(l)
    BY <1>1, <2>1, <2>3 DEF ThreadInv, ContentInv
  <2>5. CASE l < write_pos
    <3>1. Masked(l) \in Ring /\ buffer'[Masked(l)] = buffer[Masked(l)] BY <1>8, <2>3, <2>5
    <3>2. Masked(l) < Overbuffer_Count =>
             buffer'[Masked(l) + Buffer_Size] = buffer[Masked(l) + Buffer_Size]
      <4>1. Masked(l) < Overbuffer_Count =>
               Masked(l) + Buffer_Size \in Cells /\ ~(Masked(l) + Buffer_Size < c + n)
        BY <1>2, <1>3, <1>4, <3>1, Geometry DEF Cells, Ring
      <4> QED BY <4>1 DEF PieceOf
    <3> QED BY <2>4, <2>5, <3>1, <3>2
  <2>6. CASE l >= write_pos /\ l < write_pos + n
    <3>1. l - write_pos \in 0 .. n - 1 /\ write_pos + (l - write_pos) = l BY <1>2, <2>6
    <3>2. /\ Masked(l) = c + (l - write_pos)
          /\ Expected(l) = Byte(active, pos[active] + (l - write_pos))
      BY <1>3, <3>1, PieceBytes DEF ThreadInv
    <3>3. /\ Masked(l) \in Cells /\ c <= Masked(l) /\ Masked(l) < c + n
          /\ Masked(l) - c = l - write_pos
      BY <1>2, <1>3, <1>4, <3>1, <3>2, Geometry DEF Cells
    <3>4. buffer'[Masked(l)] = Byte(active, pos[active] + (Masked(l) - c)) BY <3>3 DEF PieceOf
    <3>5. ~(l < Start) BY <1>2, <2>2, <2>6
    <3> QED BY <3>2, <3>3, <3>4, <3>5
  <2>7. CASE l >= write_pos + n
    <3>1. ~(l < Start) /\ ~(l < write_pos + n) BY <1>2, <2>2, <2>7
    <3> QED BY <3>1
  <2> QED BY <1>2, <2>5, <2>6, <2>7
<1> QED BY <1>6, <1>7, <1>9, <1>10 DEF ThreadInv

\* Silence, at the end of a stream without a loop.
LEMMA SilenceKeeps ==
  ASSUME TokenInv, TypeOK, CommandInv, ThreadInv, ReadSilence
  PROVE  ThreadInv'
<1> DEFINE c == Masked(write_pos)
<1>0. tpc = "read" /\ pos[active] = Size(active) BY DEF ReadSilence
<1>1. /\ active \in Which /\ active = pending_which /\ pos[active] = PosAt(write_pos)
      /\ write_pos >= pending_pzb /\ pending_skip + (write_pos - pending_pzb) \in Nat
      /\ LoopPos(active) = Size(active) /\ Begun
  BY <1>0, Reading, StreamTypes DEF ThreadInv
<1>2. /\ write_pos \in Nat /\ tcount \in 0 .. Buffer_Size /\ tcount \in Nat /\ pending_pzb \in Nat
      /\ pending_skip \in Nat
  BY Geometry DEF TypeOK
<1>3. /\ write_pos' = write_pos + tcount /\ tcount' = 0
      /\ UNCHANGED <<tpc, active, pos, filepos, basep, command_sem, pending_command, pending_which,
                     pending_skip, pending_pzb>>
      /\ buffer' = Zeroed(buffer, c, tcount)
  BY DEF ReadSilence, pendingVars
<1>4. \A j \in 0 .. tcount : PosAt(write_pos + j) = Size(active)
  <2> DEFINE k == pending_skip + (write_pos - pending_pzb)
  <2>1. k \in Nat /\ StartPos(active, k) = Size(active) BY <1>0, <1>1 DEF PosAt
  <2> SUFFICES ASSUME NEW j \in 0 .. tcount PROVE PosAt(write_pos + j) = Size(active) OBVIOUS
  <2>2. pending_skip + ((write_pos + j) - pending_pzb) = k + j BY <1>2
  <2>3. PosAt(write_pos + j) = StartPos(active, k + j) BY <1>1, <2>2 DEF PosAt
  <2> HIDE DEF k
  <2>4. StartPos(active, k + j) = Size(active) BY <1>1, <2>1, ReadsOn
  <2> QED BY <2>3, <2>4
<1>5. PosInv'
  <2>1. StartPos(pending_which, pending_skip + ((write_pos + tcount) - pending_pzb)) = Size(active)
    BY <1>2, <1>4 DEF PosAt
  <2>2. write_pos + tcount >= pending_pzb BY <1>1, <1>2
  <2> QED BY <1>0, <1>3, <2>1, <2>2 DEF PosInv, PosAt, StartPos, Size, LoopPos
<1>6. basep = NoBase
  <2>1. Size(active) \in Nat BY <1>1, StreamTypes
  <2> QED BY <1>0, <1>1, <2>1 DEF ThreadInv, LoopInv, LoopLen
<1>7. FileInv' BY <1>3, <1>6 DEF ThreadInv, FileInv
<1>8. LoopInv' BY <1>3, <1>6 DEF LoopInv
<1>9. ContentInv'
  <2>1. /\ \A i \in Ring : buffer'[i] = IF (i - c) % Buffer_Size < tcount THEN Zero ELSE buffer[i]
        /\ \A i \in Ring : i < Overbuffer_Count => buffer'[i + Buffer_Size] = buffer'[i]
    BY <1>3, Geometry DEF Zeroed, Mirrored, Ring, Cells
  <2>2. Rest' = 0 BY <1>0, <1>3 DEF Rest
  <2>3. Start' <= write_pos /\ Start' \in Int
    <3>1. pending_command = "SetActive" \/ tcount <= Chunk_Size BY <1>0 DEF CommandInv
    <3>2. Start' = IF pending_command = "SetActive" THEN 0 ELSE write_pos + tcount + 0 - Chunk_Size
      BY <1>0, <1>2, <1>3, Geometry DEF Start
    <3> QED BY <1>2, <3>1, <3>2, Geometry
  <2> SUFFICES ASSUME NEW l \in Nat, write_pos + tcount <= l + Buffer_Size
               PROVE  /\ l < write_pos + tcount => buffer'[Masked(l)] = Expected(l)
                      /\ l < Start' /\ Masked(l) < Overbuffer_Count =>
                            buffer'[Masked(l) + Buffer_Size] = Expected(l)
    <3>1. write_pos + tcount + 0 = write_pos + tcount BY <1>2
    <3> QED BY <1>1, <1>3, <2>2, <3>1, ExpectedKept DEF ContentInv, Masked
  <2>4. Masked(l) \in Ring
    <3>1. 0 \in 0 .. Buffer_Size BY Geometry
    <3> QED BY <3>1, Follows
  <2>5. l < write_pos + tcount => buffer'[Masked(l)] = Expected(l)
    <3>1. CASE l < write_pos
      <4>1. buffer[Masked(l)] = Expected(l) BY <1>0, <1>1, <3>1 DEF ThreadInv, ContentInv, Rest
      <4>2. ~((Masked(l) - c) % Buffer_Size < tcount) BY <1>2, <3>1, ZeroedCells
      <4> QED BY <2>1, <2>4, <4>1, <4>2
    <3>2. CASE l >= write_pos /\ l < write_pos + tcount
      <4>1. (Masked(l) - c) % Buffer_Size < tcount BY <1>2, <3>2, ZeroedCells
      <4>2. PosAt(l) = Size(pending_which)
        <5>1. l - write_pos \in 0 .. tcount /\ write_pos + (l - write_pos) = l BY <1>2, <3>2
        <5>2. PosAt(write_pos + (l - write_pos)) = Size(active) BY <1>4, <5>1
        <5> QED BY <1>1, <5>1, <5>2
      <4>3. Expected(l) = Zero BY <1>1, <1>2, <4>2, ExpectedThere
      <4> QED BY <2>1, <2>4, <4>1, <4>3
    <3> QED BY <1>2, <3>1, <3>2
  <2>6. l < Start' => l < write_pos + tcount BY <1>2, <2>3
  <2> QED BY <2>1, <2>4, <2>5, <2>6
<1> QED BY <1>5, <1>7, <1>8, <1>9 DEF ThreadInv

\* The end of a read: the copy behind the ring is the ring's.
LEMMA DoneKeeps ==
  ASSUME TokenInv, TypeOK, CommandInv, ThreadInv, ReadDone
  PROVE  ThreadInv'
<1>0. tpc = "read" /\ tcount = 0 BY DEF ReadDone
<1>1. active \in Which /\ Begun BY <1>0, Reading DEF ThreadInv
<1>2. write_pos \in Nat /\ filepos \in [Which -> Nat] BY DEF TypeOK
<1>3. /\ UNCHANGED <<write_pos, active, pos, tcount, basep, command_sem, pending_command, pending_which,
                     pending_skip, pending_pzb>>
      /\ tpc' = "ack" /\ buffer' = Mirrored(buffer)
      /\ filepos' = IF basep = NoBase THEN filepos ELSE [filepos EXCEPT ![active] = pos[active]]
  BY DEF ReadDone, pendingVars
<1>4. PosInv'
  <2>1. PosAt(write_pos)' = PosAt(write_pos) BY <1>3 DEF PosAt, StartPos, Size, LoopPos
  <2> QED BY <1>1, <1>3, <2>1 DEF ThreadInv, PosInv
<1>5. FileInv'
  <2>1. basep = NoBase => filepos[active] = pos[active] BY <1>1 DEF ThreadInv, FileInv, Begun
  <2> QED BY <1>1, <1>2, <1>3, <2>1 DEF FileInv
<1>6. LoopInv' BY <1>3 DEF LoopInv
<1>7. ContentInv'
  <2>1. /\ \A i \in Ring : buffer'[i] = buffer[i]
        /\ \A i \in Ring : i < Overbuffer_Count => buffer'[i + Buffer_Size] = buffer[i]
    BY <1>3, Geometry DEF Mirrored, Ring, Cells
  <2>2. Rest' = 0 /\ Rest = 0 /\ Start' = write_pos BY <1>0, <1>3 DEF Rest, Start
  <2> SUFFICES ASSUME NEW l \in Nat, write_pos + 0 <= l + Buffer_Size, l < write_pos
               PROVE  /\ buffer'[Masked(l)] = Expected(l)
                      /\ Masked(l) < Overbuffer_Count => buffer'[Masked(l) + Buffer_Size] = Expected(l)
    BY <1>1, <1>3, <2>2, ExpectedKept DEF ContentInv, Masked
  <2>3. Masked(l) \in Ring
    <3>1. 0 \in 0 .. Buffer_Size BY Geometry
    <3> QED BY <3>1, Follows
  <2>4. buffer[Masked(l)] = Expected(l) BY <1>1, <2>2 DEF ThreadInv, ContentInv
  <2> QED BY <2>1, <2>3, <2>4
<1> QED BY <1>4, <1>5, <1>6, <1>7 DEF ThreadInv

\* A command is begun.
LEMMA DispatchKeeps ==
  ASSUME TokenInv, TypeOK, CommandInv, ThreadInv, AheadInv, Dispatch
  PROVE  ThreadInv'
<1>1. /\ tpc = "wait" /\ command_sem = 1 /\ command_sem' = 0
      /\ UNCHANGED <<ack_sem, pending_command, pending_which, pending_skip, pending_pzb>>
  BY TokenFacts DEF Dispatch, pendingVars
<1>2. pending_command \in {"Exit", "NOP", "SetActive", "BufferNext"} BY DEF TypeOK, Commands
<1>3. CASE pending_command \in {"Exit", "NOP"}
  <2>1. /\ tpc' # "read"
        /\ UNCHANGED <<buffer, active, pos, filepos, tcount, basep, write_pos>>
    BY <1>3 DEF Dispatch
  <2>2. Undisturbed BY <1>1, <1>3, <2>1 DEF Undisturbed, Asked
  <2> QED BY <2>2, StaysUndisturbed
<1>4. CASE pending_command = "BufferNext"
  <2>1. /\ tcount' = Chunk_Size /\ basep' = NoBase /\ tpc' = "read"
        /\ UNCHANGED <<buffer, active, pos, filepos, write_pos>>
    BY <1>4 DEF Dispatch
  <2>2. Begun BY <1>4 DEF CommandInv, Begun, Asked
  <2>3. PosInv'
    <3>1. PosAt(write_pos)' = PosAt(write_pos) BY <1>1, <2>1 DEF PosAt, StartPos, Size, LoopPos
    <3> QED BY <1>1, <2>1, <2>2, <3>1 DEF ThreadInv, PosInv
  <2>4. FileInv' BY <1>1, <2>1 DEF ThreadInv, FileInv
  <2>5. LoopInv' BY <2>1 DEF LoopInv
  <2>6. ContentInv'
    <3>1. write_pos \in Nat BY DEF TypeOK
    <3>2. Rest = 0 /\ Rest' = Chunk_Size /\ Start = write_pos BY <1>1, <2>1 DEF Rest, Start
    <3>3. Start' = write_pos
      <4>1. Start' = write_pos + Chunk_Size - Chunk_Size BY <1>1, <1>4, <2>1 DEF Start
      <4> QED BY <3>1, <4>1, Geometry
    <3> SUFFICES ASSUME NEW l \in Nat, write_pos + Chunk_Size <= l + Buffer_Size, l < write_pos
                 PROVE  /\ buffer[Masked(l)] = Expected(l)
                        /\ Masked(l) < Overbuffer_Count => buffer[Masked(l) + Buffer_Size] = Expected(l)
      BY <1>1, <2>1, <3>2, <3>3, ExpectedKept DEF ContentInv, Masked
    <3>4. write_pos + 0 <= l + Buffer_Size BY <3>1, Geometry
    <3> QED BY <2>2, <3>2, <3>4 DEF ThreadInv, ContentInv
  <2> QED BY <2>3, <2>4, <2>5, <2>6 DEF ThreadInv
<1>5. CASE pending_command = "SetActive"
  <2> DEFINE w == pending_which
             p == StartPos(pending_which, pending_skip)
  <2>1. /\ active' = w /\ tpc' = "read" /\ basep' = NoBase
        /\ pos' = [pos EXCEPT ![w] = p] /\ filepos' = [filepos EXCEPT ![w] = p]
        /\ buffer' = Zeroed(buffer, Masked(write_pos), pending_pzb)
        /\ write_pos' = write_pos + pending_pzb /\ tcount' = Buffer_Size - pending_pzb
    BY <1>5 DEF Dispatch
  <2>2. write_pos = 0 BY <1>1, <1>5 DEF AheadInv, Asked
  <2>3. /\ pos \in [Which -> Nat] /\ filepos \in [Which -> Nat] /\ w \in Which
        /\ pending_skip \in Nat /\ pending_pzb \in 0 .. Buffer_Size /\ pending_pzb \in Nat
    BY Geometry DEF TypeOK
  <2>4. write_pos' = pending_pzb /\ pos'[w] = p /\ filepos'[w] = p BY <2>1, <2>2, <2>3
  <2>5. PosInv'
    <3>1. pending_skip + (pending_pzb - pending_pzb) = pending_skip BY <2>3
    <3>2. StartPos(pending_which, pending_skip + (pending_pzb - pending_pzb)) = p BY <3>1
    <3>3. PosAt(write_pos)' = p BY <1>1, <2>4, <3>2 DEF PosAt, StartPos, Size, LoopPos
    <3> QED BY <1>1, <2>1, <2>3, <2>4, <3>3 DEF PosInv
  <2>6. FileInv' BY <2>1, <2>4 DEF FileInv
  <2>7. LoopInv' BY <2>1 DEF LoopInv
  <2>8. ContentInv'
    <3>1. Start' = 0 BY <1>1, <1>5, <2>1 DEF Start
    <3>2. \A i \in Ring : (i - Masked(0)) % Buffer_Size < pending_pzb => buffer'[i] = Zero
      BY <2>1, <2>2, Geometry DEF Zeroed, Mirrored, Ring, Cells
    <3> SUFFICES ASSUME NEW l \in Nat, l < pending_pzb
                 PROVE  buffer'[Masked(l)] = Expected(l)
      BY <1>1, <2>4, <3>1, ExpectedKept DEF ContentInv, Masked
    <3>3. Masked(l) \in Ring
      <4>1. 0 \in 0 .. Buffer_Size BY Geometry
      <4> QED BY <4>1, Follows
    <3>4. (Masked(l) - Masked(0)) % Buffer_Size < pending_pzb
      <4>1. 0 \in Nat /\ 0 <= l /\ l < 0 + pending_pzb BY <2>3
      <4> QED BY <2>3, <4>1, ZeroedCells
    <3>5. Expected(l) = Zero BY <2>3, ExpectedThere
    <3> QED BY <3>2, <3>3, <3>4, <3>5
  <2> QED BY <2>5, <2>6, <2>7, <2>8 DEF ThreadInv
<1> QED BY <1>2, <1>3, <1>4, <1>5

\* A new request begins nothing yet.
LEMMA AskKeeps ==
  ASSUME TokenInv, ThreadInv, NEW w, NEW skip, NEW pzb, SetActiveSend(w, skip, pzb)
  PROVE  ThreadInv'
<1>1. /\ command_sem = 0 /\ tpc # "read"
      /\ command_sem' = command_sem + 1 /\ pending_command' = "SetActive"
      /\ UNCHANGED <<buffer, active, pos, filepos, tcount, basep, tpc>>
  <2>1. Holding BY DEF SetActiveSend, Send, Holding
  <2> QED BY <2>1, TokenFacts DEF SetActiveSend, Send, Busy, threadVars
<1>2. ~Begun'
  <2>1. command_sem' = 1 BY <1>1
  <2> QED BY <1>1, <2>1 DEF Begun, Asked
<1>3. FileInv' /\ LoopInv' BY <1>1 DEF ThreadInv, FileInv, LoopInv
<1> QED BY <1>2, <1>3 DEF ThreadInv, PosInv, ContentInv

LEMMA AckUndisturbed ==
  ASSUME TokenInv, Ack
  PROVE  Undisturbed
<1>1. /\ tpc # "read" /\ tpc' # "read"
      /\ UNCHANGED <<command_sem, write_pos, buffer, active, pos, filepos, pendingVars>>
  BY DEF Ack
<1> QED BY <1>1 DEF Undisturbed, Asked, pendingVars

\* Every step, by who takes it.
LEMMA StepCases ==
  ASSUME [Next]_vars
  PROVE  \/ UNCHANGED vars
         \/ ConsumerCall
         \/ \E pair \in {<<"setActiveWait", "setActiveSend">>, <<"syncWait", "syncSend">>,
                         <<"nextWait", "nextSend">>, <<"exitWait", "exitSend">>} :
               AwaitAck(pair[1], pair[2])
         \/ \E w \in Which, skip \in Skips, pzb \in Pzbs : SetActiveSend(w, skip, pzb)
         \/ GetSend \/ AdvanceSend \/ CleanupSend \/ Join
         \/ \E n \in 1 .. count : Advance(n)
         \/ Dispatch \/ ReadPiece \/ ReadSilence \/ ReadDone \/ Ack
BY DEF Next, ConsumerStep, ThreadStep, Stopped

LEMMA ThreadKept ==
  ASSUME TokenInv, TypeOK, CommandInv, ThreadInv, AheadInv, [Next]_vars
  PROVE  ThreadInv'
<1>1. CASE UNCHANGED vars
  <2>1. Undisturbed BY <1>1 DEF vars, pendingVars, threadVars, Undisturbed, Asked
  <2> QED BY <2>1, StaysUndisturbed
<1>2. CASE \/ ConsumerCall
           \/ \E from, to : AwaitAck(from, to)
           \/ GetSend \/ AdvanceSend \/ CleanupSend \/ Join \/ \E n \in 1 .. count : Advance(n)
  BY <1>2, ConsumerUndisturbed, StaysUndisturbed
<1>3. CASE \E w \in Which, skip \in Skips, pzb \in Pzbs : SetActiveSend(w, skip, pzb)
  BY <1>3, AskKeeps
<1>4. CASE Dispatch BY <1>4, DispatchKeeps
<1>5. CASE ReadPiece
  <2>1. tpc = "read" BY <1>5 DEF ReadPiece
  <2> QED BY <1>5, <2>1, PieceDoes, PieceKeeps
<1>6. CASE ReadSilence BY <1>6, SilenceKeeps
<1>7. CASE ReadDone BY <1>7, DoneKeeps
<1>8. CASE Ack BY <1>8, AckUndisturbed, StaysUndisturbed
<1> QED BY <1>1, <1>2, <1>3, <1>4, <1>5, <1>6, <1>7, <1>8, StepCases

LEMMA CommandKept ==
  ASSUME TokenInv, TypeOK, CommandInv, ThreadInv, [Next]_vars
  PROVE  CommandInv'
<1>1. CASE UNCHANGED vars
  BY <1>1 DEF vars, pendingVars, threadVars, consumerVars, CommandInv, Begun, Asked, Live
<1>2. CASE ConsumerCall
  <2>1. UNCHANGED <<command_sem, pendingVars, threadVars, need_sync>>
    BY <1>2 DEF ConsumerCall, SetActiveCall, CleanupCall, GetCall
  <2>2. \/ cpc' \notin {"ready", "using", "syncWait", "syncSend", "nextWait", "nextSend"}
        \/ cpc = "ready" /\ cpc' = IF need_sync THEN "syncWait" ELSE "using"
    BY <1>2 DEF ConsumerCall, SetActiveCall, CleanupCall, GetCall
  <2> QED BY <2>1, <2>2 DEF CommandInv, Begun, Asked, Live, pendingVars, threadVars
<1>3. CASE \E pair \in {<<"setActiveWait", "setActiveSend">>, <<"syncWait", "syncSend">>,
                        <<"nextWait", "nextSend">>, <<"exitWait", "exitSend">>} :
             AwaitAck(pair[1], pair[2])
  <2>1. UNCHANGED <<command_sem, pendingVars, threadVars, need_sync>> BY <1>3 DEF AwaitAck
  <2>2. \/ cpc = "setActiveWait" /\ cpc' = "setActiveSend"
        \/ cpc = "syncWait" /\ cpc' = "syncSend"
        \/ cpc = "nextWait" /\ cpc' = "nextSend"
        \/ cpc = "exitWait" /\ cpc' = "exitSend"
    BY <1>3 DEF AwaitAck
  <2> QED BY <2>1, <2>2 DEF CommandInv, Begun, Asked, Live, pendingVars, threadVars
<1>4. CASE \E w \in Which, skip \in Skips, pzb \in Pzbs : SetActiveSend(w, skip, pzb)
  <2>1. Holding BY <1>4 DEF SetActiveSend, Send, Holding
  <2>2. command_sem = 0 /\ tpc # "read" BY <2>1, TokenFacts DEF Busy
  <2>3. /\ command_sem' = 1 /\ pending_command' = "SetActive" /\ need_sync' = TRUE
        /\ cpc' = "ready" /\ UNCHANGED <<tpc, active>>
    BY <1>4, <2>2 DEF SetActiveSend, Send, threadVars
  <2> QED BY <2>2, <2>3 DEF CommandInv, Begun, Asked, Live
<1>5. CASE GetSend \/ AdvanceSend \/ CleanupSend
  <2>1. Holding BY <1>5 DEF GetSend, AdvanceSend, CleanupSend, Send, Holding
  <2>2. command_sem = 0 /\ tpc # "read" BY <2>1, TokenFacts DEF Busy
  <2>3. /\ UNCHANGED <<tpc, active, pending_which>>
        /\ \/ cpc = "syncSend" /\ pending_command' = "NOP" /\ need_sync' = FALSE /\ cpc' = "using"
           \/ cpc = "nextSend" /\ pending_command' = "BufferNext" /\ need_sync' = need_sync /\ cpc' = "ready"
           \/ cpc = "exitSend" /\ pending_command' = "Exit" /\ cpc' = "join"
    BY <1>5 DEF GetSend, AdvanceSend, CleanupSend, Send, threadVars
  <2> QED BY <2>2, <2>3 DEF CommandInv, Begun, Asked, Live
<1>6. CASE Join
  BY <1>6 DEF Join, CommandInv, Begun, Asked, Live, pendingVars, threadVars
<1>7. CASE \E n \in 1 .. count : Advance(n)
  <2>1. /\ UNCHANGED <<command_sem, pendingVars, threadVars, need_sync>>
        /\ cpc = "using" /\ cpc' \in {"nextWait", "ready"}
    BY <1>7 DEF Advance
  <2> QED BY <2>1 DEF CommandInv, Begun, Asked, Live, pendingVars, threadVars
<1>8. CASE Dispatch
  <2>1. /\ command_sem = 1 /\ command_sem' = 0
        /\ UNCHANGED <<pending_command, pending_which, need_sync, cpc>>
    BY <1>8, TokenFacts DEF Dispatch, pendingVars, consumerVars
  <2>2. pending_command \in {"Exit", "NOP", "SetActive", "BufferNext"} BY DEF TypeOK, Commands
  <2>3. CASE pending_command = "SetActive"
    <3>1. active' = pending_which BY <1>8, <2>3 DEF Dispatch
    <3>2. pending_which # 0 BY DEF TypeOK, Which
    <3> QED BY <2>1, <2>3, <3>1, <3>2 DEF CommandInv, Begun, Asked, Live
  <2>4. CASE pending_command = "BufferNext"
    <3>1. active' = active /\ tcount' = Chunk_Size BY <1>8, <2>4 DEF Dispatch
    <3> QED BY <2>1, <2>4, <3>1, Geometry DEF CommandInv, Begun, Asked, Live
  <2>5. CASE pending_command \in {"Exit", "NOP"}
    <3>1. active' = active /\ tpc' # "read" BY <1>8, <2>5 DEF Dispatch
    <3> QED BY <2>1, <2>5, <3>1 DEF CommandInv, Begun, Asked, Live
  <2> QED BY <2>2, <2>3, <2>4, <2>5
<1>9. CASE ReadPiece
  <2>1. tpc = "read" BY <1>9 DEF ReadPiece
  <2>2. PICK n \in 1 .. tcount : PieceOf(n) BY <1>9, PieceDoes
  <2>3. tcount' = tcount - n /\ n \in Nat /\ tcount \in Nat /\ Chunk_Size \in Nat
    BY <2>2, Geometry DEF PieceOf, TypeOK
  <2>4. UNCHANGED <<tpc, active, command_sem, consumerVars, pendingVars>> BY <2>2 DEF PieceOf
  <2> QED BY <2>3, <2>4 DEF CommandInv, Begun, Asked, Live, pendingVars, consumerVars
<1>10. CASE ReadSilence \/ ReadDone
  <2>1. UNCHANGED <<active, command_sem, consumerVars, pendingVars>> /\ tpc' \in {tpc, "ack"}
    BY <1>10 DEF ReadSilence, ReadDone
  <2>2. tpc' = "read" => tcount' = 0 BY <1>10 DEF ReadSilence, ReadDone
  <2> QED BY <2>1, <2>2, Geometry DEF CommandInv, Begun, Asked, Live, pendingVars, consumerVars
<1>11. CASE Ack
  <2>1. UNCHANGED <<active, command_sem, consumerVars, pendingVars>> /\ tpc' # "read"
    BY <1>11 DEF Ack
  <2> QED BY <2>1 DEF CommandInv, Begun, Asked, Live, pendingVars, consumerVars
<1> QED BY <1>1, <1>2, <1>3, <1>4, <1>5, <1>6, <1>7, <1>8, <1>9, <1>10, <1>11, StepCases

----------------------------------------------------------------------------
(* The thread stays ahead of the consumer.                                 *)

LEMMA AheadConsumer ==
  ASSUME TokenInv, TypeOK, CommandInv, AheadInv,
         \/ ConsumerCall
         \/ \E pair \in {<<"setActiveWait", "setActiveSend">>, <<"syncWait", "syncSend">>,
                         <<"nextWait", "nextSend">>, <<"exitWait", "exitSend">>} :
               AwaitAck(pair[1], pair[2])
         \/ \E w \in Which, skip \in Skips, pzb \in Pzbs : SetActiveSend(w, skip, pzb)
         \/ GetSend \/ AdvanceSend \/ CleanupSend \/ Join
         \/ \E n \in 1 .. count : Advance(n)
  PROVE  AheadInv'
<1>1. CASE ConsumerCall
  <2>1. UNCHANGED <<command_sem, pendingVars, threadVars, need_sync, read_pos, write_pos>>
    BY <1>1 DEF ConsumerCall, SetActiveCall, CleanupCall, GetCall
  <2>2. \/ cpc' \notin {"ready", "using", "syncWait", "syncSend", "nextWait", "nextSend"}
        \/ cpc = "ready" /\ cpc' \in {"syncWait", "using"}
    BY <1>1 DEF ConsumerCall, SetActiveCall, CleanupCall, GetCall
  <2>3. Due' = Due BY <2>1 DEF Due, Rest, pendingVars, threadVars
  <2> QED BY <2>1, <2>2, <2>3 DEF AheadInv, Asked, Live, Crossed, pendingVars
<1>2. CASE \E pair \in {<<"setActiveWait", "setActiveSend">>, <<"syncWait", "syncSend">>,
                        <<"nextWait", "nextSend">>, <<"exitWait", "exitSend">>} :
             AwaitAck(pair[1], pair[2])
  <2>1. UNCHANGED <<command_sem, pendingVars, threadVars, need_sync, read_pos, write_pos>>
    BY <1>2 DEF AwaitAck
  <2>2. \/ cpc = "setActiveWait" /\ cpc' = "setActiveSend"
        \/ cpc = "syncWait" /\ cpc' = "syncSend"
        \/ cpc = "nextWait" /\ cpc' = "nextSend"
        \/ cpc = "exitWait" /\ cpc' = "exitSend"
    BY <1>2 DEF AwaitAck
  <2>3. Due' = Due BY <2>1 DEF Due, Rest, pendingVars, threadVars
  <2> QED BY <2>1, <2>2, <2>3 DEF AheadInv, Asked, Live, Crossed, pendingVars
<1>3. CASE \E w \in Which, skip \in Skips, pzb \in Pzbs : SetActiveSend(w, skip, pzb)
  <2>1. Holding BY <1>3 DEF SetActiveSend, Send, Holding
  <2>2. command_sem = 0 /\ tpc # "read" BY <2>1, TokenFacts DEF Busy
  <2>3. /\ command_sem' = 1 /\ pending_command' = "SetActive" /\ cpc' = "ready"
        /\ read_pos' = 0 /\ write_pos' = 0 /\ tpc' = tpc
    BY <1>3, <2>2 DEF SetActiveSend, Send, threadVars
  <2>4. Due' = 0 + Buffer_Size /\ Crossed' = 0 BY <2>2, <2>3 DEF Due, Rest, Crossed
  <2>5. 0 \div Chunk_Size = 0
    <3>1. 0 = Chunk_Size * 0 + 0 /\ 0 \in 0 .. Chunk_Size - 1 BY Geometry
    <3> QED BY <3>1, Quotient, Geometry
  <2>6. 0 + (0 + Buffer_Size) + 0 = Buffer_Size + Chunk_Size * 0 BY Geometry
  <2> QED BY <2>3, <2>4, <2>5, <2>6 DEF AheadInv
<1>4. CASE GetSend \/ AdvanceSend \/ CleanupSend
  <2>1. Holding BY <1>4 DEF GetSend, AdvanceSend, CleanupSend, Send, Holding
  <2>2. command_sem = 0 /\ tpc # "read" BY <2>1, TokenFacts DEF Busy
  <2>3. /\ UNCHANGED <<tpc, write_pos, read_pos>> /\ command_sem' = 1
        /\ \/ cpc = "syncSend" /\ pending_command' = "NOP" /\ need_sync' = FALSE /\ cpc' = "using"
           \/ cpc = "nextSend" /\ pending_command' = "BufferNext" /\ need_sync' = need_sync /\ cpc' = "ready"
           \/ cpc = "exitSend" /\ pending_command' = "Exit" /\ cpc' = "join"
    BY <1>4, <2>2 DEF GetSend, AdvanceSend, CleanupSend, Send, threadVars
  <2>4. Due = 0 + 0 BY <2>2 DEF Due, Rest
  <2>5. write_pos \in Nat /\ read_pos \in Nat BY DEF TypeOK
  <2>6. CASE cpc = "syncSend" /\ pending_command' = "NOP" /\ need_sync' = FALSE /\ cpc' = "using"
    <3>1. Due' = 0 + 0 /\ Crossed = 0 /\ Crossed' = 0 BY <2>2, <2>3, <2>6 DEF Due, Rest, Crossed
    <3> QED BY <2>3, <2>4, <2>6, <3>1 DEF AheadInv, Live, Asked
  <2>7. CASE cpc = "nextSend" /\ pending_command' = "BufferNext" /\ need_sync' = need_sync /\ cpc' = "ready"
    <3>1. Due' = 0 + Chunk_Size /\ Crossed = Chunk_Size /\ Crossed' = 0
      BY <2>2, <2>3, <2>7 DEF Due, Rest, Crossed
    <3>2. write_pos + (0 + Chunk_Size) + 0 = write_pos + (0 + 0) + Chunk_Size BY <2>5, Geometry
    <3> QED BY <2>3, <2>4, <2>7, <3>1, <3>2 DEF AheadInv, Live, Asked
  <2>8. CASE cpc = "exitSend" /\ pending_command' = "Exit" /\ cpc' = "join"
    BY <2>3, <2>8 DEF AheadInv, Live, Asked
  <2> QED BY <2>3, <2>6, <2>7, <2>8
<1>5. CASE Join
  BY <1>5 DEF Join, AheadInv, Live, Asked, pendingVars
<1>6. ASSUME NEW n \in 1 .. count, Advance(n) PROVE AheadInv'
  <2>1. /\ UNCHANGED <<command_sem, pendingVars, threadVars, need_sync, write_pos>>
        /\ cpc = "using" /\ read_pos' = read_pos + n
        /\ cpc' = IF ChunkBit(read_pos) # ChunkBit(read_pos + n) THEN "nextWait" ELSE "ready"
    BY <1>6 DEF Advance
  <2>2. Due' = Due BY <2>1 DEF Due, Rest, pendingVars, threadVars
  <2>3. ~need_sync /\ Live BY <2>1 DEF CommandInv, Live
  <2>4. /\ read_pos \in Nat /\ write_pos \in Nat /\ n \in 0 .. Chunk_Size
        /\ Chunk_Size \in Nat \ {0} /\ Buffer_Size \in Nat
    BY Geometry DEF TypeOK
  <2>5. write_pos + Due = Buffer_Size + Chunk_Size * (read_pos \div Chunk_Size)
    <3>1. Crossed = 0 BY <2>1 DEF Crossed
    <3>2. Due \in Int BY Geometry DEF Due, Rest, TypeOK
    <3> QED BY <2>3, <2>4, <3>1, <3>2 DEF AheadInv
  <2> DEFINE q == read_pos \div Chunk_Size
  <2>6. q \in Int /\ (read_pos % Chunk_Size) \in Int BY <2>4, Division
  <2>7. \/ (read_pos + n) \div Chunk_Size = q
        \/ (read_pos + n) \div Chunk_Size = q + 1
    <3>1. \/ (read_pos % Chunk_Size) + n < Chunk_Size \/ (read_pos % Chunk_Size) + n >= Chunk_Size
      BY <2>4, <2>6
    <3>2. read_pos \in Int BY <2>4
    <3>3. /\ (read_pos % Chunk_Size) + n < Chunk_Size => (read_pos + n) \div Chunk_Size = q
          /\ (read_pos % Chunk_Size) + n >= Chunk_Size => (read_pos + n) \div Chunk_Size = q + 1
      BY <2>4, <3>2, Further
    <3> QED BY <3>1, <3>3
  <2>8. CASE (read_pos + n) \div Chunk_Size = q
    <3>1. cpc' = "ready" BY <2>1, <2>8 DEF ChunkBit
    <3>2. Crossed' = 0 BY <3>1 DEF Crossed
    <3>3. Due \in Int BY Geometry DEF Due, Rest, TypeOK
    <3>4. write_pos + Due + 0 = Buffer_Size + Chunk_Size * q BY <2>4, <2>5, <3>3
    <3> QED BY <2>1, <2>2, <2>3, <2>8, <3>2, <3>4 DEF AheadInv, Asked, pendingVars
  <2>9. CASE (read_pos + n) \div Chunk_Size = q + 1
    <3> HIDE DEF q
    <3>1. q % 2 # (q + 1) % 2 BY <2>6
    <3>2. cpc' = "nextWait" BY <2>1, <2>9, <3>1 DEF ChunkBit, q
    <3>3. Crossed' = Chunk_Size BY <3>2 DEF Crossed
    <3>4. Due \in Int BY Geometry DEF Due, Rest, TypeOK
    <3>5. write_pos + Due + Chunk_Size = Buffer_Size + Chunk_Size * (q + 1)
      <4>1. Chunk_Size * (q + 1) = Chunk_Size * q + Chunk_Size BY <2>4, <2>6
      <4>2. write_pos + Due = Buffer_Size + Chunk_Size * q BY <2>5 DEF q
      <4>3. Chunk_Size * q \in Int BY <2>4, <2>6
      <4> QED BY <2>4, <3>4, <4>1, <4>2, <4>3
    <3> QED BY <2>1, <2>2, <2>3, <2>9, <3>3, <3>5 DEF AheadInv, Asked, pendingVars
  <2> QED BY <2>7, <2>8, <2>9
<1> QED BY <1>1, <1>2, <1>3, <1>4, <1>5, <1>6

\* Bytes still to come become bytes written, and nothing more is asked for.
LEMMA AheadThread ==
  ASSUME TokenInv, TypeOK, CommandInv, ThreadInv, AheadInv,
         Dispatch \/ ReadPiece \/ ReadSilence \/ ReadDone \/ Ack
  PROVE  AheadInv'
<1>1. UNCHANGED <<cpc, need_sync, read_pos, pending_command>> /\ Live' = Live /\ Crossed' = Crossed
  BY DEF Dispatch, ReadPiece, ReadSilence, ReadDone, Ack, consumerVars, pendingVars, Live, Crossed
<1>2. write_pos \in Nat /\ tcount \in Nat /\ pending_pzb \in Nat /\ Buffer_Size \in Nat
      /\ Chunk_Size \in Nat
  BY Geometry DEF TypeOK
<1>3. SUFFICES ~Asked' /\ (Live => write_pos' + Due' = write_pos + Due)
  <2>1. Due \in Int /\ Crossed \in Int BY <1>2 DEF Due, Rest, Crossed
  <2> QED BY <1>1, <1>2, <2>1 DEF AheadInv
<1>4. CASE Dispatch
  <2>1. tpc = "wait" /\ command_sem = 1 /\ command_sem' = 0 BY <1>4, TokenFacts DEF Dispatch
  <2>2. pending_command \in {"Exit", "NOP", "SetActive", "BufferNext"} BY DEF TypeOK, Commands
  <2>3. CASE pending_command = "SetActive"
    <3>1. /\ write_pos' = write_pos + pending_pzb /\ tcount' = Buffer_Size - pending_pzb /\ tpc' = "read"
      BY <1>4, <2>3 DEF Dispatch
    <3>2. Due = 0 + Buffer_Size /\ Due' = (Buffer_Size - pending_pzb) + 0
      BY <1>1, <2>1, <2>3, <3>1 DEF Due, Rest
    <3> QED BY <1>2, <2>1, <3>1, <3>2 DEF Asked
  <2>4. CASE pending_command = "BufferNext"
    <3>1. write_pos' = write_pos /\ tcount' = Chunk_Size /\ tpc' = "read" BY <1>4, <2>4 DEF Dispatch
    <3>2. Due = 0 + Chunk_Size /\ Due' = Chunk_Size + 0
      BY <1>1, <2>1, <2>4, <3>1 DEF Due, Rest
    <3> QED BY <1>2, <2>1, <3>1, <3>2 DEF Asked
  <2>5. CASE pending_command \in {"Exit", "NOP"}
    <3>1. write_pos' = write_pos /\ tpc' # "read" BY <1>4, <2>5 DEF Dispatch
    <3>2. Due = 0 + 0 /\ Due' = 0 + 0 BY <1>1, <2>1, <2>5, <3>1 DEF Due, Rest
    <3> QED BY <1>2, <2>1, <3>1, <3>2 DEF Asked
  <2> QED BY <2>2, <2>3, <2>4, <2>5
<1>5. CASE ReadPiece \/ ReadSilence \/ ReadDone
  <2>1. tpc = "read" BY <1>5 DEF ReadPiece, ReadSilence, ReadDone
  <2>2. command_sem = 0 /\ command_sem' = 0
    BY <1>5, <2>1, Reading DEF ReadPiece, ReadSilence, ReadDone, ThreadInv
  <2>3. CASE ReadPiece
    <3>1. PICK n \in 1 .. tcount : PieceOf(n) BY <2>3, PieceDoes
    <3>2. write_pos' = write_pos + n /\ tcount' = tcount - n /\ tpc' = "read" /\ n \in Nat
      BY <2>1, <3>1 DEF PieceOf
    <3>3. Due = tcount + 0 /\ Due' = (tcount - n) + 0 BY <2>1, <2>2, <3>2 DEF Due, Rest
    <3> QED BY <1>2, <2>2, <3>2, <3>3 DEF Asked
  <2>4. CASE ReadSilence
    <3>1. write_pos' = write_pos + tcount /\ tcount' = 0 /\ tpc' = "read" BY <2>1, <2>4 DEF ReadSilence
    <3>2. Due = tcount + 0 /\ Due' = 0 + 0 BY <2>1, <2>2, <3>1 DEF Due, Rest
    <3> QED BY <1>2, <2>2, <3>1, <3>2 DEF Asked
  <2>5. CASE ReadDone
    <3>1. write_pos' = write_pos /\ tcount = 0 /\ tpc' = "ack" BY <2>5 DEF ReadDone
    <3>2. Due = 0 + 0 /\ Due' = 0 + 0 BY <2>1, <2>2, <3>1 DEF Due, Rest
    <3> QED BY <1>2, <2>2, <3>1, <3>2 DEF Asked
  <2> QED BY <1>5, <2>3, <2>4, <2>5
<1>6. CASE Ack
  <2>1. Busy BY <1>6 DEF Ack, Busy
  <2>2. command_sem = 0 BY <2>1, TokenFacts DEF TokenInv
  <2>3. command_sem' = 0 /\ write_pos' = write_pos /\ tpc # "read" /\ tpc' # "read"
    BY <1>6, <2>2 DEF Ack
  <2>4. Due = 0 + 0 /\ Due' = 0 + 0 BY <2>2, <2>3 DEF Due, Rest
  <2> QED BY <2>3, <2>4 DEF Asked
<1> QED BY <1>4, <1>5, <1>6

LEMMA AheadKept ==
  ASSUME TokenInv, TypeOK, CommandInv, ThreadInv, AheadInv, [Next]_vars
  PROVE  AheadInv'
<1>1. CASE UNCHANGED vars
  <2>1. Due' = Due BY <1>1 DEF vars, pendingVars, threadVars, Due, Rest
  <2> QED BY <1>1, <2>1
       DEF vars, consumerVars, pendingVars, threadVars, AheadInv, Asked, Live, Crossed
<1> QED BY <1>1, AheadConsumer, AheadThread, StepCases

----------------------------------------------------------------------------
(* Types.                                                                  *)

LEMMA TypesConsumer ==
  ASSUME TokenInv', TypeOK,
         \/ ConsumerCall
         \/ \E pair \in {<<"setActiveWait", "setActiveSend">>, <<"syncWait", "syncSend">>,
                         <<"nextWait", "nextSend">>, <<"exitWait", "exitSend">>} :
               AwaitAck(pair[1], pair[2])
         \/ \E w \in Which, skip \in Skips, pzb \in Pzbs : SetActiveSend(w, skip, pzb)
         \/ GetSend \/ AdvanceSend \/ CleanupSend \/ Join
         \/ \E n \in 1 .. count : Advance(n)
  PROVE  TypeOK'
<1>1. command_sem' \in 0 .. 1 /\ ack_sem' \in 0 .. 1 BY TokenRange
<1>2. UNCHANGED threadVars
  BY DEF ConsumerCall, SetActiveCall, CleanupCall, GetCall, AwaitAck, SetActiveSend, GetSend,
         AdvanceSend, CleanupSend, Send, Join, Advance
<1>3. /\ read_pos' \in Nat /\ write_pos' \in Nat /\ count' \in 0 .. Overbuffer_Count
      /\ need_sync' \in BOOLEAN /\ cpc' \in ConsumerStates
  <2>1. CASE ConsumerCall
    BY <2>1, Geometry
       DEF ConsumerCall, SetActiveCall, CleanupCall, GetCall, TypeOK, ConsumerStates
  <2>2. CASE \E pair \in {<<"setActiveWait", "setActiveSend">>, <<"syncWait", "syncSend">>,
                          <<"nextWait", "nextSend">>, <<"exitWait", "exitSend">>} :
               AwaitAck(pair[1], pair[2])
    BY <2>2 DEF AwaitAck, TypeOK, ConsumerStates
  <2>3. CASE \E w \in Which, skip \in Skips, pzb \in Pzbs : SetActiveSend(w, skip, pzb)
    BY <2>3 DEF SetActiveSend, Send, TypeOK, ConsumerStates
  <2>4. CASE GetSend \/ AdvanceSend \/ CleanupSend
    BY <2>4 DEF GetSend, AdvanceSend, CleanupSend, Send, TypeOK, ConsumerStates
  <2>5. CASE Join BY <2>5 DEF Join, TypeOK, ConsumerStates
  <2>6. CASE \E n \in 1 .. count : Advance(n)
    BY <2>6, Geometry DEF Advance, TypeOK, ConsumerStates
  <2> QED BY <2>1, <2>2, <2>3, <2>4, <2>5, <2>6
<1>4. /\ pending_command' \in Commands /\ pending_which' \in Which
      /\ pending_skip' \in Nat /\ pending_pzb' \in 0 .. Buffer_Size
  <2>1. CASE \E w \in Which, skip \in Skips, pzb \in Pzbs : SetActiveSend(w, skip, pzb)
    BY <2>1, ArgsAssumption DEF SetActiveSend, Send, Commands
  <2>2. CASE GetSend \/ AdvanceSend \/ CleanupSend
    BY <2>2 DEF GetSend, AdvanceSend, CleanupSend, Send, TypeOK, Commands
  <2>3. CASE UNCHANGED pendingVars BY <2>3 DEF pendingVars, TypeOK
  <2>4. \/ UNCHANGED pendingVars
        \/ \E w \in Which, skip \in Skips, pzb \in Pzbs : SetActiveSend(w, skip, pzb)
        \/ GetSend \/ AdvanceSend \/ CleanupSend
    BY DEF ConsumerCall, SetActiveCall, CleanupCall, GetCall, AwaitAck, Join, Advance
  <2> QED BY <2>1, <2>2, <2>3, <2>4
<1> QED BY <1>1, <1>2, <1>3, <1>4 DEF TypeOK, threadVars

LEMMA TypesThread ==
  ASSUME TokenInv, TokenInv', TypeOK, CommandInv, ThreadInv,
         Dispatch \/ ReadPiece \/ ReadSilence \/ ReadDone \/ Ack
  PROVE  TypeOK'
<1>1. command_sem' \in 0 .. 1 /\ ack_sem' \in 0 .. 1 BY TokenRange
<1>2. /\ pending_command' \in Commands /\ pending_which' \in Which
      /\ pending_skip' \in Nat /\ pending_pzb' \in 0 .. Buffer_Size
      /\ read_pos' \in Nat /\ count' \in 0 .. Overbuffer_Count
      /\ need_sync' \in BOOLEAN /\ cpc' \in ConsumerStates
  BY DEF Dispatch, ReadPiece, ReadSilence, ReadDone, Ack, pendingVars, consumerVars, TypeOK
<1>3. /\ pos \in [Which -> Nat] /\ filepos \in [Which -> Nat] /\ tcount \in 0 .. Buffer_Size
      /\ write_pos \in Nat /\ Buffer_Size \in Nat /\ active \in {0} \cup Which /\ basep \in Ring \cup {NoBase}
      /\ DOMAIN buffer = Cells /\ tpc \in ThreadStates /\ tcount \in Nat
  BY Geometry DEF TypeOK
<1>4. SUFFICES /\ tpc' \in ThreadStates /\ write_pos' \in Nat /\ DOMAIN buffer' = Cells
               /\ active' \in {0} \cup Which /\ pos' \in [Which -> Nat] /\ filepos' \in [Which -> Nat]
               /\ tcount' \in 0 .. Buffer_Size /\ basep' \in Ring \cup {NoBase}
  BY <1>1, <1>2 DEF TypeOK
<1>5. CASE Dispatch
  <2>1. pending_command \in {"Exit", "NOP", "SetActive", "BufferNext"} BY DEF TypeOK, Commands
  <2>2. CASE pending_command = "SetActive"
    <3>1. /\ pending_which \in Which /\ pending_skip \in Nat /\ pending_pzb \in 0 .. Buffer_Size
      BY DEF TypeOK
    <3>2. StartPos(pending_which, pending_skip) \in Nat BY <3>1, StartsWithin, StreamTypes
    <3>3. /\ active' = pending_which /\ tpc' = "read" /\ basep' = NoBase
          /\ pos' = [pos EXCEPT ![pending_which] = StartPos(pending_which, pending_skip)]
          /\ filepos' = [filepos EXCEPT ![pending_which] = StartPos(pending_which, pending_skip)]
          /\ buffer' = Zeroed(buffer, Masked(write_pos), pending_pzb)
          /\ write_pos' = write_pos + pending_pzb /\ tcount' = Buffer_Size - pending_pzb
      BY <1>5, <2>2 DEF Dispatch
    <3>4. pos' \in [Which -> Nat] /\ filepos' \in [Which -> Nat] BY <1>3, <3>2, <3>3
    <3>5. DOMAIN buffer' = Cells BY <3>3 DEF Zeroed, Mirrored
    <3>6. write_pos' \in Nat /\ tcount' \in 0 .. Buffer_Size BY <1>3, <3>1, <3>3
    <3> QED BY <3>1, <3>3, <3>4, <3>5, <3>6 DEF ThreadStates
  <2>3. CASE pending_command = "BufferNext"
    BY <1>3, <1>5, <2>3, Geometry DEF Dispatch, ThreadStates
  <2>4. CASE pending_command \in {"Exit", "NOP"}
    BY <1>3, <1>5, <2>4 DEF Dispatch, ThreadStates
  <2> QED BY <2>1, <2>2, <2>3, <2>4
<1>6. CASE ReadPiece
  <2>1. tpc = "read" BY <1>6 DEF ReadPiece
  <2>2. PICK n \in 1 .. tcount : PieceOf(n) BY <1>6, PieceDoes
  <2>3. active \in Which /\ Size(active) \in Nat /\ LoopPos(active) \in Nat
    BY <2>1, Reading, StreamTypes DEF ThreadInv
  <2>4. /\ tpc' \in ThreadStates /\ DOMAIN buffer' = Cells /\ active' \in {0} \cup Which
        /\ write_pos' \in Nat /\ tcount' \in 0 .. Buffer_Size /\ n \in Nat
    BY <1>3, <2>2 DEF PieceOf
  <2>5. pos[active] \in Nat /\ filepos[active] \in Nat BY <1>3, <2>3
  <2>6. pos' \in [Which -> Nat] BY <1>3, <2>2, <2>3, <2>4, <2>5 DEF PieceOf
  <2>7. filepos' \in [Which -> Nat] BY <1>3, <2>2, <2>3, <2>4, <2>5 DEF PieceOf
  <2>8. Masked(write_pos) \in Ring
    <3>1. 0 \in 0 .. Buffer_Size BY <1>3
    <3> QED BY <1>3, <3>1, Follows
  <2>9. basep' \in Ring \cup {NoBase} BY <1>3, <2>2, <2>8 DEF PieceOf
  <2> QED BY <2>4, <2>6, <2>7, <2>9
<1>7. CASE ReadSilence
  <2>1. /\ write_pos' = write_pos + tcount /\ tcount' = 0 /\ UNCHANGED <<tpc, active, pos, filepos, basep>>
        /\ buffer' = Zeroed(buffer, Masked(write_pos), tcount)
    BY <1>7 DEF ReadSilence
  <2>2. DOMAIN buffer' = Cells BY <2>1 DEF Zeroed, Mirrored
  <2> QED BY <1>3, <2>1, <2>2
<1>8. CASE ReadDone
  <2>1. /\ UNCHANGED <<write_pos, active, pos, tcount, basep>> /\ tpc = "read" /\ tpc' = "ack"
        /\ buffer' = Mirrored(buffer)
        /\ filepos' = IF basep = NoBase THEN filepos ELSE [filepos EXCEPT ![active] = pos[active]]
    BY <1>8 DEF ReadDone
  <2>2. active \in Which BY <2>1, Reading DEF ThreadInv
  <2>3. filepos' \in [Which -> Nat] BY <1>3, <2>1, <2>2
  <2>4. DOMAIN buffer' = Cells BY <2>1 DEF Mirrored
  <2> QED BY <1>3, <2>1, <2>3, <2>4 DEF ThreadStates
<1>9. CASE Ack BY <1>3, <1>9 DEF Ack, ThreadStates
<1> QED BY <1>5, <1>6, <1>7, <1>8, <1>9

----------------------------------------------------------------------------
(* The theorems.                                                           *)

LEMMA Inductive == Spec => []IInv
<1>1. IInv /\ [Next]_vars => IInv'
  <2> SUFFICES ASSUME IInv, [Next]_vars PROVE IInv' OBVIOUS
  <2>1. TokenInv' BY TokenStep DEF IInv
  <2>2. TypeOK'
    <3>1. CASE UNCHANGED vars
      BY <3>1 DEF vars, consumerVars, pendingVars, threadVars, IInv, TypeOK
    <3> QED BY <2>1, <3>1, TypesConsumer, TypesThread, StepCases DEF IInv
  <2>3. CommandInv' /\ ThreadInv' /\ AheadInv' BY CommandKept, ThreadKept, AheadKept DEF IInv
  <2> QED BY <2>1, <2>2, <2>3 DEF IInv
<1> QED BY <1>1, InitInv, PTL DEF Spec

\* Every variable keeps its type: no call leaves the ring, the streams or the
\* semaphores' range, whatever is asked of MTStreamReader.
THEOREM TypeCorrect == Spec => []TypeOK
<1>1. IInv => TypeOK BY DEF IInv
<1> QED BY <1>1, Inductive, PTL

\* After read_into_buffer the file's cursor is StreamInfo.pos, also when the
\* last pieces were copied from the loop's body in memory.
THEOREM FileIsInStep == Spec => []FileFollows
<1>1. IInv => FileFollows BY DEF IInv, ThreadInv, FileInv, FileFollows
<1> QED BY <1>1, Inductive, PTL

\* What get_buffer hands out is the stream's next bytes, its silence or its
\* loop, for as long as the caller uses them and whatever the thread fills
\* meanwhile: the window ends before what is being filled, and starts after it.
THEOREM WindowIsCorrect == Spec => []WindowCorrect
<1>1. IInv => WindowCorrect
  <2> SUFFICES ASSUME IInv, cpc = "using", NEW j \in 0 .. count - 1
               PROVE  buffer[Masked(read_pos) + j] = Expected(read_pos + j)
    BY DEF WindowCorrect
  <2>1. /\ read_pos \in Nat /\ write_pos \in Nat /\ tcount \in Nat /\ count \in Nat
        /\ j \in Nat /\ j < Overbuffer_Count /\ j < Chunk_Size /\ command_sem \in 0 .. 1
        /\ Buffer_Size = 4 * Chunk_Size /\ Chunk_Size \in Nat \ {0}
    BY Geometry DEF IInv, TypeOK
  <2>2. Live /\ pending_command \notin {"SetActive", "Exit"} /\ Begun
    BY DEF IInv, CommandInv, Live, Begun, Asked
  <2> DEFINE q == Chunk_Size * (read_pos \div Chunk_Size)
  <2>3. q \in Int /\ q <= read_pos /\ read_pos < q + Chunk_Size
    <3>1. /\ read_pos \div Chunk_Size \in Int /\ read_pos % Chunk_Size \in 0 .. Chunk_Size - 1
          /\ read_pos = Chunk_Size * (read_pos \div Chunk_Size) + (read_pos % Chunk_Size)
      BY <2>1, Division
    <3> QED BY <2>1, <3>1
  <2>4. write_pos + Due + 0 = Buffer_Size + q BY <2>2 DEF IInv, AheadInv, Crossed
  <2> HIDE DEF q
  <2>5. Rest \in Nat /\ Due \in Nat /\ Due >= Rest BY <2>1, <2>2 DEF Due, Rest
  <2>6. Start \in Int /\ Start >= Buffer_Size + q - Chunk_Size
    <3>1. CASE tpc = "read"
      <4>1. command_sem = 0 BY <3>1, TokenFacts DEF IInv, Busy, TokenInv, OneToken, Units
      <4>2. Due = tcount + 0 BY <3>1, <4>1 DEF Due, Rest
      <4>3. Start = write_pos + tcount - Chunk_Size BY <2>2, <3>1 DEF Start
      <4> QED BY <2>1, <2>3, <2>4, <4>2, <4>3
    <3>2. CASE tpc # "read"
      <4>1. Due <= Chunk_Size BY <2>1, <2>2, <3>2 DEF Due, Rest
      <4>2. Start = write_pos BY <3>2 DEF Start
      <4> QED BY <2>1, <2>3, <2>4, <2>5, <4>1, <4>2
    <3> QED BY <3>1, <3>2
  <2> DEFINE l == read_pos + j
  <2>7. /\ l \in Nat /\ l < Start /\ l < write_pos /\ write_pos + Rest <= l + Buffer_Size
    <3>1. l < Buffer_Size + q - Chunk_Size BY <2>1, <2>3
    <3>2. Start <= write_pos BY <2>1, <2>2 DEF Start, IInv, CommandInv
    <3> QED BY <2>1, <2>3, <2>4, <2>5, <2>6, <3>1, <3>2
  <2> HIDE DEF l
  <2>8. /\ buffer[Masked(l)] = Expected(l)
        /\ Masked(l) < Overbuffer_Count => buffer[Masked(l) + Buffer_Size] = Expected(l)
    BY <2>2, <2>7 DEF IInv, ThreadInv, ContentInv
  <2>9. Masked(read_pos) \in Nat /\ Masked(read_pos) < Buffer_Size /\ j \in 0 .. Buffer_Size
    <3>1. j \in 0 .. Buffer_Size BY <2>1
    <3> QED BY <2>1, <3>1, Follows DEF Ring
  <2>10. CASE Masked(read_pos) + j < Buffer_Size
    <3>1. Masked(l) = Masked(read_pos) + j BY <2>1, <2>9, <2>10, Follows DEF l
    <3> QED BY <2>8, <3>1 DEF l
  <2>11. CASE Masked(read_pos) + j >= Buffer_Size
    <3>1. Masked(l) = Masked(read_pos) + j - Buffer_Size BY <2>1, <2>9, <2>11, Follows DEF l
    <3>2. Masked(l) < Overbuffer_Count /\ Masked(l) + Buffer_Size = Masked(read_pos) + j
      BY <2>1, <2>9, <3>1, Geometry
    <3> QED BY <2>8, <3>2 DEF l
  <2> QED BY <2>1, <2>9, <2>10, <2>11
<1> QED BY <1>1, Inductive, PTL
============================================================================
