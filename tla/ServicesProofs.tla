--------------------------- MODULE ServicesProofs ---------------------------
(***************************************************************************)
(* What the emulation's surroundings promise, for any semaphores, bus,     *)
(* ports, frames and calls.                                                *)
(***************************************************************************)
EXTENDS Services, TLAPS, FiniteSetTheorems, WellFoundedInduction

----------------------------------------------------------------------------
(* Steps one after the other.                                              *)

\* Sets of numbers that hold 0 and every successor hold all.
LEMMA NatSet == ASSUME NEW T, T \subseteq Nat, 0 \in T, \A n \in T : n + 1 \in T PROVE Nat \subseteq T
<1> DEFINE B == Nat \ T
           C == {0 .. n : n \in B}
<1>1. SUFFICES ASSUME B # {} PROVE FALSE
  OBVIOUS
<1>2. B \subseteq Nat
  OBVIOUS
<1>a. C \subseteq FiniteSubsetsOf(Nat)
  <2>1. SUFFICES ASSUME NEW n \in Nat PROVE 0 .. n \in FiniteSubsetsOf(Nat)
    OBVIOUS
  <2>2. IsFiniteSet(0 .. n) BY FS_Interval
  <2> QED BY <2>2 DEF FiniteSubsetsOf
<1>b. C # {} BY <1>1
<1>3. \E c \in C : \A d \in C : ~ (<<d, c>> \in StrictSubsetOrdering(Nat))
  <2> HIDE DEF C
  <2> QED BY <1>a, <1>b, WFMin, FS_StrictSubsetOrderingWellFounded
<1>4. PICK x \in B : \A y \in B : <<0 .. y, 0 .. x>> \notin StrictSubsetOrdering(Nat)
  BY <1>3
<1>5. x \in Nat /\ x # 0
  BY <1>4
<1>6. x - 1 \in Nat
  BY <1>5
<1>7. <<0 .. x - 1, 0 .. x>> \in StrictSubsetOrdering(Nat)
  <2>1. 0 .. x - 1 \subseteq 0 .. x /\ 0 .. x \subseteq Nat
    BY <1>5
  <2>2. x \in 0 .. x /\ x \notin 0 .. x - 1
    BY <1>5
  <2> QED BY <2>1, <2>2 DEF StrictSubsetOrdering
<1>8. x - 1 \in T
  BY <1>4, <1>6, <1>7
<1> QED BY <1>4, <1>8, <1>5

\* Steps from a: one after the other, each within S.
LEMMA StepsTaken ==
  ASSUME NEW S, NEW a \in S, NEW n \in Nat, NEW g \in [1 .. n -> [S -> S]]
  PROVE  \E h \in [0 .. n -> S] : h[0] = a /\ \A i \in 1 .. n : h[i] = g[i][h[i - 1]]
<1> DEFINE Taken(k) == \E h \in [0 .. k -> S] : h[0] = a /\ \A i \in 1 .. k : h[i] = g[i][h[i - 1]]
           T == {k \in Nat : k <= n => Taken(k)}
<1>1. Taken(0)
  <2> DEFINE h == [i \in 0 .. 0 |-> a]
  <2>1. h \in [0 .. 0 -> S] /\ h[0] = a /\ 1 .. 0 = {} OBVIOUS
  <2> QED BY <2>1
<1>2. ASSUME NEW k \in T PROVE k + 1 \in T
  <2>0. k \in Nat /\ (k <= n => Taken(k)) BY <1>2
  <2>1. SUFFICES ASSUME k + 1 <= n PROVE Taken(k + 1)
    <3> HIDE DEF Taken
    <3> QED BY <2>0
  <2>2. k \in Nat /\ k <= n /\ Taken(k) BY <2>0, <2>1
  <2>3. PICK h \in [0 .. k -> S] : h[0] = a /\ \A i \in 1 .. k : h[i] = g[i][h[i - 1]] BY <2>2
  <2> DEFINE next == [i \in 0 .. k + 1 |-> IF i = k + 1 THEN g[k + 1][h[k]] ELSE h[i]]
  <2>4. h[k] \in S /\ g[k + 1][h[k]] \in S BY <2>1, <2>2
  <2>5. next \in [0 .. k + 1 -> S] BY <2>2, <2>4
  <2>6. ASSUME NEW i \in 1 .. k + 1 PROVE next[i] = g[i][next[i - 1]]
    <3>1. CASE i = k + 1
      <4>1. next[i] = g[k + 1][h[k]] /\ i - 1 = k /\ next[k] = h[k] BY <3>1, <2>2
      <4> QED BY <4>1, <3>1
    <3>2. CASE i # k + 1
      <4>1. i \in 1 .. k /\ next[i] = h[i] /\ next[i - 1] = h[i - 1] BY <3>2, <2>2
      <4> QED BY <2>3, <4>1
    <3> QED BY <3>1, <3>2
  <2>7. next[0] = a BY <2>2, <2>3
  <2> QED BY <2>5, <2>6, <2>7
<1>3. 0 \in T /\ T \subseteq Nat BY <1>1
<1>4. Nat \subseteq T
  <2> HIDE DEF T
  <2> QED BY <1>2, <1>3, NatSet
<1> QED BY <1>4

----------------------------------------------------------------------------
(* Semaphores and threads.                                                 *)

SemPlace == {"idle", "lock", "wait", "woken", "late"}
SemState ==
  [kind : {"native", "condvar", "event"}, v : Int, evt : BOOLEAN,
   pc : [Sync!Callers -> SemPlace], timed : SUBSET SemWaiters, until : [sec : Int, nsec : Int],
   now : Int, posted : Int, taken : Int, left : [SemPosters -> Int]]
ThreadState ==
  [kind : {"thread"}, at : {"none", "running", "threw", "ended", "exited", "joined"},
   rv : Int, status : Int, frees : Int, results : SUBSET Int]

SemComing(x)  == {t \in SemWaiters : x.pc[t] \in {"lock", "woken"}}
SemWaiting(x) == {t \in SemWaiters : x.pc[t] = "wait"}

\* The counter is what was posted and not taken; no waiter is forgotten; an event
\* has one waiter only; a deadline is a second and a nanosecond after the clock.
Counted(x) == x.v = x.posted - x.taken /\ x.v \in 0 .. SemMax
NoneForgotten(x) == (x.kind = "condvar" /\ SemWaiting(x) # {}) => x.v <= Cardinality(SemComing(x))
EventKept(x) == (x.kind = "event" /\ SemWaiting(x) # {} /\ x.v > 0) => x.evt
LoneWaits(x) == x.kind = "event" => \A t \in SemWaiters : x.pc[t] # "idle" => t = SemLone
Deadline(x) ==
  /\ x.until.nsec \in 0 .. SemSecond - 1
  /\ x.until # [sec |-> 0, nsec |-> 0] =>
       (x.until.sec * SemSecond) + x.until.nsec = x.now + SemSecond + 1
SemGood(x) == x \in SemState /\ Counted(x) /\ NoneForgotten(x) /\ EventKept(x) /\ LoneWaits(x) /\ Deadline(x)

ThreadGood(x) ==
  /\ x \in ThreadState
  /\ x.at \in {"ended", "joined"} => x.rv \in x.results
  /\ x.at = "joined" => x.status = x.rv
  /\ x.frees = IF x.at \in {"joined", "threw"} THEN 1 ELSE 0
SyncGood(x) == IF x.kind = "thread" THEN ThreadGood(x) ELSE SemGood(x)

LEMMA SemCreated ==
  ASSUME NEW kind \in {"native", "condvar", "event"}, s = Sync!Sem_Create(kind)
  PROVE  SyncGood(s)
<1> USE SemAssumption
<1>1. s \in SemState
  BY DEF SemState, Sync!Sem_Create, Sync!Idle, SemPlace
<1>2. SemWaiting(s) = {}
  BY DEF SemWaiting, Sync!Sem_Create, Sync!Idle, Sync!Callers
<1>3. Counted(s) /\ LoneWaits(s) /\ Deadline(s)
  BY DEF Counted, LoneWaits, Deadline, Sync!Sem_Create, Sync!Idle, Sync!Callers
<1>4. s.kind # "thread"
  BY DEF Sync!Sem_Create
<1> QED
  BY <1>1, <1>2, <1>3, <1>4 DEF SyncGood, SemGood, NoneForgotten, EventKept

\* A waiter's way: where it is changes, and who is on the way with it.
LEMMA WayChanges ==
  ASSUME NEW x \in SemState, NEW y \in SemState, NEW t \in SemWaiters, NEW p \in SemPlace,
         y.pc = [x.pc EXCEPT ![t] = p]
  PROVE  /\ SemComing(y) = IF p \in {"lock", "woken"} THEN SemComing(x) \cup {t} ELSE SemComing(x) \ {t}
         /\ SemWaiting(y) = IF p = "wait" THEN SemWaiting(x) \cup {t} ELSE SemWaiting(x) \ {t}
         /\ Cardinality(SemComing(x)) \in Nat
         /\ Cardinality(SemComing(y)) =
              IF p \in {"lock", "woken"}
              THEN Cardinality(SemComing(x)) + (IF t \in SemComing(x) THEN 0 ELSE 1)
              ELSE Cardinality(SemComing(x)) - (IF t \in SemComing(x) THEN 1 ELSE 0)
<1>1. x.pc \in [Sync!Callers -> SemPlace] /\ SemWaiters \subseteq Sync!Callers
  BY DEF SemState, Sync!Callers
<1>2. SemComing(y) = IF p \in {"lock", "woken"} THEN SemComing(x) \cup {t} ELSE SemComing(x) \ {t}
  BY <1>1 DEF SemComing
<1>3. SemWaiting(y) = IF p = "wait" THEN SemWaiting(x) \cup {t} ELSE SemWaiting(x) \ {t}
  BY <1>1 DEF SemWaiting
<1>4. IsFiniteSet(SemComing(x))
  BY SemAssumption, FS_Subset DEF SemComing
<1>5. Cardinality(SemComing(x)) \in Nat
  BY <1>4, FS_CardinalityType
<1>6. CASE p \in {"lock", "woken"}
  <2>1. SemComing(y) = SemComing(x) \cup {t}
    BY <1>2, <1>6
  <2>2. Cardinality(SemComing(x) \cup {t}) = IF t \in SemComing(x) THEN Cardinality(SemComing(x)) ELSE Cardinality(SemComing(x)) + 1
    BY <1>4, FS_AddElement
  <2> QED
    BY <1>2, <1>3, <1>5, <1>6, <2>1, <2>2
<1>7. CASE p \notin {"lock", "woken"}
  <2>1. SemComing(y) = SemComing(x) \ {t}
    BY <1>2, <1>7
  <2>2. Cardinality(SemComing(x) \ {t}) = IF t \in SemComing(x) THEN Cardinality(SemComing(x)) - 1 ELSE Cardinality(SemComing(x))
    BY <1>4, FS_RemoveElement
  <2> QED
    BY <1>2, <1>3, <1>5, <1>7, <2>1, <2>2
<1> QED
  BY <1>6, <1>7

\* A waiter goes its way and the counter stays.
LEMMA SemMoved ==
  ASSUME NEW x, NEW y, SemGood(x), y \in SemState, NEW t \in SemWaiters, NEW p \in SemPlace,
         y.kind = x.kind, y.v = x.v, y.posted = x.posted, y.taken = x.taken,
         y.pc = [x.pc EXCEPT ![t] = p], Deadline(y),
         x.kind = "native" \/ p \in {"lock", "woken"} \/ x.pc[t] \notin {"lock", "woken"} \/ x.v = 0,
         p = "wait" => x.v = 0,
         y.evt = x.evt \/ p = "woken" \/ p = "wait",
         x.kind = "event" => t = SemLone
  PROVE  SemGood(y)
<1>1. x \in SemState /\ t \in SemWaiters /\ p \in SemPlace
  BY DEF SemGood
<1>2. x.v \in Nat /\ Counted(y)
  BY DEF SemGood, Counted
<1>3. NoneForgotten(y)
  <2>1. SUFFICES ASSUME x.kind = "condvar", SemWaiting(y) # {}
        PROVE  x.v <= Cardinality(SemComing(y))
    BY DEF NoneForgotten
  <2>2. CASE x.v = 0
    BY <1>1, <2>2, WayChanges
  <2>3. CASE x.v # 0
    <3>1. p # "wait" /\ SemWaiting(x) # {}
      BY <1>1, <2>1, <2>3, WayChanges
    <3>2. x.v <= Cardinality(SemComing(x))
      BY <2>1, <3>1 DEF SemGood, NoneForgotten
    <3>3. p \in {"lock", "woken"} \/ t \notin SemComing(x)
      BY <2>1, <2>3 DEF SemComing
    <3>4. Cardinality(SemComing(y)) >= Cardinality(SemComing(x)) /\ Cardinality(SemComing(x)) \in Nat
      BY <1>1, <3>3, WayChanges
    <3>5. Cardinality(SemComing(y)) \in Nat
      BY <1>1, WayChanges
    <3> QED
      BY <1>2, <3>2, <3>4, <3>5
  <2> QED
    BY <2>2, <2>3
<1>4. EventKept(y)
  <2>1. SemWaiting(y) = IF p = "wait" THEN SemWaiting(x) \cup {t} ELSE SemWaiting(x) \ {t}
    BY <1>1, WayChanges
  <2>2. CASE y.evt = x.evt \/ p = "wait"
    BY <1>2, <2>1, <2>2 DEF EventKept, SemGood
  <2>3. CASE p = "woken"
    <3>1. x.kind = "event" => SemWaiting(x) \subseteq {t}
      BY DEF SemWaiting, SemGood, LoneWaits
    <3> QED
      BY <2>1, <2>3, <3>1 DEF EventKept
  <2> QED
    BY <2>2, <2>3
<1>5. LoneWaits(y)
  BY <1>1 DEF LoneWaits, SemGood, SemState, Sync!Callers
<1> QED
  BY <1>2, <1>3, <1>4, <1>5 DEF SemGood

LEMMA SemCalled ==
  ASSUME SemGood(s), NEW t \in SemWaiters, NEW timed \in BOOLEAN, Sync!Call(t, timed)
  PROVE  SemGood(s')
<1> USE SemAssumption
<1>1. PICK nsec \in {0, SemSecond - 1} :
        s' = [s EXCEPT !.pc[t] = "lock", !.timed = IF timed THEN @ \cup {t} ELSE @ \ {t},
                       !.now = IF timed THEN nsec ELSE @,
                       !.until = IF timed THEN Sync!TimeSpec_AddNanoseconds([sec |-> 0, nsec |-> nsec], SemSecond + 1)
                                 ELSE @]
  BY DEF Sync!Call
<1> DEFINE until == Sync!TimeSpec_AddNanoseconds([sec |-> 0, nsec |-> nsec], SemSecond + 1)
<1>2. /\ until.sec \in Int /\ until.nsec \in 0 .. SemSecond - 1
      /\ (until.sec * SemSecond) + until.nsec = nsec + SemSecond + 1
      /\ until \in [sec : Int, nsec : Int]
  BY DEF Sync!TimeSpec_AddNanoseconds
<1> DEFINE stamp == IF timed THEN until ELSE s.until
           clock == IF timed THEN nsec ELSE s.now
           others == IF timed THEN s.timed \cup {t} ELSE s.timed \ {t}
<1>3. s \in SemState
  BY DEF SemGood
<1>4. stamp \in [sec : Int, nsec : Int] /\ clock \in Int /\ others \in SUBSET SemWaiters
  BY <1>2, <1>3 DEF SemState
<1>5. Deadline([s EXCEPT !.until = stamp, !.now = clock])
  BY <1>2, <1>3 DEF Deadline, SemGood, SemState
<1>6. s' = [s EXCEPT !.pc[t] = "lock", !.timed = others, !.now = clock, !.until = stamp]
  BY <1>1
<1> HIDE DEF until, stamp, clock, others
<1>7. s' \in SemState
  <2> DEFINE way == [s.pc EXCEPT ![t] = "lock"]
  <2>1. way \in [Sync!Callers -> SemPlace]
    BY <1>3 DEF SemState, SemPlace, Sync!Callers
  <2>2. s' = [s EXCEPT !.pc = way, !.timed = others, !.now = clock, !.until = stamp]
    BY <1>6
  <2> HIDE DEF way
  <2> QED
    BY <1>3, <1>4, <2>1, <2>2 DEF SemState
<1>8. /\ s'.kind = s.kind /\ s'.v = s.v /\ s'.posted = s.posted /\ s'.taken = s.taken /\ s'.evt = s.evt
      /\ s'.pc = [s.pc EXCEPT ![t] = "lock"]
      /\ s'.until = stamp /\ s'.now = clock
  BY <1>3, <1>6 DEF SemState
<1>9. Deadline(s')
  BY <1>3, <1>5, <1>8 DEF Deadline, SemState
<1> QED
  BY <1>7, <1>8, <1>9, SemMoved DEF Sync!Call, SemPlace

LEMMA SemTook ==
  ASSUME SemGood(s), NEW t \in SemWaiters, s.pc[t] \in {"lock", "woken"}, s.v > 0, s' = Sync!Took(t)
  PROVE  SemGood(s')
<1>1. s \in SemState
  BY DEF SemGood
<1>2. s' = [s EXCEPT !.v = @ - 1, !.taken = @ + 1, !.pc[t] = "idle"]
  BY DEF Sync!Took, Sync!Idle
<1>3. s' \in SemState
  <2> DEFINE left == s.v - 1
             taken == s.taken + 1
             way == [s.pc EXCEPT ![t] = "idle"]
  <2>1. left \in Int /\ taken \in Int /\ way \in [Sync!Callers -> SemPlace]
    BY <1>1 DEF SemState, SemPlace, Sync!Callers
  <2>2. s' = [s EXCEPT !.v = left, !.taken = taken, !.pc = way]
    BY <1>2
  <2> HIDE DEF left, taken, way
  <2> QED
    BY <1>1, <2>1, <2>2 DEF SemState
<1>4. /\ s'.kind = s.kind /\ s'.v = s.v - 1 /\ s'.posted = s.posted /\ s'.taken = s.taken + 1 /\ s'.evt = s.evt
      /\ s'.pc = [s.pc EXCEPT ![t] = "idle"]
      /\ s'.until = s.until /\ s'.now = s.now
  BY <1>1, <1>2 DEF SemState
<1>5. Counted(s')
  BY <1>1, <1>4, SemAssumption DEF Counted, SemGood, SemState
<1>6. /\ t \in SemComing(s) /\ "idle" \in SemPlace /\ t \in SemWaiters
      /\ s.v \in Nat
  BY <1>1 DEF SemComing, SemPlace, SemGood, Counted
<1>7. /\ SemWaiting(s') = SemWaiting(s) \ {t}
      /\ Cardinality(SemComing(s)) \in Nat
      /\ Cardinality(SemComing(s')) = Cardinality(SemComing(s)) - 1
  BY <1>1, <1>3, <1>4, <1>6, WayChanges
<1>8. NoneForgotten(s')
  BY <1>4, <1>6, <1>7 DEF NoneForgotten, SemGood
<1>9. EventKept(s')
  BY <1>4, <1>6, <1>7 DEF EventKept, SemGood
<1>10. LoneWaits(s')
  BY <1>1, <1>4 DEF LoneWaits, SemGood, SemState, Sync!Callers
<1>11. Deadline(s')
  BY <1>4 DEF Deadline, SemGood
<1> QED
  BY <1>3, <1>5, <1>8, <1>9, <1>10, <1>11 DEF SemGood

LEMMA SemWaits ==
  ASSUME SemGood(s), NEW t \in SemWaiters,
         \/ Sync!NativeWait(t) \/ Sync!CondWait(t) \/ Sync!TimedOut(t) \/ Sync!GaveUp(t)
         \/ Sync!Spurious(t) \/ Sync!Released(t)
  PROVE  SemGood(s')
<1>1. s \in SemState /\ s.v \in Nat /\ t \in SemWaiters
  BY DEF SemGood, Counted
<1>2. s.kind = "event" /\ s.pc[t] # "idle" => t = SemLone
  BY DEF SemGood, LoneWaits
<1>3. CASE Sync!NativeWait(t) \/ (Sync!CondWait(t) /\ s.v > 0)
  BY <1>1, <1>3, SemTook DEF Sync!NativeWait, Sync!CondWait
<1>4. ASSUME NEW p \in SemPlace, NEW evt \in BOOLEAN,
             s' = [s EXCEPT !.pc[t] = p, !.evt = evt], s.pc[t] # "idle",
             s.kind = "native" \/ p \in {"lock", "woken"} \/ s.pc[t] \notin {"lock", "woken"} \/ s.v = 0,
             p = "wait" => s.v = 0,
             evt = s.evt \/ p = "woken" \/ p = "wait"
      PROVE  SemGood(s')
  <2>1. s' \in SemState
    BY <1>1, <1>4 DEF SemState, Sync!Callers
  <2>2. /\ s'.kind = s.kind /\ s'.v = s.v /\ s'.posted = s.posted /\ s'.taken = s.taken
        /\ s'.pc = [s.pc EXCEPT ![t] = p] /\ s'.until = s.until /\ s'.now = s.now /\ s'.evt = evt
    BY <1>1, <1>4 DEF SemState
  <2>3. Deadline(s')
    BY <2>2 DEF Deadline, SemGood
  <2>4. /\ s.kind = "event" => t = SemLone
        /\ s.kind = "native" \/ p \in {"lock", "woken"} \/ s.pc[t] \notin {"lock", "woken"} \/ s.v = 0
        /\ p = "wait" => s.v = 0
        /\ s'.evt = s.evt \/ p = "woken" \/ p = "wait"
    BY <1>2, <1>4, <2>2
  <2>5. p \in SemPlace
    BY <1>4
  <2> QED
    BY <1>1, <2>1, <2>2, <2>3, <2>4, <2>5, SemMoved
<1>5. s.evt \in BOOLEAN /\ s = [s EXCEPT !.evt = s.evt] /\ \A p : [s EXCEPT !.pc[t] = p] = [s EXCEPT !.pc[t] = p, !.evt = s.evt]
  BY Zenon, <1>1 DEF SemState
<1>6. CASE Sync!CondWait(t) /\ ~(s.v > 0)
  <2> DEFINE evt == IF s.kind = "event" /\ t \in s.timed THEN FALSE ELSE s.evt
  <2>1. evt \in BOOLEAN /\ s' = [s EXCEPT !.pc[t] = "wait", !.evt = evt]
    BY Zenon, <1>5, <1>6 DEF Sync!CondWait
  <2>2. s.v = 0 /\ s.pc[t] # "idle" /\ "wait" \in SemPlace
    BY <1>1, <1>6 DEF Sync!CondWait, SemPlace
  <2> HIDE DEF evt
  <2> QED
    BY Zenon, <1>4, <2>1, <2>2
<1>7. CASE Sync!TimedOut(t)
  <2>1. "late" \in SemPlace /\ s.pc[t] \in {"lock", "wait"} /\ s' = [s EXCEPT !.pc[t] = "late", !.evt = s.evt]
    BY Zenon, <1>5, <1>7 DEF Sync!TimedOut, SemPlace
  <2>2. s.pc[t] = "lock" => s.kind = "native"
    BY <1>7 DEF Sync!TimedOut
  <2> QED
    BY Zenon, <1>4, <1>5, <2>1, <2>2
<1>8. CASE Sync!GaveUp(t)
  BY Zenon, <1>1, <1>4, <1>5, <1>8 DEF Sync!GaveUp, SemPlace, Sync!Idle
<1>9. CASE Sync!Spurious(t)
  BY Zenon, <1>1, <1>4, <1>5, <1>9 DEF Sync!Spurious, SemPlace
<1>10. CASE Sync!Released(t)
  BY Zenon, <1>1, <1>4, <1>5, <1>10 DEF Sync!Released, SemPlace
<1> QED
  BY <1>3, <1>6, <1>7, <1>8, <1>9, <1>10

\* A post wakes one more waiter for one more count, as long as anybody waits.
LEMMA SemPosted ==
  ASSUME SemGood(s), NEW t \in SemPosters, Sync!Sem_Post(t)
  PROVE  SemGood(s')
<1>1. s \in SemState /\ s.v \in Nat /\ SemMax \in Nat
  BY SemAssumption DEF SemGood, Counted
<1> DEFINE rest == [s.left EXCEPT ![t] = @ - 1]
<1>2. rest \in [SemPosters -> Int]
  BY <1>1 DEF SemState
<1>3. CASE s.v = SemMax /\ s' = [s EXCEPT !.left[t] = @ - 1]
  <2>1. s' = [s EXCEPT !.left = rest]
    BY <1>3
  <2> HIDE DEF rest
  <2>2. s' \in SemState
    BY <1>1, <1>2, <2>1 DEF SemState
  <2>3. /\ s'.kind = s.kind /\ s'.v = s.v /\ s'.posted = s.posted /\ s'.taken = s.taken /\ s'.evt = s.evt
        /\ s'.pc = s.pc /\ s'.until = s.until /\ s'.now = s.now
    BY <1>1, <2>1 DEF SemState
  <2> QED
    BY <2>2, <2>3 DEF SemGood, Counted, NoneForgotten, EventKept, LoneWaits, Deadline, SemComing, SemWaiting
<1>4. ASSUME s.v < SemMax, NEW w \in Sync!Wakened,
             s' = Sync!Cond_Signal([s EXCEPT !.v = @ + 1, !.posted = @ + 1, !.left[t] = @ - 1], w)
      PROVE  SemGood(s')
  <2> DEFINE up == [s EXCEPT !.v = s.v + 1, !.posted = s.posted + 1, !.left = rest]
  <2>1. s' = Sync!Cond_Signal(up, w)
    BY <1>4
  <2>2. /\ up \in SemState
        /\ up.kind = s.kind /\ up.v = s.v + 1 /\ up.posted = s.posted + 1 /\ up.taken = s.taken /\ up.evt = s.evt
        /\ up.pc = s.pc /\ up.until = s.until /\ up.now = s.now
    <3> DEFINE more == s.v + 1
               posted == s.posted + 1
    <3>1. more \in Int /\ posted \in Int
      BY <1>1 DEF SemState
    <3> HIDE DEF rest, more, posted
    <3>2. [s EXCEPT !.v = more, !.posted = posted, !.left = rest] \in SemState
      BY <1>1, <1>2, <3>1 DEF SemState
    <3>3. up = [s EXCEPT !.v = more, !.posted = posted, !.left = rest]
      BY DEF more, posted
    <3>4. /\ up.kind = s.kind /\ up.v = more /\ up.posted = posted /\ up.taken = s.taken /\ up.evt = s.evt
          /\ up.pc = s.pc /\ up.until = s.until /\ up.now = s.now
      <4> HIDE DEF up
      <4> QED
        BY <1>1, <3>3 DEF SemState
    <3> HIDE DEF up
    <3> QED
      BY <3>2, <3>3, <3>4 DEF more, posted
  <2> HIDE DEF up, rest
  <2>3. Counted(up) /\ Deadline(up) /\ LoneWaits(up)
    <3>1. Counted(up)
      BY <1>1, <1>4, <2>2 DEF SemGood, Counted, SemState
    <3>2. Deadline(up)
      BY <2>2 DEF SemGood, Deadline
    <3>3. LoneWaits(up)
      BY <2>2 DEF SemGood, LoneWaits
    <3> QED
      BY <3>1, <3>2, <3>3
  <2>4. CASE s.kind = "native"
    <3>1. s' = up
      BY <2>1, <2>2, <2>4 DEF Sync!Cond_Signal
    <3> QED
      BY <2>2, <2>3, <2>4, <3>1 DEF SemGood, NoneForgotten, EventKept
  <2>5. CASE s.kind = "event"
    <3>1. s' = [up EXCEPT !.evt = TRUE]
      BY <2>1, <2>2, <2>5 DEF Sync!Cond_Signal
    <3>2. s' \in SemState
      BY <2>2, <3>1 DEF SemState
    <3>3. /\ s'.kind = "event" /\ s'.v = up.v /\ s'.posted = up.posted /\ s'.taken = up.taken /\ s'.evt
          /\ s'.pc = up.pc /\ s'.until = up.until /\ s'.now = up.now
      BY <2>2, <2>5, <3>1 DEF SemState
    <3> QED
      BY <2>2, <2>3, <2>5, <3>2, <3>3 DEF SemGood, Counted, NoneForgotten, EventKept, LoneWaits, Deadline
  <2>6. CASE s.kind = "condvar"
    <3> DEFINE way == [u \in Sync!Callers |-> IF u \in w THEN "woken" ELSE up.pc[u]]
    <3>1. s' = [up EXCEPT !.pc = way]
      BY <2>1, <2>2, <2>6 DEF Sync!Cond_Signal
    <3>2. way \in [Sync!Callers -> SemPlace]
      BY <2>2 DEF SemState, SemPlace
    <3>3. s' \in SemState
      <4> HIDE DEF way
      <4> QED
        BY <2>2, <3>1, <3>2 DEF SemState
    <3>4. /\ s'.kind = "condvar" /\ s'.v = up.v /\ s'.posted = up.posted /\ s'.taken = up.taken /\ s'.evt = up.evt
          /\ s'.pc = way /\ s'.until = up.until /\ s'.now = up.now
      <4> HIDE DEF way
      <4> QED
        BY <2>2, <2>6, <3>1 DEF SemState
    <3>5. Counted(s') /\ Deadline(s') /\ LoneWaits(s') /\ EventKept(s')
      BY <2>3, <3>4 DEF Counted, Deadline, LoneWaits, EventKept
    <3>6. NoneForgotten(s')
      <4>1. CASE SemWaiting(s) = {}
        <5>1. w = {}
          BY <2>6, <4>1 DEF Sync!Wakened, Sync!Waiting, SemWaiting
        <5>2. SemWaiting(s') = {}
          BY <1>1, <2>2, <3>4, <4>1, <5>1 DEF SemWaiting, SemState, Sync!Callers
        <5> QED
          BY <5>2 DEF NoneForgotten
      <4>2. CASE SemWaiting(s) # {}
        <5>1. PICK u \in SemWaiting(s) : w = {u}
          BY <2>6, <4>2 DEF Sync!Wakened, Sync!Waiting, SemWaiting
        <5>2. u \in SemWaiters /\ s.pc[u] = "wait" /\ u \notin SemComing(s)
          BY <5>1 DEF SemWaiting, SemComing
        <5>3. way = [s.pc EXCEPT ![u] = "woken"]
          BY <1>1, <2>2, <5>1, <5>2 DEF SemState, Sync!Callers
        <5> HIDE DEF way
        <5>4. /\ Cardinality(SemComing(s')) = Cardinality(SemComing(s)) + 1
              /\ Cardinality(SemComing(s)) \in Nat
          <6>1. s'.pc = [s.pc EXCEPT ![u] = "woken"] /\ "woken" \in SemPlace
            BY <3>4, <5>3 DEF SemPlace
          <6> QED
            BY <1>1, <3>3, <5>2, <6>1, WayChanges
        <5>5. s.v <= Cardinality(SemComing(s))
          BY <2>6, <4>2 DEF SemGood, NoneForgotten
        <5> QED
          BY <1>1, <2>2, <3>4, <5>4, <5>5 DEF NoneForgotten
      <4> QED
        BY <4>1, <4>2
    <3> QED
      BY <3>3, <3>5, <3>6 DEF SemGood
  <2> QED
    BY <1>1, <2>4, <2>5, <2>6 DEF SemState
<1> QED
  BY <1>3, <1>4 DEF Sync!Sem_Post

\* A thread's life.
LEMMA ThreadNext ==
  ASSUME ThreadGood(s), Sync!Next
  PROVE  SyncGood(s')
<1>1. s \in ThreadState /\ s.kind = "thread"
  BY DEF ThreadGood, ThreadState
<1>2. s.rv \in Int /\ s.status \in Int /\ s.frees \in Int /\ s.results \subseteq Int
  BY <1>1 DEF ThreadState
<1>3. ASSUME NEW at \in {"running", "threw", "ended", "exited", "joined"}, NEW rv \in Int, NEW status \in Int,
             NEW frees \in Int, s' = [s EXCEPT !.at = at, !.rv = rv, !.status = status, !.frees = frees],
             frees = IF at \in {"threw", "joined"} THEN s.frees + 1 ELSE s.frees,
             s.at \notin {"joined", "threw"},
             at \in {"ended", "joined"} => rv \in s.results,
             at = "joined" => status = rv
      PROVE SyncGood(s')
  <2>1. s' \in ThreadState
    BY <1>1, <1>3 DEF ThreadState
  <2>2. /\ s'.kind = "thread" /\ s'.at = at /\ s'.rv = rv /\ s'.status = status /\ s'.frees = frees
        /\ s'.results = s.results
    BY <1>1, <1>3 DEF ThreadState
  <2>3. s.frees = 0
    BY <1>3 DEF ThreadGood
  <2> QED
    BY <1>3, <2>1, <2>2, <2>3 DEF SyncGood, ThreadGood
<1>4. ASSUME NEW started \in BOOLEAN, Sync!Thread_Create(started) PROVE SyncGood(s')
  <2> DEFINE at == IF started THEN "running" ELSE "threw"
             frees == IF started THEN s.frees ELSE s.frees + 1
  <2>1. s' = [s EXCEPT !.at = at, !.rv = s.rv, !.status = s.status, !.frees = frees]
    BY <1>1, <1>4 DEF Sync!Thread_Create, ThreadState
  <2>2. /\ s.at = "none" /\ at \in {"running", "threw"} /\ frees \in Int
        /\ frees = IF at \in {"threw", "joined"} THEN s.frees + 1 ELSE s.frees
    BY <1>2, <1>4 DEF Sync!Thread_Create
  <2> HIDE DEF at, frees
  <2> QED
    BY Zenon, <1>2, <1>3, <2>1, <2>2
<1>5. ASSUME NEW result \in s.results, Sync!PTCEP(result) PROVE SyncGood(s')
  <2>1. s' = [s EXCEPT !.at = "ended", !.rv = result, !.status = s.status, !.frees = s.frees]
    BY <1>1, <1>5 DEF Sync!PTCEP, ThreadState
  <2>2. s.at = "running" /\ result \in Int
    BY <1>2, <1>5 DEF Sync!PTCEP
  <2> QED
    BY Zenon, <1>2, <1>3, <1>5, <2>1, <2>2
<1>6. CASE Sync!ExitsItself
  <2>1. s' = [s EXCEPT !.at = "exited", !.rv = s.rv, !.status = s.status, !.frees = s.frees]
    BY <1>1, <1>6 DEF Sync!ExitsItself, ThreadState
  <2>2. s.at = "running"
    BY <1>6 DEF Sync!ExitsItself
  <2> QED
    BY Zenon, <1>2, <1>3, <2>1, <2>2
<1>7. CASE Sync!Thread_Wait
  <2> DEFINE at == IF s.at = "ended" THEN "joined" ELSE "threw"
             status == IF s.at = "ended" THEN s.rv ELSE s.status
             frees == s.frees + 1
  <2>1. s' = [s EXCEPT !.at = at, !.rv = s.rv, !.status = status, !.frees = frees]
    BY <1>1, <1>7 DEF Sync!Thread_Wait, ThreadState
  <2>2. /\ s.at \in {"ended", "exited"} /\ at \in {"joined", "threw"} /\ status \in Int /\ frees \in Int
        /\ frees = IF at \in {"threw", "joined"} THEN s.frees + 1 ELSE s.frees
        /\ at = "joined" => s.at = "ended" /\ status = s.rv
    BY <1>2, <1>7 DEF Sync!Thread_Wait
  <2>3. s.at = "ended" => s.rv \in s.results
    BY DEF ThreadGood
  <2> HIDE DEF at, status, frees
  <2> QED
    BY Zenon, <1>2, <1>3, <2>1, <2>2, <2>3
<1> QED
  BY <1>1, <1>4, <1>5, <1>6, <1>7 DEF Sync!Next

LEMMA SyncNext ==
  ASSUME SyncGood(s), Sync!Next
  PROVE  SyncGood(s')
<1>1. CASE s.kind = "thread"
  BY <1>1, ThreadNext DEF SyncGood
<1>2. CASE s.kind # "thread"
  <2>1. SemGood(s) /\ Sync!Semaphore
    BY <1>2 DEF SyncGood, Sync!Next, Sync!Thread_Create, Sync!ExitsItself, Sync!Thread_Wait
  <2>2. SemGood(s')
    BY <2>1, SemCalled, SemWaits, SemPosted DEF Sync!Semaphore
  <2> QED
    BY <2>2 DEF SyncGood, SemGood, SemState
<1> QED
  BY <1>1, <1>2

LEMMA SyncStarts ==
  ASSUME Sync!Init
  PROVE  SyncGood(s)
<1>1. CASE s = Sync!Thread({0, 1})
  BY <1>1 DEF Sync!Thread, SyncGood, ThreadGood, ThreadState
<1> QED
  BY <1>1, SemCreated DEF Sync!Init

LEMMA SyncSound ==
  ASSUME SyncGood(s)
  PROVE  Sync!ThreadsSound
<1>1. CASE s.kind = "thread"
  BY <1>1 DEF SyncGood, ThreadGood, Sync!ThreadsSound, Sync!SemaphoreSound, Sync!JoinSound
<1>2. CASE s.kind # "thread"
  <2>1. SemGood(s) /\ Sync!Coming = SemComing(s) /\ Sync!Waiting = SemWaiting(s)
    BY <1>2 DEF SyncGood, Sync!Coming, Sync!Waiting, SemComing, SemWaiting
  <2>2. Sync!SemaphoreSound
    <3>1. /\ s.v = s.posted - s.taken /\ s.v \in 0 .. SemMax
          /\ (s.kind = "condvar" /\ SemWaiting(s) # {}) => s.v <= Cardinality(SemComing(s))
          /\ (s.kind = "event" /\ SemWaiting(s) # {} /\ s.v > 0) => s.evt
      BY <2>1 DEF SemGood, Counted, NoneForgotten, EventKept
    <3>2. s.until.nsec \in 0 .. SemSecond - 1
      BY <2>1 DEF SemGood, Deadline
    <3>3. s.until # [sec |-> 0, nsec |-> 0] => (s.until.sec * SemSecond) + s.until.nsec = s.now + SemSecond + 1
      BY <2>1 DEF SemGood, Deadline
    <3>4. SemWaiting(s) # {} => SemWaiters # {}
      BY DEF SemWaiting
    <3> QED
      <4>0. Sync!Cardinality(Sync!Coming) = Cardinality(Sync!Coming)
        BY DEF Sync!Cardinality, Cardinality
      <4>1. (s.kind = "condvar" /\ Sync!Waiting # {}) => s.v <= Sync!Cardinality(Sync!Coming)
        BY <2>1, <3>1, <4>0
      <4>2. (s.kind = "event" /\ Sync!Waiting # {} /\ s.v > 0) => s.evt
        BY <2>1, <3>1
      <4> QED
        BY <3>1, <3>2, <3>3, <4>1, <4>2, Zenon DEF Sync!SemaphoreSound
  <2> QED
    BY <1>2, <2>2 DEF Sync!ThreadsSound, Sync!JoinSound
<1> QED
  BY <1>1, <1>2

----------------------------------------------------------------------------
(* Run-ahead.                                                              *)

\* Samples one after the other, from one on.
Samples(from, n) == [i \in 1 .. n |-> from + i - 1]

LEMMA SamplesAre ==
  ASSUME NEW from \in Int, NEW n \in Nat
  PROVE  /\ Samples(from, n) \in Seq(Int)
         /\ Len(Samples(from, n)) = n
         /\ \A i \in 1 .. n : Samples(from, n)[i] = from + i - 1
<1>1. /\ Samples(from, n) \in [1 .. n -> Int] /\ DOMAIN Samples(from, n) = 1 .. n
  BY DEF Samples
<1>2. \A i \in 1 .. n : Samples(from, n)[i] = from + i - 1 BY DEF Samples
<1> QED BY <1>1, <1>2

\* What is put into a buffer at a place.
LEMMA PutIs ==
  ASSUME NEW buf \in Seq(Int), NEW base \in Nat, NEW values \in Seq(Int), base <= Len(buf)
  PROVE  /\ Ahead!Put(buf, base, values) \in Seq(Int)
         /\ base + Len(values) <= Len(buf) => Len(Ahead!Put(buf, base, values)) = Len(buf)
         /\ base + Len(values) > Len(buf) => Len(Ahead!Put(buf, base, values)) = base + Len(values)
         /\ \A i \in base + 1 .. base + Len(values) : Ahead!Put(buf, base, values)[i] = values[i - base]
         /\ \A i \in 1 .. base : Ahead!Put(buf, base, values)[i] = buf[i]
<1> DEFINE n == IF base + Len(values) > Len(buf) THEN base + Len(values) ELSE Len(buf)
<1> DEFINE put == [i \in 1 .. n |-> IF i > base /\ i <= base + Len(values) THEN values[i - base] ELSE buf[i]]
<1>1. n \in Nat OBVIOUS
<1>2. \A i \in 1 .. n :
        (IF i > base /\ i <= base + Len(values) THEN values[i - base] ELSE buf[i]) \in Int
  OBVIOUS
<1>3. put \in [1 .. n -> Int] BY <1>2
<1>4. put \in Seq(Int) /\ Len(put) = n BY <1>1, <1>3
<1>5. Ahead!Put(buf, base, values) = put BY DEF Ahead!Put
<1>6. ASSUME NEW i \in base + 1 .. base + Len(values) PROVE put[i] = values[i - base]
  <2>1. i \in 1 .. n /\ i > base /\ i <= base + Len(values) OBVIOUS
  <2> HIDE DEF n
  <2> QED BY <2>1
<1>7. ASSUME NEW i \in 1 .. base PROVE put[i] = buf[i]
  <2>1. i \in 1 .. n /\ ~(i > base) OBVIOUS
  <2> HIDE DEF n
  <2> QED BY <2>1
<1>8. /\ base + Len(values) <= Len(buf) => n = Len(buf)
      /\ base + Len(values) > Len(buf) => n = base + Len(values)
  OBVIOUS
<1> HIDE DEF n, put
<1> QED BY <1>4, <1>5, <1>6, <1>7, <1>8

\* What is cut out of a buffer.
LEMMA CutIs ==
  ASSUME NEW buf \in Seq(Int), NEW from \in Nat, NEW n \in Nat, from + n <= Len(buf)
  PROVE  /\ SubSeq(buf, from + 1, from + n) \in Seq(Int)
         /\ Len(SubSeq(buf, from + 1, from + n)) = n
         /\ \A i \in 1 .. n : SubSeq(buf, from + 1, from + n)[i] = buf[from + i]
<1> DEFINE a == from + 1
           b == from + n
<1>1. a \in Int /\ b \in Int /\ a >= 1 /\ b <= Len(buf) /\ b - a + 1 = n /\ b + 1 >= a OBVIOUS
<1> HIDE DEF a, b
<1>2. Len(SubSeq(buf, a, b)) = n BY <1>1
<1>3. SubSeq(buf, a, b) \in Seq(Int) BY <1>1
<1>4. ASSUME NEW i \in 1 .. n PROVE SubSeq(buf, a, b)[i] = buf[a + i - 1] BY <1>1
<1>5. ASSUME NEW i \in 1 .. n PROVE a + i - 1 = from + i BY DEF a
<1>6. \A i \in 1 .. n : SubSeq(buf, a, b)[i] = buf[from + i] BY <1>4, <1>5
<1> QED BY <1>2, <1>3, <1>6 DEF a, b

LEMMA FrontIsCut ==
  ASSUME NEW buf \in Seq(Int), NEW n \in Nat, n <= Len(buf)
  PROVE  /\ SubSeq(buf, 1, n) \in Seq(Int) /\ Len(SubSeq(buf, 1, n)) = n
         /\ \A i \in 1 .. n : SubSeq(buf, 1, n)[i] = buf[i]
<1>1. Len(SubSeq(buf, 1, n)) = n OBVIOUS
<1>2. SubSeq(buf, 1, n) \in Seq(Int) OBVIOUS
<1>3. ASSUME NEW i \in 1 .. n PROVE SubSeq(buf, 1, n)[i] = buf[i] OBVIOUS
<1> QED BY <1>1, <1>2, <1>3

LEMMA SameSeq ==
  ASSUME NEW a \in Seq(Int), NEW b \in Seq(Int), NEW n \in Nat, Len(a) = n, Len(b) = n,
         \A i \in 1 .. n : a[i] = b[i]
  PROVE  a = b
<1>1. a \in [1 .. n -> Int] /\ b \in [1 .. n -> Int] OBVIOUS
<1> QED BY <1>1

\* How far the second frame's sound is moved: by what was heard of it already, or
\* back by what was not heard of the first.
Ahead1(t1) == IF s.expected >= 0 /\ ~s.changed THEN s.expected - t1 ELSE 0

\* The sound of a frame and of the one ahead is one piece of it, from where what
\* was promised ends.
LEMMA BothIs ==
  ASSUME FrameAssumption, NEW m, m.pos \in Int, NEW t1 \in FrameSizes, NEW t2 \in FrameSizes,
         s.expected \in FrameSizes \cup {-1}
  PROVE  Ahead!Both(m, t1, t2) = Samples(m.pos + t1 + Ahead1(t1), t2 - Ahead1(t1))
<1> DEFINE pos == m.pos
           delta == Ahead1(t1)
           sbo == IF delta < 0 THEN -delta ELSE 0
           one == Ahead!Sound(m, t1)
           two == Ahead!Sound(Ahead!After(m, 0, t1), t2)
           first == Ahead!Put(<<>>, 0, one)
           moved == Ahead!Moved(first, 0, t1 - sbo, sbo)
           buf == Ahead!Put(moved, sbo, two)
           size == t2 + sbo
<1>0. t1 \in Nat /\ t2 \in Nat /\ delta \in Int /\ delta <= t2 /\ -delta <= t1
  <2>1. s.expected \in FrameSizes => s.expected \in Nat /\ s.expected <= t1 + t2 BY DEF FrameAssumption
  <2>2. t1 \in Nat /\ t2 \in Nat BY DEF FrameAssumption
  <2> QED BY <2>1, <2>2 DEF Ahead1
<1>1. /\ pos \in Int /\ t1 \in Nat /\ t2 \in Nat /\ delta \in Int /\ delta <= t2 /\ sbo \in 0 .. t1
      /\ size \in Nat /\ (delta < 0 => sbo = -delta) /\ (delta >= 0 => sbo = 0)
  <2> HIDE DEF delta
  <2> QED BY <1>0
<1>2. one = Samples(pos, t1) /\ two = Samples(pos + t1, t2)
  BY <1>1 DEF Ahead!Sound, Ahead!After, Ahead!Machine, Samples
<1>3. Ahead!Both(m, t1, t2) =
        IF delta > 0 /\ size >= delta THEN SubSeq(Ahead!Moved(buf, 0, delta, size - delta), 1, size - delta)
        ELSE SubSeq(buf, 1, size)
  BY DEF Ahead!Both, Ahead1
<1> HIDE DEF pos, delta, one, two
<1>4. /\ first \in Seq(Int) /\ Len(first) = t1 /\ \A i \in 1 .. t1 : first[i] = pos + i - 1
  <2>1. /\ one \in Seq(Int) /\ Len(one) = t1 /\ \A i \in 1 .. t1 : one[i] = pos + i - 1
    BY <1>1, <1>2, SamplesAre
  <2>2. <<>> \in Seq(Int) /\ Len(<<>>) = 0 OBVIOUS
  <2> HIDE DEF one
  <2>3. <<>> \in Seq(Int) /\ 0 \in Nat /\ one \in Seq(Int) /\ 0 <= Len(<<>>) BY <2>1, <2>2
  <2>4. /\ first \in Seq(Int) /\ (0 + Len(one) <= Len(<<>>) => Len(first) = Len(<<>>))
        /\ (0 + Len(one) > Len(<<>>) => Len(first) = 0 + Len(one))
        /\ \A i \in 0 + 1 .. 0 + Len(one) : first[i] = one[i - 0]
    BY <2>3, PutIs
  <2> HIDE DEF first
  <2>5. Len(first) = t1 BY <2>1, <2>2, <2>4, <1>1
  <2>6. ASSUME NEW i \in 1 .. t1 PROVE first[i] = pos + i - 1
    <3>1. i \in 0 + 1 .. 0 + Len(one) /\ i - 0 = i BY <2>1, <1>1
    <3> QED BY <3>1, <2>1, <2>4
  <2> QED BY <2>4, <2>5, <2>6
<1>5. /\ two \in Seq(Int) /\ Len(two) = t2 /\ \A i \in 1 .. t2 : two[i] = pos + t1 + i - 1
  <2>1. pos + t1 \in Int /\ t2 \in Nat BY <1>1
  <2>2. /\ Samples(pos + t1, t2) \in Seq(Int) /\ Len(Samples(pos + t1, t2)) = t2
        /\ \A i \in 1 .. t2 : Samples(pos + t1, t2)[i] = (pos + t1) + i - 1
    BY <2>1, SamplesAre
  <2> QED BY <2>2, <1>2
<1> HIDE DEF first, sbo
<1>6. /\ moved \in Seq(Int) /\ Len(moved) = t1
      /\ \A i \in 1 .. sbo : moved[i] = pos + t1 - sbo + i - 1
  <2> DEFINE cut == SubSeq(first, t1 - sbo + 1, t1 - sbo + sbo)
  <2>1. /\ cut \in Seq(Int) /\ Len(cut) = sbo /\ \A i \in 1 .. sbo : cut[i] = first[t1 - sbo + i]
    <3> DEFINE from == t1 - sbo
    <3>1. from \in Nat /\ sbo \in Nat /\ from + sbo <= Len(first) /\ first \in Seq(Int) BY <1>1, <1>4
    <3> HIDE DEF from
    <3>2. /\ SubSeq(first, from + 1, from + sbo) \in Seq(Int)
          /\ Len(SubSeq(first, from + 1, from + sbo)) = sbo
          /\ \A i \in 1 .. sbo : SubSeq(first, from + 1, from + sbo)[i] = first[from + i]
      BY <3>1, CutIs
    <3> QED BY <3>2 DEF from
  <2>2. moved = Ahead!Put(first, 0, cut) BY DEF Ahead!Moved
  <2> HIDE DEF cut
  <2> DEFINE put == Ahead!Put(first, 0, cut)
  <2>5. 0 \in Nat /\ cut \in Seq(Int) /\ first \in Seq(Int) /\ 0 <= Len(first) BY <2>1, <1>1, <1>4
  <2>6. /\ put \in Seq(Int) /\ (0 + Len(cut) <= Len(first) => Len(put) = Len(first))
        /\ \A i \in 0 + 1 .. 0 + Len(cut) : put[i] = cut[i - 0]
    BY <2>5, PutIs
  <2> HIDE DEF put
  <2>7. 0 + Len(cut) <= Len(first) /\ Len(first) = t1 BY <2>1, <1>1, <1>4
  <2>8. ASSUME NEW i \in 1 .. sbo PROVE put[i] = cut[i]
    <3>1. i \in 0 + 1 .. 0 + Len(cut) /\ i - 0 = i BY <2>1, <1>1
    <3> QED BY <3>1, <2>6
  <2>3. /\ moved \in Seq(Int) /\ Len(moved) = t1
        /\ \A i \in 1 .. sbo : moved[i] = cut[i]
    BY <2>2, <2>6, <2>7, <2>8 DEF put
  <2>4. \A i \in 1 .. sbo : i \in 1 .. t1 /\ t1 - sbo + i \in 1 .. t1 BY <1>1
  <2>9. ASSUME NEW i \in 1 .. sbo PROVE moved[i] = pos + t1 - sbo + i - 1
    <3>1. moved[i] = first[t1 - sbo + i] BY <2>1, <2>3
    <3>2. first[t1 - sbo + i] = pos + (t1 - sbo + i) - 1 BY <2>4, <1>4
    <3> QED BY <3>1, <3>2, <1>1
  <2> QED BY <2>3, <2>9
<1> HIDE DEF moved
<1>7. /\ buf \in Seq(Int) /\ Len(buf) >= size
      /\ \A i \in 1 .. size : buf[i] = pos + t1 - sbo + i - 1
  <2>1. /\ buf \in Seq(Int) /\ Len(buf) >= size
        /\ \A i \in sbo + 1 .. sbo + t2 : buf[i] = two[i - sbo]
        /\ \A i \in 1 .. sbo : buf[i] = moved[i]
    <3>1. moved \in Seq(Int) /\ sbo \in Nat /\ two \in Seq(Int) /\ sbo <= Len(moved) BY <1>1, <1>5, <1>6
    <3>2. /\ buf \in Seq(Int) /\ (sbo + Len(two) <= Len(moved) => Len(buf) = Len(moved))
          /\ (sbo + Len(two) > Len(moved) => Len(buf) = sbo + Len(two))
          /\ \A i \in sbo + 1 .. sbo + Len(two) : buf[i] = two[i - sbo]
          /\ \A i \in 1 .. sbo : buf[i] = moved[i]
      BY <3>1, PutIs
    <3> HIDE DEF buf
    <3> QED BY <3>2, <1>1, <1>5, <1>6
  <2>2. ASSUME NEW i \in 1 .. size PROVE buf[i] = pos + t1 - sbo + i - 1
    <3>1. CASE i > sbo
      <4>1. i \in sbo + 1 .. sbo + t2 /\ i - sbo \in 1 .. t2 BY <3>1, <1>1
      <4>2. buf[i] = two[i - sbo] BY <2>1, <4>1
      <4> QED BY <4>1, <4>2, <1>5, <1>1
    <3>2. CASE i <= sbo
      <4>1. buf[i] = moved[i] /\ i \in 1 .. sbo BY <2>1, <3>2, <1>1
      <4> QED BY <4>1, <1>6, <1>1
    <3> QED BY <3>1, <3>2, <1>1
  <2> QED BY <2>1, <2>2, <1>1
<1> HIDE DEF buf
<1> DEFINE result == Samples(pos + t1 + delta, t2 - delta)
<1>8. /\ result \in Seq(Int) /\ Len(result) = t2 - delta
      /\ \A i \in 1 .. t2 - delta : result[i] = pos + t1 + delta + i - 1
  <2>1. pos + t1 + delta \in Int /\ t2 - delta \in Nat BY <1>1
  <2> QED BY <2>1, SamplesAre
<1> HIDE DEF result
<1>9. CASE delta > 0
  <2> DEFINE cut == SubSeq(buf, delta + 1, delta + (size - delta))
             put == Ahead!Put(buf, 0, cut)
             got == SubSeq(put, 1, size - delta)
  <2>1. Ahead!Both(m, t1, t2) = got BY <1>1, <1>3, <1>9 DEF Ahead!Moved
  <2>2. sbo = 0 /\ size = t2 /\ delta <= Len(buf) /\ delta <= size BY <1>1, <1>7, <1>9
  <2>3. /\ cut \in Seq(Int) /\ Len(cut) = t2 - delta
        /\ \A i \in 1 .. t2 - delta : cut[i] = buf[delta + i]
    <3> DEFINE n == size - delta
    <3>1. delta \in Nat /\ n \in Nat /\ delta + n <= Len(buf) /\ buf \in Seq(Int) /\ n = t2 - delta
      BY <1>1, <1>7, <2>2, <1>9
    <3> HIDE DEF n
    <3>2. /\ SubSeq(buf, delta + 1, delta + n) \in Seq(Int)
          /\ Len(SubSeq(buf, delta + 1, delta + n)) = n
          /\ \A i \in 1 .. n : SubSeq(buf, delta + 1, delta + n)[i] = buf[delta + i]
      BY <3>1, CutIs
    <3> QED BY <3>1, <3>2 DEF n
  <2> HIDE DEF cut
  <2>4. /\ put \in Seq(Int) /\ Len(put) = Len(buf)
        /\ \A i \in 1 .. t2 - delta : put[i] = cut[i]
    <3>1. 0 \in Nat /\ cut \in Seq(Int) /\ buf \in Seq(Int) /\ 0 <= Len(buf) BY <2>3, <1>7, <2>2, <1>1, <1>9
    <3>2. /\ put \in Seq(Int) /\ (0 + Len(cut) <= Len(buf) => Len(put) = Len(buf))
          /\ \A i \in 0 + 1 .. 0 + Len(cut) : put[i] = cut[i - 0]
      BY <3>1, PutIs
    <3> HIDE DEF put
    <3>3. ASSUME NEW i \in 1 .. t2 - delta PROVE put[i] = cut[i]
      <4>1. i \in 0 + 1 .. 0 + Len(cut) /\ i - 0 = i BY <2>3, <1>1
      <4> QED BY <4>1, <3>2
    <3> QED BY <3>2, <3>3, <2>2, <2>3, <1>7, <1>1, <1>9
  <2> HIDE DEF put
  <2>5. /\ got \in Seq(Int) /\ Len(got) = t2 - delta /\ \A i \in 1 .. t2 - delta : got[i] = put[i]
    <3> DEFINE n == size - delta
    <3>1. n \in Nat /\ n <= Len(put) /\ put \in Seq(Int) /\ n = t2 - delta BY <2>4, <2>2, <1>1, <1>7, <1>9
    <3> HIDE DEF n
    <3>2. /\ SubSeq(put, 1, n) \in Seq(Int) /\ Len(SubSeq(put, 1, n)) = n
          /\ \A i \in 1 .. n : SubSeq(put, 1, n)[i] = put[i]
      BY <3>1, FrontIsCut
    <3> QED BY <3>1, <3>2 DEF n
  <2> HIDE DEF got
  <2>6. ASSUME NEW i \in 1 .. t2 - delta PROVE got[i] = result[i]
    <3>1. i \in 1 .. Len(buf) /\ delta + i \in 1 .. size BY <2>2, <1>1, <1>7, <1>9
    <3>2. got[i] = buf[delta + i] BY <2>3, <2>4, <2>5, <3>1, <1>1
    <3> QED BY <3>1, <3>2, <1>7, <1>8, <2>2, <1>1
  <2>7. got = result
    <3> DEFINE n == t2 - delta
    <3>1. n \in Nat /\ Len(got) = n /\ Len(result) = n /\ \A i \in 1 .. n : got[i] = result[i]
      BY <2>5, <2>6, <1>1, <1>8
    <3> HIDE DEF n
    <3> QED BY <3>1, <2>5, <1>8, SameSeq
  <2> QED BY <2>1, <2>7 DEF result, pos, delta
<1>10. CASE delta <= 0
  <2> DEFINE got == SubSeq(buf, 1, size)
  <2>1. Ahead!Both(m, t1, t2) = got /\ sbo = -delta /\ size = t2 - delta BY <1>1, <1>3, <1>10
  <2>2. /\ got \in Seq(Int) /\ Len(got) = t2 - delta /\ \A i \in 1 .. t2 - delta : got[i] = buf[i]
    <3>1. size \in Nat /\ size <= Len(buf) /\ buf \in Seq(Int) /\ size = t2 - delta BY <2>1, <1>1, <1>7
    <3>2. /\ SubSeq(buf, 1, size) \in Seq(Int) /\ Len(SubSeq(buf, 1, size)) = size
          /\ \A i \in 1 .. size : SubSeq(buf, 1, size)[i] = buf[i]
      <4> HIDE DEF size
      <4> QED BY <3>1, FrontIsCut
    <3> HIDE DEF size
    <3> QED BY <3>1, <3>2
  <2> HIDE DEF got
  <2>3. ASSUME NEW i \in 1 .. t2 - delta PROVE got[i] = result[i]
    BY <2>1, <2>2, <1>7, <1>8, <1>1
  <2>4. got = result
    <3> DEFINE n == t2 - delta
    <3>1. n \in Nat /\ Len(got) = n /\ Len(result) = n /\ \A i \in 1 .. n : got[i] = result[i]
      BY <2>2, <2>3, <1>1, <1>8
    <3> HIDE DEF n
    <3> QED BY <3>1, <2>2, <1>8, SameSeq
  <2> QED BY <2>1, <2>4 DEF result, pos, delta
<1> QED BY <1>1, <1>9, <1>10 DEF result, pos, delta
LEMMA FirstIs ==
  ASSUME NEW m, m.pos \in Int, NEW t1 \in Nat, NEW t2 \in Nat
  PROVE  Ahead!First(m, t1, t2) = Samples(m.pos, t1)
<1> DEFINE pos == m.pos
           one == Samples(pos, t1)
           two == Samples(pos + t1, t2)
           first == Ahead!Put(<<>>, 0, one)
           buf == Ahead!Put(first, t1, two)
           got == SubSeq(buf, 1, t1)
<1>1. pos \in Int /\ pos + t1 \in Int OBVIOUS
<1>2. Ahead!First(m, t1, t2) = got
  BY DEF Ahead!First, Ahead!Sound, Ahead!After, Ahead!Machine, Samples
<1> HIDE DEF pos
<1>3. /\ one \in Seq(Int) /\ Len(one) = t1 /\ \A i \in 1 .. t1 : one[i] = pos + i - 1
  BY <1>1, SamplesAre
<1>4. two \in Seq(Int) BY <1>1, SamplesAre
<1> HIDE DEF one, two
<1>5. <<>> \in Seq(Int) /\ 0 \in Nat /\ 0 <= Len(<<>>) /\ Len(<<>>) = 0 OBVIOUS
<1>14. <<>> \in Seq(Int) /\ 0 \in Nat /\ one \in Seq(Int) /\ 0 <= Len(<<>>) BY <1>3, <1>5
<1>6. /\ first \in Seq(Int) /\ (0 + Len(one) <= Len(<<>>) => Len(first) = Len(<<>>))
      /\ (0 + Len(one) > Len(<<>>) => Len(first) = 0 + Len(one))
      /\ \A i \in 0 + 1 .. 0 + Len(one) : first[i] = one[i - 0]
  BY <1>14, PutIs
<1> HIDE DEF first
<1>7. Len(first) = t1 BY <1>3, <1>5, <1>6
<1>8. ASSUME NEW i \in 1 .. t1 PROVE first[i] = one[i]
  <2>1. i \in 0 + 1 .. 0 + Len(one) /\ i - 0 = i BY <1>3
  <2> QED BY <2>1, <1>6
<1>9. /\ buf \in Seq(Int) /\ (t1 + Len(two) <= Len(first) => Len(buf) = Len(first))
      /\ (t1 + Len(two) > Len(first) => Len(buf) = t1 + Len(two))
      /\ \A i \in 1 .. t1 : buf[i] = first[i]
  BY <1>4, <1>6, <1>7, PutIs
<1> HIDE DEF buf
<1>10. Len(buf) >= t1 /\ 1 \in 1 .. Len(buf) + 1 /\ t1 \in 0 .. Len(buf) BY <1>4, <1>7, <1>9
<1>11. /\ got \in Seq(Int) /\ Len(got) = t1 /\ \A i \in 1 .. t1 : got[i] = buf[i]
  BY <1>9, <1>10, FrontIsCut
<1> HIDE DEF got
<1>12. \A i \in 1 .. t1 : got[i] = one[i] BY <1>8, <1>9, <1>11
<1>13. got = one BY <1>11, <1>12, <1>3, SameSeq
<1> QED BY <1>2, <1>13 DEF one, pos

----------------------------------------------------------------------------
Machines == [hist : Seq(FrameInputs \cup {-1}), pos : Int, none : BOOLEAN]
AheadState ==
  [spex : BOOLEAN, sound : BOOLEAN, m : Machines, ss : Machines, state : Machines,
   expected : FrameSizes \cup {-1}, changed : BOOLEAN, ran : BOOLEAN, fresh : BOOLEAN, next : Int,
   shown : Seq(FrameInputs \cup {-1}), out : Seq(Int), before : Machines, in : FrameInputs \cup {0}]

\* Where the sound that was given out ends: after the frame ahead, if it was
\* given out with the frame.
Due(r) == r.m.pos + (IF r.sound THEN r.expected ELSE 0)

\* Invisible, of r.
Unseen(r) ==
  r.ran =>
    /\ r.m.hist = Append(r.before.hist, r.in)
    /\ r.shown = IF r.spex THEN Append(r.m.hist, r.in) ELSE r.m.hist
    /\ \A i \in 1 .. Len(r.out) - 1 : r.out[i + 1] = r.out[i] + 1
    /\ (r.next >= 0 /\ r.out # <<>>) => r.out[1] = r.next

\* What the sound is given out by: expected is right from the first frame on, and
\* what was heard last ends where it is due to.
InTime(r) ==
  /\ r.sound => r.spex
  /\ ~r.fresh => ~r.changed
  /\ ~r.changed /\ r.sound => r.expected \in FrameSizes
  /\ ~r.fresh /\ Ahead!Heard(r) >= 0 => Ahead!Heard(r) = Due(r)

AheadGood(r) == r \in AheadState /\ InTime(r) /\ Unseen(r)

\* A frame whose sound is n samples from one on.
LEMMA Framed ==
  ASSUME FrameAssumption, NEW r, AheadGood(r), NEW q, NEW in \in FrameInputs, NEW t1 \in FrameSizes,
         NEW from \in Int, NEW n \in Nat,
         q \in AheadState, q.sound = r.sound, q.spex = r.spex, ~q.changed, q.ran, ~q.fresh,
         q.sound => q.expected \in FrameSizes,
         q.out = Samples(from, n), q.next = IF r.fresh THEN -1 ELSE Ahead!Heard(r),
         q.before = r.m, q.in = in, q.m.hist = Append(r.m.hist, in),
         q.shown = IF q.spex THEN Append(q.m.hist, q.in) ELSE q.m.hist,
         ~r.fresh => from = Due(r),
         from + n = Due(q)
  PROVE  AheadGood(q)
<1>1. /\ q.out \in Seq(Int) /\ Len(q.out) = n
      /\ \A i \in 1 .. n : q.out[i] = from + i - 1
  BY SamplesAre
<1>2. ~r.fresh /\ Ahead!Heard(r) >= 0 => Ahead!Heard(r) = Due(r) BY DEF AheadGood, InTime
<1>3. Ahead!Heard(q) >= 0 => Ahead!Heard(q) = Due(q)
  <2>1. CASE n = 0
    <3>1. q.out = <<>> /\ from = Due(q) BY <1>1, <2>1
    <3>2. Ahead!Heard(q) = q.next BY <3>1 DEF Ahead!Heard
    <3> QED BY <3>1, <3>2, <1>2
  <2>2. CASE n # 0
    <3>1. q.out # <<>> /\ n \in 1 .. n BY <1>1, <2>2
    <3>2. q.out[Len(q.out)] = from + n - 1 BY <1>1, <3>1
    <3>3. q.out[Len(q.out)] + 1 = from + n BY <3>2
    <3> QED BY <3>1, <3>3 DEF Ahead!Heard
  <2> QED BY <2>1, <2>2
<1>4. InTime(q) BY <1>3 DEF InTime, AheadGood
<1>5. Unseen(q)
  <2>1. ASSUME NEW i \in 1 .. Len(q.out) - 1 PROVE q.out[i + 1] = q.out[i] + 1
    <3>1. i \in 1 .. n /\ i + 1 \in 1 .. n BY <1>1
    <3>2. q.out[i] = from + i - 1 /\ q.out[i + 1] = from + (i + 1) - 1 BY <1>1, <3>1
    <3> QED BY <3>2
  <2>2. ASSUME q.next >= 0, q.out # <<>> PROVE q.out[1] = q.next
    <3>1. n # 0 /\ 1 \in 1 .. n BY <1>1, <2>2
    <3>2. q.out[1] = from + 1 - 1 BY <1>1, <3>1
    <3>3. ~r.fresh /\ q.next = Ahead!Heard(r) BY <2>2
    <3> QED BY <3>2, <3>3, <1>2, <2>2
  <2> QED BY <2>1, <2>2 DEF Unseen
<1> QED BY <1>4, <1>5 DEF AheadGood
LEMMA AheadEmulated ==
  ASSUME FrameAssumption, AheadGood(s), NEW in \in FrameInputs, NEW t1 \in FrameSizes, NEW t2 \in FrameSizes,
         Ahead!Emulate(in, t1, t2)
  PROVE  AheadGood(s')
<1> DEFINE one == Ahead!After(s.m, in, t1)
           two == Ahead!After(one, in, t2)
           heard == IF s.fresh THEN -1 ELSE Ahead!Heard(s)
<1>1. /\ s \in AheadState /\ InTime(s) /\ s.m \in Machines /\ t1 \in Nat /\ t2 \in Nat
      /\ s.m.pos \in Int /\ s.expected \in FrameSizes \cup {-1}
  BY DEF AheadGood, AheadState, Machines, FrameAssumption
<1>2. /\ one \in Machines /\ two \in Machines /\ one.hist = Append(s.m.hist, in) /\ one.pos = s.m.pos + t1
      /\ two.hist = Append(one.hist, in)
  <2>1. one.hist = Append(s.m.hist, in) /\ one.pos = s.m.pos + t1 /\ two.hist = Append(one.hist, in)
    BY DEF Ahead!After, Ahead!Machine
  <2>2. one \in Machines BY <1>1 DEF Ahead!After, Ahead!Machine, Machines
  <2>3. two \in Machines
    <3> HIDE DEF one
    <3> QED BY <2>2, <1>1 DEF Ahead!After, Ahead!Machine, Machines
  <2> QED BY <2>1, <2>2, <2>3
<1>3. heard \in Int
  <2>1. Ahead!Heard(s) \in Int
    <3>1. CASE s.out = <<>> BY <3>1, <1>1 DEF Ahead!Heard, AheadState
    <3>2. CASE s.out # <<>>
      <4>1. s.out \in Seq(Int) BY <1>1 DEF AheadState
      <4>2. Len(s.out) \in 1 .. Len(s.out) BY <3>2, <4>1
      <4>3. s.out[Len(s.out)] \in Int BY <4>1, <4>2
      <4> QED BY <3>2, <4>3 DEF Ahead!Heard
    <3> QED BY <3>1, <3>2
  <2> QED BY <2>1
<1>4. CASE ~s.spex
  <2> DEFINE out == Ahead!Sound(s.m, t1)
             shown == Append(s.m.hist, in)
  <2>1. s' = [[s EXCEPT !.m = one, !.shown = shown, !.out = out]
                EXCEPT !.changed = FALSE, !.ran = TRUE, !.before = s.m, !.in = in, !.fresh = FALSE, !.next = heard]
    BY <1>4 DEF Ahead!Emulate, Ahead!Plain
  <2>2. out = Samples(s.m.pos, t1) BY DEF Ahead!Sound, Samples
  <2>3. out \in Seq(Int) BY <2>2, <1>1, SamplesAre
  <2>4. shown = one.hist /\ shown \in Seq(FrameInputs \cup {-1}) BY <1>2 DEF Machines
  <2> HIDE DEF one, two, heard, out, shown
  <2>5. s' \in AheadState BY Zenon, <2>1, <2>3, <2>4, <1>1, <1>2, <1>3 DEF AheadState
  <2>6. /\ s'.sound = s.sound /\ s'.spex = s.spex /\ ~s'.changed /\ s'.ran /\ ~s'.fresh
        /\ s'.out = out /\ s'.next = heard /\ s'.before = s.m /\ s'.in = in /\ s'.m = one /\ s'.shown = shown
    BY <2>1, <1>1 DEF AheadState
  <2>7. ~s.sound BY <1>1, <1>4 DEF InTime
  <2>8. Due(s) = s.m.pos /\ Due(s') = s.m.pos + t1 BY <2>6, <2>7, <1>1, <1>2 DEF Due
  <2> QED BY <1>1, <1>2, <1>4, <2>2, <2>4, <2>5, <2>6, <2>7, <2>8, Framed DEF heard
<1>5. CASE s.spex /\ s.sound
  <2> DEFINE out == Ahead!Both(s.m, t1, t2)
             shown == two.hist
             from == s.m.pos + t1 + Ahead1(t1)
             n == t2 - Ahead1(t1)
  <2>1. s' = [[s EXCEPT !.m = one, !.ss = one, !.shown = shown, !.out = out, !.expected = t2]
                EXCEPT !.changed = FALSE, !.ran = TRUE, !.before = s.m, !.in = in, !.fresh = FALSE, !.next = heard]
    BY <1>5 DEF Ahead!Emulate, Ahead!Speculated
  <2>2. out = Samples(from, n) BY <1>1, BothIs
  <2>3. from \in Int /\ n \in Nat /\ Ahead1(t1) \in Int
    <3>1. s.expected \in FrameSizes => s.expected \in Nat /\ s.expected <= t1 + t2 BY DEF FrameAssumption
    <3> QED BY <3>1, <1>1 DEF Ahead1
  <2>4. out \in Seq(Int)
    <3> HIDE DEF from, n
    <3> QED BY <2>2, <2>3, SamplesAre
  <2>5. shown = Append(one.hist, in) /\ shown \in Seq(FrameInputs \cup {-1}) BY <1>2 DEF Machines
  <2>6. ~s.fresh => from = Due(s)
    <3>1. ASSUME ~s.fresh PROVE from = Due(s)
      <4>1. ~s.changed /\ s.expected \in FrameSizes BY <3>1, <1>1, <1>5 DEF InTime
      <4>2. s.expected \in Nat BY <4>1 DEF FrameAssumption
      <4>3. Ahead1(t1) = s.expected - t1 BY <4>1, <4>2 DEF Ahead1
      <4> QED BY <4>2, <4>3, <1>1, <1>5 DEF Due
    <3> QED BY <3>1
  <2> HIDE DEF one, two, heard, out, shown
  <2>7. s' \in AheadState BY Zenon, <2>1, <2>4, <2>5, <1>1, <1>2, <1>3 DEF AheadState
  <2>8. /\ s'.sound = s.sound /\ s'.spex = s.spex /\ ~s'.changed /\ s'.ran /\ ~s'.fresh
        /\ s'.out = out /\ s'.next = heard /\ s'.before = s.m /\ s'.in = in /\ s'.m = one /\ s'.shown = shown
        /\ s'.expected = t2
    BY <2>1, <1>1 DEF AheadState
  <2>9. from + n = Due(s') BY <2>3, <2>8, <1>1, <1>2, <1>5 DEF Due
  <2> HIDE DEF from, n
  <2> QED BY <1>1, <1>2, <1>5, <2>2, <2>3, <2>5, <2>6, <2>7, <2>8, <2>9, Framed DEF heard
<1>6. CASE s.spex /\ ~s.sound
  <2> DEFINE out == Ahead!First(s.m, t1, t2)
             shown == two.hist
             expected == IF s.changed THEN -1 ELSE s.expected
  <2>1. s' = [[s EXCEPT !.m = one, !.ss = one, !.shown = shown, !.out = out, !.expected = expected]
                EXCEPT !.changed = FALSE, !.ran = TRUE, !.before = s.m, !.in = in, !.fresh = FALSE, !.next = heard]
    BY <1>6 DEF Ahead!Emulate, Ahead!Speculated
  <2>2. out = Samples(s.m.pos, t1) BY <1>1, FirstIs
  <2>3. out \in Seq(Int) BY <2>2, <1>1, SamplesAre
  <2>4. shown = Append(one.hist, in) /\ shown \in Seq(FrameInputs \cup {-1}) BY <1>2 DEF Machines
  <2>5. expected \in FrameSizes \cup {-1} BY <1>1
  <2> HIDE DEF one, two, heard, out, shown, expected
  <2>6. s' \in AheadState BY ZenonT(30), <2>1, <2>3, <2>4, <2>5, <1>1, <1>2, <1>3 DEF AheadState
  <2>7. /\ s'.sound = s.sound /\ s'.spex = s.spex /\ ~s'.changed /\ s'.ran /\ ~s'.fresh
        /\ s'.out = out /\ s'.next = heard /\ s'.before = s.m /\ s'.in = in /\ s'.m = one /\ s'.shown = shown
    BY <2>1, <1>1 DEF AheadState
  <2>8. Due(s) = s.m.pos /\ Due(s') = s.m.pos + t1 BY <2>7, <1>1, <1>2, <1>6 DEF Due
  <2> QED BY <1>1, <1>2, <1>6, <2>2, <2>4, <2>6, <2>7, <2>8, Framed DEF heard
<1> QED BY <1>1, <1>4, <1>5, <1>6 DEF AheadState

LEMMA AheadNext ==
  ASSUME FrameAssumption, AheadGood(s), Ahead!Next
  PROVE  AheadGood(s')
<1>1. s \in AheadState /\ InTime(s) BY DEF AheadGood
<1>2. CASE Ahead!Serialize
  <2>1. s' = [s EXCEPT !.state = s.m, !.ran = FALSE] BY <1>2 DEF Ahead!Serialize
  <2>2. s.m \in Machines BY <1>1 DEF AheadState
  <2>3. s' \in AheadState BY <1>1, <2>1, <2>2 DEF AheadState
  <2>4. ~s'.ran /\ \A f \in {"sound", "spex", "fresh", "changed", "expected", "m", "out", "next"} : s'[f] = s[f]
    BY <1>1, <2>1 DEF AheadState
  <2>5. /\ s'.sound = s.sound /\ s'.spex = s.spex /\ s'.fresh = s.fresh /\ s'.changed = s.changed
        /\ s'.expected = s.expected /\ s'.m = s.m /\ s'.out = s.out /\ s'.next = s.next
    BY <2>4
  <2>6. InTime(s') BY <1>1, <2>5 DEF InTime, Due, Ahead!Heard
  <2> QED BY <2>3, <2>4, <2>6 DEF AheadGood, Unseen
<1>3. CASE Ahead!Unserialize
  <2>1. s' = [s EXCEPT !.m = s.state, !.ran = FALSE, !.fresh = TRUE] BY <1>3 DEF Ahead!Unserialize
  <2>2. s.state \in Machines BY <1>1 DEF AheadState
  <2>3. s' \in AheadState BY <1>1, <2>1, <2>2 DEF AheadState
  <2>4. /\ s'.sound = s.sound /\ s'.spex = s.spex /\ s'.changed = s.changed /\ s'.expected = s.expected
        /\ s'.fresh /\ ~s'.ran
    BY <1>1, <2>1 DEF AheadState
  <2> QED BY <1>1, <2>3, <2>4 DEF AheadGood, Unseen, InTime
<1>4. CASE Ahead!Reset
  <2> DEFINE m == Ahead!Machine(Append(s.m.hist, -1), s.m.pos)
  <2>1. s' = [s EXCEPT !.m = m, !.ran = FALSE] BY <1>4, <1>1 DEF Ahead!Reset, AheadState
  <2>2. m \in Machines /\ m.pos = s.m.pos BY <1>1 DEF Ahead!Machine, Machines, AheadState
  <2> HIDE DEF m
  <2>3. s' \in AheadState BY <1>1, <2>1, <2>2 DEF AheadState
  <2>4. /\ s'.sound = s.sound /\ s'.spex = s.spex /\ s'.fresh = s.fresh /\ s'.changed = s.changed
        /\ s'.expected = s.expected /\ s'.m = m /\ s'.out = s.out /\ s'.next = s.next /\ ~s'.ran
    BY <1>1, <2>1 DEF AheadState
  <2>5. InTime(s') BY <1>1, <2>2, <2>4 DEF InTime, Due, Ahead!Heard
  <2> QED BY <2>3, <2>4, <2>5 DEF AheadGood, Unseen
<1> QED BY <1>2, <1>3, <1>4, AheadEmulated DEF Ahead!Next

LEMMA AheadStarts ==
  ASSUME FrameAssumption, Ahead!Init
  PROVE  AheadGood(s)
<1>1. PICK spex, sound \in BOOLEAN : (sound => spex) /\ s = Ahead!LoadReal(spex, sound) BY DEF Ahead!Init
<1>2. Ahead!Machine(<<>>, 0) \in Machines /\ Ahead!NoSS \in Machines
  BY DEF Ahead!Machine, Ahead!NoSS, Machines
<1>3. s \in AheadState
  <2> DEFINE zero == Ahead!Machine(<<>>, 0)
             none == Ahead!NoSS
  <2>1. s = [spex |-> spex, sound |-> sound, m |-> zero, ss |-> none, state |-> none,
             expected |-> -1, changed |-> TRUE, ran |-> FALSE, fresh |-> TRUE, next |-> 0,
             shown |-> <<>>, out |-> <<>>, before |-> zero, in |-> 0]
    BY <1>1 DEF Ahead!LoadReal
  <2>2. zero \in Machines /\ none \in Machines BY <1>2
  <2> HIDE DEF zero, none
  <2>3. /\ <<>> \in Seq(FrameInputs \cup {-1}) /\ <<>> \in Seq(Int) /\ -1 \in FrameSizes \cup {-1}
        /\ 0 \in Int /\ 0 \in FrameInputs \cup {0} /\ TRUE \in BOOLEAN /\ FALSE \in BOOLEAN
        /\ spex \in BOOLEAN /\ sound \in BOOLEAN
    OBVIOUS
  <2> QED BY <2>1, <2>2, <2>3, Zenon DEF AheadState
<1>4. s.fresh /\ s.changed /\ ~s.ran /\ s.sound = sound /\ s.spex = spex BY <1>1 DEF Ahead!LoadReal
<1> QED BY <1>1, <1>3, <1>4 DEF AheadGood, InTime, Unseen

LEMMA AheadSound == AheadGood(s) => Ahead!Invisible
BY DEF AheadGood, Unseen, Ahead!Invisible

----------------------------------------------------------------------------
(* The front end.                                                          *)

CheatPatches == {Core!Patch(c) : c \in DOMAIN CoreGood}
CoreState ==
  [init : {0, 1}, mgi : {"none", "game"}, cgi : {"none", "game"}, active : 0 .. 3,
   data : [1 .. 3 -> 0 .. 4], dev : [1 .. 3 -> BOOLEAN], port_data : [1 .. 3 -> 0 .. 4],
   given : [1 .. 3 -> 0 .. 4], live : SUBSET (1 .. 4),
   affinity : CoreAffinities \cup {CoreOwn}, save : CoreAffinities \cup {CoreOwn, 0},
   asked : CoreAffinities \cup {0}, cheats : Seq(CoreCodes \cup {""}), changed : BOOLEAN,
   patches : SUBSET CheatPatches, told : BOOLEAN, threw : BOOLEAN]

\* What is allocated is what the ports have, and a port without a device has none.
Owned(r) ==
  /\ r.live = {r.data[p] : p \in 1 .. 3} \ {0}
  /\ \A p \in 1 .. 3 : ~r.dev[p] => r.data[p] = 0

\* The first k ports have data of their own, of which everybody knows.
GivenTo(r, k) == \A p \in 1 .. k : r.data[p] # 0 /\ r.port_data[p] = r.data[p] /\ r.given[p] = r.data[p]

PortsKept(r) ==
  /\ r.live = {r.data[p] : p \in 1 .. 3} \ {0}
  /\ r.cgi # "none" => GivenTo(r, r.active)
  /\ r.cgi = "none" => r.live = {}

AffinityKept(r) ==
  IF r.cgi = "none" THEN r.affinity = CoreOwn /\ r.save = 0 /\ r.asked = 0
  ELSE IF r.asked = 0 THEN r.affinity = CoreOwn /\ r.save = 0
  ELSE r.affinity = r.asked /\ r.save = CoreOwn

\* A port is set: data that is not in use is made for it.
LEMMA InputMade ==
  ASSUME NEW r \in CoreState, Owned(r), NEW p \in 1 .. 3, ~r.dev[p]
  PROVE  LET n == Core!NewData(r)
             q == Core!MDFNI_SetInput(r, p)
         IN /\ n \in 1 .. 4
            /\ q = [r EXCEPT !.live = r.live \cup {n}, !.data = [r.data EXCEPT ![p] = n],
                             !.dev = [r.dev EXCEPT ![p] = TRUE],
                             !.given = [r.given EXCEPT ![p] = n], !.port_data = [r.port_data EXCEPT ![p] = n]]
<1> DEFINE n == Core!NewData(r)
<1>1. /\ r.data \in [1 .. 3 -> 0 .. 4] /\ r.live = {r.data[x] : x \in 1 .. 3} \ {0} /\ r.data[p] = 0
      /\ r.live \in SUBSET (1 .. 4)
  BY Zenon DEF CoreState, Owned
<1>2. Core!Cardinality(Core!Ports) = 3
  <2>1. Core!Cardinality(1 .. 3) = Cardinality(1 .. 3) BY DEF Core!Cardinality, Cardinality
  <2>2. Cardinality(1 .. 3) = 3
    <3>1. \A a, b \in Int : Cardinality(a .. b) = IF a > b THEN 0 ELSE b - a + 1
      BY FS_Interval, Zenon
    <3>2. 1 \in Int /\ 3 \in Int /\ ~(1 > 3) /\ 3 - 1 + 1 = 3 OBVIOUS
    <3> QED BY <3>1, <3>2
  <2> QED BY <2>1, <2>2 DEF Core!Ports
<1>3. \E x \in 1 .. 4 : x \notin r.live
  <2>1. r.live \subseteq {r.data[1], r.data[2], r.data[3]}
    <3>1. \A x \in 1 .. 3 : x = 1 \/ x = 2 \/ x = 3 OBVIOUS
    <3> QED BY <1>1, <3>1
  <2>2. \E x \in 1 .. 4 : x # r.data[1] /\ x # r.data[2] /\ x # r.data[3]
    <3>1. r.data[1] \in 0 .. 4 /\ r.data[2] \in 0 .. 4 /\ r.data[3] \in 0 .. 4 BY <1>1
    <3>2. 1 \in 1 .. 4 /\ 2 \in 1 .. 4 /\ 3 \in 1 .. 4 /\ 4 \in 1 .. 4 OBVIOUS
    <3>3. r.data[1] = 0 \/ r.data[2] = 0 \/ r.data[3] = 0
      <4>1. p = 1 \/ p = 2 \/ p = 3 OBVIOUS
      <4> QED BY <4>1, <1>1
    <3> QED BY <3>1, <3>2, <3>3
  <2> QED BY <2>1, <2>2
<1>4. n = CHOOSE x \in 1 .. 4 : x \notin r.live BY <1>2 DEF Core!NewData
<1>5. n \in 1 .. 4 BY <1>3, <1>4
<1> HIDE DEF n
<1>6. r.live \ {r.data[p]} = r.live BY <1>1
<1>7. Core!MDFNI_SetInput(r, p) =
        [r EXCEPT !.live = (r.live \ {r.data[p]}) \cup {n}, !.data = [r.data EXCEPT ![p] = n],
                  !.dev = [r.dev EXCEPT ![p] = TRUE],
                  !.given = [r.given EXCEPT ![p] = n], !.port_data = [r.port_data EXCEPT ![p] = n]]
  BY Zenon DEF Core!MDFNI_SetInput, n, CoreState
<1> QED BY <1>5, <1>6, <1>7 DEF n

OwnedStates == {x \in CoreState : Owned(x)}

LEMMA InputSet ==
  ASSUME NEW r \in OwnedStates, NEW p \in 1 .. 3
  PROVE  /\ Core!MDFNI_SetInput(r, p) \in OwnedStates
         /\ (~r.dev[p] /\ GivenTo(r, p - 1)) => GivenTo(Core!MDFNI_SetInput(r, p), p)
         /\ \A q \in 1 .. 3 : q # p => Core!MDFNI_SetInput(r, p).dev[q] = r.dev[q]
         /\ \A f \in {"init", "mgi", "cgi", "active", "affinity", "save", "asked", "cheats", "changed",
                      "patches", "told", "threw"} : Core!MDFNI_SetInput(r, p)[f] = r[f]
<1> DEFINE q == Core!MDFNI_SetInput(r, p)
<1>1. r \in CoreState /\ Owned(r) BY DEF OwnedStates
<1>2. CASE r.dev[p]
  <2> DEFINE port == [r.port_data EXCEPT ![p] = r.data[p]]
  <2>1. q = [r EXCEPT !.port_data = port] BY Zenon, <1>1, <1>2 DEF Core!MDFNI_SetInput, CoreState
  <2>2. port \in [1 .. 3 -> 0 .. 4] BY Zenon, <1>1 DEF CoreState
  <2> HIDE DEF port
  <2>3. q \in CoreState BY Zenon, <2>1, <2>2, <1>1 DEF CoreState
  <2>4. q.live = r.live /\ q.data = r.data /\ q.dev = r.dev BY Zenon, <2>1, <1>1 DEF CoreState
  <2>5. Owned(q) BY <2>4, <1>1 DEF Owned
  <2>6. \A f \in {"init", "mgi", "cgi", "active", "affinity", "save", "asked", "cheats", "changed",
                  "patches", "told", "threw"} : q[f] = r[f]
    BY ZenonT(30), <2>1, <1>1 DEF CoreState
  <2> QED BY <2>3, <2>4, <2>5, <2>6, <1>2 DEF OwnedStates
<1>3. CASE ~r.dev[p]
  <2> DEFINE n == Core!NewData(r)
             data == [r.data EXCEPT ![p] = n]
             dev == [r.dev EXCEPT ![p] = TRUE]
             given == [r.given EXCEPT ![p] = n]
             port == [r.port_data EXCEPT ![p] = n]
             live == r.live \cup {n}
  <2>1. n \in 1 .. 4 BY ZenonT(30), <1>1, <1>3, InputMade
  <2>2. q = [r EXCEPT !.live = live, !.data = data, !.dev = dev, !.given = given, !.port_data = port]
    BY Zenon, <1>1, <1>3, InputMade
  <2> HIDE DEF n
  <2>3. /\ r.data \in [1 .. 3 -> 0 .. 4] /\ r.dev \in [1 .. 3 -> BOOLEAN] /\ r.given \in [1 .. 3 -> 0 .. 4]
        /\ r.port_data \in [1 .. 3 -> 0 .. 4] /\ r.live \in SUBSET (1 .. 4)
    BY Zenon, <1>1 DEF CoreState
  <2>4. /\ data \in [1 .. 3 -> 0 .. 4] /\ dev \in [1 .. 3 -> BOOLEAN] /\ given \in [1 .. 3 -> 0 .. 4]
        /\ port \in [1 .. 3 -> 0 .. 4] /\ live \in SUBSET (1 .. 4)
    BY <2>1, <2>3
  <2>5. /\ live = {data[x] : x \in 1 .. 3} \ {0}
        /\ \A x \in 1 .. 3 : ~dev[x] => data[x] = 0
        /\ \A x \in 1 .. 3 : x # p => dev[x] = r.dev[x]
    <3>1. r.live = {r.data[x] : x \in 1 .. 3} \ {0} /\ r.data[p] = 0 BY <1>1, <1>3 DEF Owned
    <3>2. \A x \in 1 .. 3 : ~r.dev[x] => r.data[x] = 0 BY <1>1 DEF Owned
    <3>3. \A x \in 1 .. 3 : data[x] = IF x = p THEN n ELSE r.data[x] BY <2>3
    <3>4. \A x \in 1 .. 3 : dev[x] = IF x = p THEN TRUE ELSE r.dev[x] BY <2>3
    <3> HIDE DEF data, dev
    <3>5. ASSUME NEW y PROVE y \in live <=> y \in {data[x] : x \in 1 .. 3} \ {0}
      BY <3>1, <3>3, <2>1
    <3> QED BY <3>2, <3>3, <3>4, <3>5
  <2>6. GivenTo(r, p - 1) => \A x \in 1 .. p : data[x] # 0 /\ port[x] = data[x] /\ given[x] = data[x]
    <3>1. ASSUME GivenTo(r, p - 1), NEW x \in 1 .. p PROVE data[x] # 0 /\ port[x] = data[x] /\ given[x] = data[x]
      <4>1. CASE x = p BY <4>1, <2>1, <2>3
      <4>2. CASE x # p
        <5>1. x \in 1 .. p - 1 /\ x \in 1 .. 3 BY <4>2
        <5>2. data[x] = r.data[x] /\ port[x] = r.port_data[x] /\ given[x] = r.given[x] BY <5>1, <4>2, <2>3
        <5> QED BY <5>1, <5>2, <3>1 DEF GivenTo
      <4> QED BY <4>1, <4>2
    <3> QED BY <3>1
  <2> HIDE DEF data, dev, given, port, live
  <2> HIDE DEF q
  <2>7. q \in CoreState BY <2>2, <2>4, <1>1, Zenon DEF CoreState
  <2> USE DEF q
  <2>8. q.live = live /\ q.data = data /\ q.dev = dev /\ q.given = given /\ q.port_data = port
    BY Zenon, <2>2, <1>1 DEF CoreState
  <2>9. \A f \in {"init", "mgi", "cgi", "active", "affinity", "save", "asked", "cheats", "changed",
                  "patches", "told", "threw"} : q[f] = r[f]
    BY ZenonT(30), <2>2, <1>1 DEF CoreState
  <2>10. Owned(q) BY <2>5, <2>8 DEF Owned
  <2>11. GivenTo(r, p - 1) => GivenTo(q, p) BY <2>6, <2>8 DEF GivenTo
  <2> HIDE DEF q
  <2> QED BY <2>5, <2>7, <2>8, <2>9, <2>10, <2>11 DEF OwnedStates, q
<1> QED BY <1>2, <1>3
CallFields == {"init", "mgi", "cgi", "active", "affinity", "save", "asked", "cheats", "changed",
               "patches", "told", "threw"}

\* Ports without devices are set one after the other.
LEMMA InputsSet ==
  ASSUME NEW r \in OwnedStates, \A p \in 1 .. 3 : ~r.dev[p], NEW n, n \in 0 .. 3
  PROVE  /\ Core!SetInputs(r, n) \in OwnedStates
         /\ GivenTo(Core!SetInputs(r, n), n)
         /\ \A f \in CallFields : Core!SetInputs(r, n)[f] = r[f]
<1> DEFINE Set(f) == f = [p \in 0 .. n |-> IF p = 0 THEN r ELSE Core!MDFNI_SetInput(f[p - 1], p)]
           set == CHOOSE f : Set(f)
           g == [p \in 1 .. n |-> [x \in OwnedStates |-> Core!MDFNI_SetInput(x, p)]]
<1>1. Core!SetInputs(r, n) = set[n] BY DEF Core!SetInputs
<1>2. g \in [1 .. n -> [OwnedStates -> OwnedStates]]
  <2>1. \A p \in 1 .. n : p \in 1 .. 3 OBVIOUS
  <2> QED BY <2>1, InputSet
<1>3. PICK h \in [0 .. n -> OwnedStates] : h[0] = r /\ \A i \in 1 .. n : h[i] = g[i][h[i - 1]]
  <2> HIDE DEF g
  <2>1. n \in Nat /\ r \in OwnedStates OBVIOUS
  <2> QED BY <1>2, <2>1, StepsTaken, SMTT(60)
<1>4. Set(h)
  <2>1. ASSUME NEW p \in 1 .. n PROVE g[p][h[p - 1]] = Core!MDFNI_SetInput(h[p - 1], p)
    <3>1. p - 1 \in 0 .. n OBVIOUS
    <3>2. h[p - 1] \in OwnedStates BY <3>1
    <3> QED BY <3>2, Zenon
  <2> HIDE DEF g
  <2>2. \A p \in 0 .. n : h[p] = IF p = 0 THEN r ELSE Core!MDFNI_SetInput(h[p - 1], p)
    BY <1>3, <2>1
  <2> QED BY <1>3, <2>2
<1>5. Set(set)
  <2> HIDE DEF Set
  <2> QED BY <1>4
<1> HIDE DEF set
<1>6. \A p \in 0 .. n : set[p] = IF p = 0 THEN r ELSE Core!MDFNI_SetInput(set[p - 1], p) BY <1>5, Zenon
<1> DEFINE Done(x, k) == /\ x \in OwnedStates /\ GivenTo(x, k) /\ \A f \in CallFields : x[f] = r[f]
                         /\ \A q \in 1 .. 3 : q > k => ~x.dev[q]
<1>7. ASSUME NEW x, NEW k \in 0 .. 2, Done(x, k) PROVE Done(Core!MDFNI_SetInput(x, k + 1), k + 1)
  <2> DEFINE y == Core!MDFNI_SetInput(x, k + 1)
  <2>1. k + 1 \in 1 .. 3 /\ (k + 1) - 1 = k /\ ~x.dev[k + 1] BY <1>7
  <2>2. y \in OwnedStates /\ GivenTo(y, k + 1) BY <1>7, <2>1, InputSet
  <2>3. \A f \in CallFields : y[f] = r[f] BY <1>7, <2>1, InputSet DEF CallFields
  <2>4. \A q \in 1 .. 3 : q # k + 1 => y.dev[q] = x.dev[q] BY <1>7, <2>1, InputSet
  <2> HIDE DEF y
  <2>5. \A q \in 1 .. 3 : q > k + 1 => ~y.dev[q] BY <1>7, <2>4
  <2> QED BY <2>2, <2>3, <2>5 DEF y
<1>8. Done(r, 0) BY DEF GivenTo
<1> HIDE DEF Done
<1>9. Done(set[n], n)
  <2>1. set[0] = r /\ Done(set[0], 0) BY <1>6, <1>8
  <2>2. n >= 1 => Done(set[1], 1)
    <3>1. ASSUME n >= 1 PROVE Done(set[1], 1)
      <4>1. set[1] = Core!MDFNI_SetInput(set[0], 1) BY <3>1, <1>6
      <4>2. 0 \in 0 .. 2 /\ 0 + 1 = 1 OBVIOUS
      <4>3. Done(Core!MDFNI_SetInput(set[0], 0 + 1), 0 + 1) BY <1>7, <2>1, <4>2
      <4> QED BY <4>1, <4>2, <4>3
    <3> QED BY <3>1
  <2>3. n >= 2 => Done(set[2], 2)
    <3>1. ASSUME n >= 2 PROVE Done(set[2], 2)
      <4>1. set[2] = Core!MDFNI_SetInput(set[1], 2) BY <3>1, <1>6
      <4>2. 1 \in 0 .. 2 /\ 1 + 1 = 2 OBVIOUS
      <4>3. Done(Core!MDFNI_SetInput(set[1], 1 + 1), 1 + 1) BY <1>7, <2>2, <4>2, <3>1
      <4> QED BY <4>1, <4>2, <4>3
    <3> QED BY <3>1
  <2>4. n >= 3 => Done(set[3], 3)
    <3>1. ASSUME n >= 3 PROVE Done(set[3], 3)
      <4>1. set[3] = Core!MDFNI_SetInput(set[2], 3) BY <3>1, <1>6
      <4>2. 2 \in 0 .. 2 /\ 2 + 1 = 3 OBVIOUS
      <4>3. Done(Core!MDFNI_SetInput(set[2], 2 + 1), 2 + 1) BY <1>7, <2>3, <4>2, <3>1
      <4> QED BY <4>1, <4>2, <4>3
    <3> QED BY <3>1
  <2>5. n = 0 \/ n = 1 \/ n = 2 \/ n = 3 OBVIOUS
  <2> QED BY <2>1, <2>2, <2>3, <2>4, <2>5
<1> QED BY <1>1, <1>9 DEF Done

\* Every bit of the address is in the place its letter has.
LEMMA BitsInPlace ==
  ASSUME NEW code \in DOMAIN CoreGood, NEW k \in 0 .. 23
  PROVE  Core!Patch(code).addr[k] = Core!Unscrambled(CoreGood[code], k)
<1> DEFINE ev == [i \in 1 .. 8 |-> Core!subst_table[CoreGood[code][i] + 1]]
           Place == CHOOSE p \in 1 .. 24 : Core!Letters[p] = k
<1>1. Core!Patch(code).addr[k] = Core!BitOf(ev, Core!bm[k + 1]) BY DEF Core!Patch, Core!DecodeGG
<1>2. Core!Unscrambled(CoreGood[code], k) = Core!BitOf(ev, 24 - Place) BY DEF Core!Unscrambled
<1> HIDE DEF ev
<1>3. \A p \in 1 .. 24 : Core!Letters[p] \in 0 .. 23 /\ Core!bm[Core!Letters[p] + 1] = 24 - p
  BY DEF Core!Letters, Core!bm
<1>4. \E p \in 1 .. 24 : Core!Letters[p] = k
  BY DEF Core!Letters
<1>5. Place \in 1 .. 24 /\ Core!Letters[Place] = k BY <1>4
<1>6. Core!bm[k + 1] = 24 - Place BY <1>3, <1>5
<1> QED BY <1>1, <1>2, <1>6

----------------------------------------------------------------------------
Adds == [patches : SUBSET CheatPatches, threw : BOOLEAN]

\* What the first i of the cheats come to.
AddedUpTo(cheats, r, i) ==
  /\ r.threw => \E j \in 1 .. i : Core!Throws(cheats[j])
  /\ ~r.threw =>
       /\ \A j \in 1 .. i : ~Core!Throws(cheats[j])
       /\ \A q \in r.patches : \E j \in 1 .. i :
            Core!Patch(cheats[j]) = q /\ \A l \in j + 1 .. i : Core!Patch(cheats[l]).addr # q.addr
       /\ \A j \in 1 .. i : \E q \in r.patches : q.addr = Core!Patch(cheats[j]).addr

LEMMA CheatAdded ==
  ASSUME NEW cheats, NEW i \in Nat, NEW r \in Adds, AddedUpTo(cheats, r, i)
  PROVE  AddedUpTo(cheats, Core!Added(r, cheats[i + 1]), i + 1)
<1> DEFINE code == cheats[i + 1]
           q == Core!Added(r, code)
<1>1. CASE r.threw
  <2>1. q = r BY <1>1 DEF Core!Added
  <2>2. PICK j \in 1 .. i : Core!Throws(cheats[j]) BY <1>1 DEF AddedUpTo
  <2>3. j \in 1 .. i + 1 OBVIOUS
  <2> HIDE DEF q
  <2> QED BY <1>1, <2>1, <2>2, <2>3 DEF AddedUpTo, q
<1>2. CASE ~r.threw /\ Core!Throws(code)
  <2>1. q.threw BY <1>2 DEF Core!Added, Adds
  <2>2. i + 1 \in 1 .. i + 1 OBVIOUS
  <2> QED BY <1>2, <2>1, <2>2 DEF AddedUpTo
<1>3. CASE ~r.threw /\ ~Core!Throws(code)
  <2> DEFINE p == Core!Patch(code)
             rest == {x \in r.patches : x.addr # p.addr}
  <2>1. ~q.threw /\ q.patches = rest \cup {p}
    BY <1>3 DEF Core!Added, Core!Installed, Adds
  <2>2. \A j \in 1 .. i : ~Core!Throws(cheats[j]) BY <1>3 DEF AddedUpTo
  <2>3. \A j \in 1 .. i + 1 : j \in 1 .. i \/ j = i + 1 OBVIOUS
  <2>4. \A j \in 1 .. i + 1 : ~Core!Throws(cheats[j]) BY <2>2, <2>3, <1>3
  <2> HIDE DEF p
  <2>5. ASSUME NEW x \in q.patches
        PROVE  \E j \in 1 .. i + 1 :
                 Core!Patch(cheats[j]) = x /\ \A l \in j + 1 .. i + 1 : Core!Patch(cheats[l]).addr # x.addr
    <3>1. CASE x = p
      <4>1. i + 1 \in 1 .. i + 1 /\ (i + 1) + 1 .. i + 1 = {} OBVIOUS
      <4> QED BY <3>1, <4>1 DEF p
    <3>2. CASE x \in rest
      <4>1. x \in r.patches /\ x.addr # p.addr BY <3>2
      <4>2. PICK j \in 1 .. i : Core!Patch(cheats[j]) = x
                              /\ \A l \in j + 1 .. i : Core!Patch(cheats[l]).addr # x.addr
        BY <4>1, <1>3 DEF AddedUpTo
      <4>3. j \in 1 .. i + 1 /\ \A l \in j + 1 .. i + 1 : l \in j + 1 .. i \/ l = i + 1 OBVIOUS
      <4>4. Core!Patch(cheats[i + 1]).addr # x.addr BY <4>1 DEF p
      <4> QED BY <4>2, <4>3, <4>4
    <3> QED BY <3>1, <3>2, <2>1
  <2>6. ASSUME NEW j \in 1 .. i + 1 PROVE \E x \in q.patches : x.addr = Core!Patch(cheats[j]).addr
    <3>1. CASE Core!Patch(cheats[j]).addr = p.addr BY <3>1, <2>1
    <3>2. CASE Core!Patch(cheats[j]).addr # p.addr
      <4>1. j \in 1 .. i BY <3>2, <2>3 DEF p
      <4>2. PICK x \in r.patches : x.addr = Core!Patch(cheats[j]).addr BY <4>1, <1>3 DEF AddedUpTo
      <4>3. x \in rest BY <4>2, <3>2
      <4> QED BY <4>2, <4>3, <2>1
    <3> QED BY <3>1, <3>2
  <2> HIDE DEF q
  <2>7. AddedUpTo(cheats, q, i + 1) BY <2>1, <2>4, <2>5, <2>6 DEF AddedUpTo
  <2> QED BY <2>7 DEF q
<1> QED BY <1>1, <1>2, <1>3

LEMMA CheatTyped ==
  ASSUME NEW r \in Adds, NEW code
  PROVE  Core!Added(r, code) \in Adds
<1>1. r.patches \in SUBSET CheatPatches /\ r.threw \in BOOLEAN BY DEF Adds
<1>2. CASE r.threw BY <1>2 DEF Core!Added
<1>3. CASE ~r.threw /\ Core!Throws(code) BY <1>3, <1>1 DEF Core!Added, Adds
<1>4. CASE ~r.threw /\ ~Core!Throws(code)
  <2> DEFINE patches == Core!Installed(r.patches, Core!Patch(code))
  <2>1. patches \in SUBSET CheatPatches BY <1>1, <1>4 DEF Core!Installed, CheatPatches, Core!Throws
  <2>2. Core!Added(r, code) = [r EXCEPT !.patches = patches] BY <1>4 DEF Core!Added, Adds
  <2> HIDE DEF patches
  <2> QED BY <2>1, <2>2, <1>1 DEF Adds
<1> QED BY <1>2, <1>3, <1>4

LEMMA CheatsAdded ==
  ASSUME NEW C, NEW cheats \in Seq(C)
  PROVE  /\ Core!AddCheats(cheats) \in Adds
         /\ AddedUpTo(cheats, Core!AddCheats(cheats), Len(cheats))
<1> DEFINE n == Len(cheats)
           none == [patches |-> {}, threw |-> FALSE]
           Add(f) == f = [i \in 0 .. n |-> IF i = 0 THEN none ELSE Core!Added(f[i - 1], cheats[i])]
           added == CHOOSE f : Add(f)
           g == [i \in 1 .. n |-> [x \in Adds |-> Core!Added(x, cheats[i])]]
<1>0. n \in Nat /\ none \in Adds BY DEF Adds
<1>1. Core!AddCheats(cheats) = added[n] BY DEF Core!AddCheats
<1> HIDE DEF n, none
<1>2. g \in [1 .. n -> [Adds -> Adds]] BY CheatTyped
<1>3. PICK h \in [0 .. n -> Adds] : h[0] = none /\ \A i \in 1 .. n : h[i] = g[i][h[i - 1]]
  <2> HIDE DEF g
  <2> QED BY <1>0, <1>2, StepsTaken
<1>4. Add(h)
  <2>1. ASSUME NEW i \in 1 .. n PROVE g[i][h[i - 1]] = Core!Added(h[i - 1], cheats[i])
    <3>1. i - 1 \in 0 .. n BY <1>0
    <3>2. h[i - 1] \in Adds BY <3>1
    <3> QED BY <3>2, Zenon
  <2> HIDE DEF g
  <2>2. \A i \in 0 .. n : h[i] = IF i = 0 THEN none ELSE Core!Added(h[i - 1], cheats[i])
    BY <1>3, <2>1, <1>0
  <2> QED BY <1>3, <2>2
<1>5. Add(added)
  <2> HIDE DEF Add
  <2> QED BY <1>4
<1> HIDE DEF added
<1>6. \A i \in 0 .. n : added[i] = IF i = 0 THEN none ELSE Core!Added(added[i - 1], cheats[i])
  BY <1>5, Zenon
<1> DEFINE T == {i \in Nat : i <= n => added[i] \in Adds /\ AddedUpTo(cheats, added[i], i)}
<1>7. 0 \in T
  <2>1. added[0] = none BY <1>0, <1>6
  <2>2. AddedUpTo(cheats, none, 0)
    <3>1. 1 .. 0 = {} OBVIOUS
    <3> QED BY <3>1 DEF AddedUpTo, none
  <2> QED BY <1>0, <2>1, <2>2
<1>8. ASSUME NEW i \in T PROVE i + 1 \in T
  <2>1. i \in Nat /\ (i <= n => added[i] \in Adds /\ AddedUpTo(cheats, added[i], i)) BY <1>8
  <2>2. ASSUME i + 1 <= n PROVE added[i + 1] \in Adds /\ AddedUpTo(cheats, added[i + 1], i + 1)
    <3>1. i + 1 \in 0 .. n /\ i + 1 # 0 /\ (i + 1) - 1 = i /\ i <= n BY <2>1, <2>2, <1>0
    <3>2. added[i + 1] = Core!Added(added[i], cheats[i + 1]) BY <1>6, <3>1
    <3> QED BY <2>1, <3>1, <3>2, CheatAdded, CheatTyped
  <2> QED BY <2>1, <2>2
<1>9. n \in T
  <2> HIDE DEF T
  <2>1. T \subseteq Nat BY DEF T
  <2> QED BY <1>0, <1>7, <1>8, <2>1, NatSet
<1> QED BY <1>0, <1>1, <1>9 DEF n
\* CheatsInForce, of r.
InForce(r) ==
  (r.cgi # "none" /\ r.told /\ (r.threw \/ ~r.changed)) =>
    /\ r.threw <=> \E i \in DOMAIN r.cheats : Core!Throws(r.cheats[i])
    /\ r.threw => r.changed
    /\ ~r.threw => AddedUpTo(r.cheats, r, Len(r.cheats))

LEMMA Closed ==
  ASSUME NEW r \in CoreState, NEW active \in 0 .. 3
  PROVE  LET q == Core!MDFNI_CloseGame([r EXCEPT !.active = active, !.told = FALSE])
         IN /\ q \in OwnedStates /\ \A p \in 1 .. 3 : ~q.dev[p]
            /\ q.live = {} /\ \A p \in 1 .. 3 : q.data[p] = 0
            /\ q.active = active /\ ~q.told /\ q.mgi = "none"
            /\ \A f \in {"init", "cgi", "affinity", "save", "asked", "cheats", "changed", "threw"} : q[f] = r[f]
<1> DEFINE x == [r EXCEPT !.active = active, !.told = FALSE]
           q == Core!MDFNI_CloseGame(x)
           patches == IF r.mgi = "none" THEN r.patches ELSE {}
           no == [p \in 1 .. 3 |-> 0]
           off == [p \in 1 .. 3 |-> FALSE]
<1>1. x \in CoreState /\ x.mgi = r.mgi /\ x.patches = r.patches BY Zenon DEF CoreState
<1>2. patches \in SUBSET CheatPatches /\ no \in [1 .. 3 -> 0 .. 4] /\ off \in [1 .. 3 -> BOOLEAN]
  <2>1. r.patches \in SUBSET CheatPatches /\ {} \in SUBSET CheatPatches BY Zenon DEF CoreState
  <2>2. 0 \in 0 .. 4 /\ FALSE \in BOOLEAN OBVIOUS
  <2> QED BY <2>1, <2>2
<1>3. q = [x EXCEPT !.mgi = "none", !.patches = patches, !.live = {}, !.data = no, !.dev = off]
  BY Zenon, <1>1 DEF Core!MDFNI_CloseGame, Core!NoGame, Core!NoData, Core!NoPorts, Core!Ports, CoreState
<1>4. /\ \A f \in {"init", "cgi", "affinity", "save", "asked", "cheats", "changed", "threw"} : x[f] = r[f]
      /\ x.active = active /\ ~x.told
  BY Zenon DEF CoreState
<1> HIDE DEF x, patches, no, off
<1>5. q \in CoreState BY ZenonT(30), <1>1, <1>2, <1>3 DEF CoreState
<1>6. q.live = {} /\ q.data = no /\ q.dev = off /\ q.mgi = "none" /\ q.active = x.active /\ q.told = x.told
  BY Zenon, <1>1, <1>3 DEF CoreState
<1>7. \A f \in {"init", "cgi", "affinity", "save", "asked", "cheats", "changed", "threw"} : q[f] = x[f]
  <2>1. /\ q.init = x.init /\ q.cgi = x.cgi /\ q.affinity = x.affinity /\ q.save = x.save
        /\ q.asked = x.asked /\ q.cheats = x.cheats /\ q.changed = x.changed /\ q.threw = x.threw
    BY Zenon, <1>1, <1>3 DEF CoreState
  <2> HIDE DEF q
  <2> QED BY <2>1
<1> HIDE DEF q
<1>8. Owned(q)
  <2>1. {no[p] : p \in 1 .. 3} \ {0} = {} BY DEF no
  <2> QED BY <1>6, <2>1 DEF Owned, no
<1> QED BY <1>4, <1>5, <1>6, <1>7, <1>8 DEF OwnedStates, q, x, no, off
CoreStays(r) == r \in CoreState /\ PortsKept(r) /\ AffinityKept(r) /\ InForce(r)

\* A game is loaded: its ports are given data of their own.
LEMMA Loaded ==
  ASSUME NEW r \in OwnedStates, \A p \in 1 .. 3 : ~r.dev[p], r.live = {}, \A p \in 1 .. 3 : r.data[p] = 0
  PROVE  LET q == Core!SetInputs([Core!Loading(r, "game") EXCEPT !.cgi = "game"], r.active)
         IN /\ q \in OwnedStates /\ GivenTo(q, q.active)
            /\ q.cgi = "game"
            /\ \A f \in CallFields \ {"mgi", "cgi"} : q[f] = r[f]
<1> DEFINE no == [p \in 1 .. 3 |-> 0]
           x == [Core!Loading(r, "game") EXCEPT !.cgi = "game"]
           q == Core!SetInputs(x, r.active)
<1>1. r \in CoreState /\ Owned(r) /\ no \in [1 .. 3 -> 0 .. 4] BY DEF OwnedStates
<1>2. x = [[r EXCEPT !.mgi = "game", !.given = no] EXCEPT !.cgi = "game"]
  BY DEF Core!Loading, Core!NoData, Core!NoPorts, Core!Ports
<1> HIDE DEF no
<1>3. /\ x \in CoreState /\ x.live = r.live /\ x.data = r.data /\ x.dev = r.dev /\ x.cgi = "game" /\ x.active = r.active
      /\ x.init = r.init /\ x.affinity = r.affinity /\ x.save = r.save /\ x.asked = r.asked
      /\ x.cheats = r.cheats /\ x.changed = r.changed /\ x.patches = r.patches /\ x.told = r.told
      /\ x.threw = r.threw
  BY Zenon, <1>1, <1>2 DEF CoreState
<1>4. r.active \in 0 .. 3 BY Zenon, <1>1 DEF CoreState
<1> HIDE DEF x
<1>5. x \in OwnedStates /\ \A p \in 1 .. 3 : ~x.dev[p] BY <1>1, <1>3 DEF OwnedStates, Owned
<1>6. q \in OwnedStates /\ GivenTo(q, r.active) /\ \A f \in CallFields : q[f] = x[f]
  BY <1>4, <1>5, InputsSet
<1> HIDE DEF q
<1>7. q.active = x.active /\ q.cgi = x.cgi BY <1>6 DEF CallFields
<1>8. \A f \in CallFields \ {"mgi", "cgi"} : x[f] = r[f] BY <1>3 DEF CallFields
<1> QED BY <1>3, <1>6, <1>7, <1>8 DEF q, x

LEMMA GameLoaded ==
  ASSUME CoreAssumption, CoreStays(s),
         NEW outcome, NEW taps \in DOMAIN CoreActive \cup {"nothing"}, NEW affinity \in CoreAffinities,
         Core!retro_load_game(outcome, taps, affinity)
  PROVE  CoreStays(s')
<1> DEFINE active == CoreActive[Core!Chosen(taps, CoreTaps)]
           closed == Core!MDFNI_CloseGame([s EXCEPT !.active = active, !.told = FALSE])
           loaded == Core!SetInputs([Core!Loading(closed, "game") EXCEPT !.cgi = "game"], closed.active)
<1>1. s \in CoreState /\ s.cgi = "none" /\ AffinityKept(s)
  BY DEF CoreStays, Core!retro_load_game, Core!NoGame
<1>2. active \in 0 .. 3
  <2>1. CoreTaps[1] \in DOMAIN CoreActive BY DEF CoreAssumption
  <2>2. Core!Chosen(taps, CoreTaps) \in DOMAIN CoreActive BY <2>1 DEF Core!Chosen
  <2> QED BY <2>2 DEF CoreAssumption
<1>3. s' = IF outcome = "unknown" THEN closed
           ELSE IF outcome = "refused" THEN [closed EXCEPT !.mgi = "game"]
           ELSE IF affinity = 0 THEN loaded
           ELSE [loaded EXCEPT !.save = loaded.affinity, !.affinity = affinity, !.asked = affinity]
  <2>1. closed \in CoreState BY Zenon, <1>1, <1>2, Closed DEF OwnedStates
  <2>2. s' = CASE outcome = "unknown" -> closed
               [] outcome = "refused" -> [closed EXCEPT !.mgi = "game"]
               [] OTHER -> IF affinity = 0 THEN loaded
                           ELSE [loaded EXCEPT !.save = loaded.affinity, !.affinity = affinity, !.asked = affinity]
    BY DEF Core!retro_load_game
  <2> HIDE DEF closed, loaded
  <2> QED BY <2>2
<1> HIDE DEF active
<1>4. /\ closed \in OwnedStates /\ \A p \in 1 .. 3 : ~closed.dev[p]
      /\ closed.live = {} /\ \A p \in 1 .. 3 : closed.data[p] = 0
      /\ closed.active = active /\ ~closed.told
      /\ \A f \in {"init", "cgi", "affinity", "save", "asked", "cheats", "changed", "threw"} : closed[f] = s[f]
  BY ZenonT(30), <1>1, <1>2, Closed
<1> HIDE DEF closed
<1>5. /\ closed.cgi = "none" /\ closed.affinity = CoreOwn /\ closed.save = 0 /\ closed.asked = 0
      /\ closed \in CoreState /\ Owned(closed)
  <2>1. closed.cgi = s.cgi /\ closed.affinity = s.affinity /\ closed.save = s.save /\ closed.asked = s.asked
    BY <1>4
  <2>2. s.affinity = CoreOwn /\ s.save = 0 /\ s.asked = 0 BY <1>1 DEF AffinityKept
  <2> QED BY <1>1, <1>4, <2>1, <2>2 DEF OwnedStates
<1>6. CASE outcome = "unknown"
  <2>1. s' = closed BY <1>3, <1>6
  <2>2. CoreStays(closed) BY <1>4, <1>5 DEF CoreStays, PortsKept, AffinityKept, InForce, Owned
  <2> QED BY <2>1, <2>2
<1>7. CASE outcome # "unknown" /\ outcome = "refused"
  <2> DEFINE q == [closed EXCEPT !.mgi = "game"]
  <2>1. s' = q BY <1>3, <1>7
  <2>2. /\ q \in CoreState /\ q.cgi = "none" /\ q.affinity = CoreOwn /\ q.save = 0 /\ q.asked = 0
        /\ q.live = closed.live /\ q.data = closed.data
    BY Zenon, <1>5 DEF CoreState
  <2> HIDE DEF q
  <2>3. CoreStays(q) BY <2>2, <1>4, <1>5 DEF CoreStays, PortsKept, AffinityKept, InForce, Owned
  <2> QED BY <2>1, <2>3
<1>8. CASE outcome # "unknown" /\ outcome # "refused"
  <2>1. /\ loaded \in OwnedStates /\ GivenTo(loaded, loaded.active) /\ loaded.cgi = "game"
        /\ \A f \in CallFields \ {"mgi", "cgi"} : loaded[f] = closed[f]
    BY <1>4, Loaded
  <2> HIDE DEF loaded
  <2>2. ~loaded.told /\ loaded.affinity = CoreOwn /\ loaded.save = 0 /\ loaded.asked = 0
    BY <2>1, <1>4, <1>5 DEF CallFields
  <2>3. loaded \in CoreState /\ Owned(loaded) BY <2>1 DEF OwnedStates
  <2>4. CASE affinity = 0
    <3>1. s' = loaded BY <1>3, <1>8, <2>4
    <3>2. CoreStays(loaded) BY <2>1, <2>2, <2>3 DEF CoreStays, PortsKept, AffinityKept, InForce, Owned
    <3> QED BY <3>1, <3>2
  <2>5. CASE affinity # 0
    <3> DEFINE q == [loaded EXCEPT !.save = loaded.affinity, !.affinity = affinity, !.asked = affinity]
    <3>1. s' = q BY <1>3, <1>8, <2>5
    <3>2. /\ affinity \in CoreAffinities \cup {CoreOwn} /\ affinity \in CoreAffinities \cup {0}
          /\ loaded.affinity \in CoreAffinities \cup {CoreOwn, 0}
      BY <2>2
    <3>3. q \in CoreState BY Zenon, <2>3, <3>2 DEF CoreState
    <3>4. /\ q.cgi = loaded.cgi /\ q.affinity = affinity /\ q.save = CoreOwn /\ q.asked = affinity
          /\ q.live = loaded.live /\ q.data = loaded.data /\ q.told = loaded.told
          /\ q.active = loaded.active /\ q.given = loaded.given /\ q.port_data = loaded.port_data
      BY Zenon, <2>2, <2>3 DEF CoreState
    <3> HIDE DEF q
    <3>5. CoreStays(q) BY <2>1, <2>2, <2>3, <2>5, <3>3, <3>4
            DEF CoreStays, PortsKept, AffinityKept, InForce, Owned, GivenTo
    <3> QED BY <3>1, <3>5
  <2> QED BY <2>4, <2>5
<1> QED BY <1>6, <1>7, <1>8
\* What a call that leaves the ports and the affinity alone keeps.
LEMMA PartsKept ==
  ASSUME NEW r \in CoreState, NEW q \in CoreState, PortsKept(r), AffinityKept(r),
         q.live = r.live, q.data = r.data, q.given = r.given, q.port_data = r.port_data, q.active = r.active,
         q.cgi = r.cgi, q.affinity = r.affinity, q.save = r.save, q.asked = r.asked
  PROVE  PortsKept(q) /\ AffinityKept(q)
BY DEF PortsKept, AffinityKept, GivenTo

LEMMA GameUnloaded ==
  ASSUME CoreAssumption, CoreStays(s), Core!retro_unload_game
  PROVE  CoreStays(s')
<1> DEFINE no == [p \in 1 .. 3 |-> 0]
           gone == [Core!MDFNI_CloseGame(s) EXCEPT !.cgi = "none"]
           left == IF s.cgi = "none" THEN s ELSE gone
           affinity == IF left.save = 0 THEN left.affinity ELSE left.save
<1>1. s \in CoreState /\ PortsKept(s) /\ AffinityKept(s) BY DEF CoreStays
<1>2. no \in [1 .. 3 -> 0 .. 4] /\ Core!NoPorts(Core!NoData) = no
  BY DEF Core!NoPorts, Core!NoData, Core!Ports
<1>3. s' = [left EXCEPT !.port_data = no, !.asked = 0, !.affinity = affinity, !.save = 0]
  <2>1. left \in CoreState => \A x : [left EXCEPT !.port_data = no, !.asked = 0, !.affinity = x, !.save = 0]
                                   = [left EXCEPT !.port_data = no, !.asked = 0, !.affinity = x, !.save = 0]
    OBVIOUS
  <2> QED BY <1>2 DEF Core!retro_unload_game, Core!NoGame
<1>4. /\ left \in CoreState /\ left.cgi = "none" /\ left.live = {}
      /\ left.live = {left.data[p] : p \in 1 .. 3} \ {0}
      /\ left.save = s.save /\ left.affinity = s.affinity
  <2>1. CASE s.cgi = "none" BY <2>1, <1>1 DEF PortsKept
  <2>2. CASE s.cgi # "none"
    <3> DEFINE closed == Core!MDFNI_CloseGame(s)
               patches == IF s.mgi = "none" THEN s.patches ELSE {}
               off == [p \in 1 .. 3 |-> FALSE]
    <3>1. closed = [s EXCEPT !.mgi = "none", !.patches = patches, !.live = {}, !.data = no, !.dev = off]
      BY Zenon, <1>1, <1>2 DEF Core!MDFNI_CloseGame, Core!NoGame, Core!NoPorts, Core!Ports, CoreState
    <3>2. patches \in SUBSET CheatPatches /\ off \in [1 .. 3 -> BOOLEAN]
      <4>1. s.patches \in SUBSET CheatPatches /\ {} \in SUBSET CheatPatches BY Zenon, <1>1 DEF CoreState
      <4> QED BY <4>1
    <3>3. {no[p] : p \in 1 .. 3} \ {0} = {} OBVIOUS
    <3> HIDE DEF closed, patches, off, no
    <3>4. closed \in CoreState BY Zenon, <3>1, <3>2, <1>1, <1>2 DEF CoreState
    <3>5. closed.live = {} /\ closed.data = no /\ closed.save = s.save /\ closed.affinity = s.affinity
      BY Zenon, <3>1, <1>1 DEF CoreState
    <3>6. gone = [closed EXCEPT !.cgi = "none"] BY DEF closed
    <3>7. /\ gone \in CoreState /\ gone.cgi = "none" /\ gone.live = {} /\ gone.data = no
          /\ gone.save = s.save /\ gone.affinity = s.affinity
      <4> HIDE DEF gone
      <4> QED BY Zenon, <3>4, <3>5, <3>6 DEF CoreState
    <3> HIDE DEF gone
    <3> QED BY <2>2, <3>3, <3>7
  <2> QED BY <2>1, <2>2
<1> HIDE DEF left, no
<1>5. affinity = CoreOwn BY <1>1, <1>4 DEF AffinityKept, CoreAssumption
<1> HIDE DEF affinity
<1>6. affinity \in CoreAffinities \cup {CoreOwn} /\ 0 \in CoreAffinities \cup {CoreOwn, 0}
      /\ 0 \in CoreAffinities \cup {0}
  BY <1>5
<1>7. s' \in CoreState BY ZenonT(30), <1>2, <1>3, <1>4, <1>6 DEF CoreState
<1>8. /\ s'.cgi = "none" /\ s'.live = {} /\ s'.data = left.data /\ s'.asked = 0 /\ s'.affinity = affinity /\ s'.save = 0
  BY Zenon, <1>3, <1>4 DEF CoreState
<1> QED BY ZenonT(30), <1>4, <1>5, <1>7, <1>8 DEF CoreStays, PortsKept, AffinityKept, InForce

LEMMA SeqParts ==
  ASSUME NEW S, NEW q \in Seq(S)
  PROVE  DOMAIN q = 1 .. Len(q) /\ Len(q) \in Nat /\ \A i \in 1 .. Len(q) : q[i] \in S
OBVIOUS

LEMMA SeqMade ==
  ASSUME NEW S, NEW n \in Nat, NEW q \in [1 .. n -> S]
  PROVE  q \in Seq(S)
OBVIOUS

LEMMA CheatsSet ==
  ASSUME CoreAssumption, CoreStays(s), NEW slot \in 1 .. CoreSlots, NEW code \in CoreCodes,
         Core!retro_cheat_set(slot, code)
  PROVE  CoreStays(s')
<1> DEFINE n == IF slot > Len(s.cheats) THEN slot ELSE Len(s.cheats)
           cheats == [i \in 1 .. n |-> IF i = slot THEN code ELSE IF i <= Len(s.cheats) THEN s.cheats[i] ELSE ""]
           told == s.cgi # "none"
<1>1. s \in CoreState /\ PortsKept(s) /\ AffinityKept(s) BY DEF CoreStays
<1>2. s.cheats \in Seq(CoreCodes \cup {""}) BY Zenon, <1>1 DEF CoreState
<1>3. s' = [s EXCEPT !.changed = TRUE, !.told = told, !.threw = FALSE, !.cheats = cheats]
  BY Zenon, <1>1 DEF Core!retro_cheat_set, Core!NoGame, Core!Off, CoreState
<1>4. cheats \in Seq(CoreCodes \cup {""})
  <2> DEFINE S == CoreCodes \cup {""}
             was == s.cheats
  <2>1. Len(was) \in Nat /\ \A i \in 1 .. Len(was) : was[i] \in S BY Zenon, <1>2, SeqParts
  <2>2. code \in S /\ "" \in S BY Zenon
  <2> HIDE DEF S, was
  <2>3. slot \in Nat BY DEF CoreAssumption
  <2>4. n = IF slot > Len(was) THEN slot ELSE Len(was) BY DEF was
  <2>5. cheats = [i \in 1 .. n |-> IF i = slot THEN code ELSE IF i <= Len(was) THEN was[i] ELSE ""]
    BY DEF was
  <2> HIDE DEF n, cheats
  <2>6. n \in Nat BY <2>1, <2>3, <2>4
  <2>7. ASSUME NEW i \in 1 .. n
        PROVE  (IF i = slot THEN code ELSE IF i <= Len(was) THEN was[i] ELSE "") \in S
    <3>1. CASE i = slot BY Zenon, <3>1, <2>2
    <3>2. CASE i # slot /\ i <= Len(was)
      <4>1. i \in 1 .. Len(was) BY <3>2, <2>1, <2>6
      <4> QED BY <3>2, <4>1, <2>1
    <3>3. CASE i # slot /\ ~(i <= Len(was)) BY Zenon, <3>3, <2>2
    <3> QED BY Zenon, <3>1, <3>2, <3>3
  <2>8. cheats \in [1 .. n -> S] BY Zenon, <2>5, <2>7
  <2>9. cheats \in Seq(S) BY <2>6, <2>8, SeqMade
  <2> QED BY Zenon, <2>9 DEF S
<1>5. told \in BOOLEAN OBVIOUS
<1> HIDE DEF cheats, told
<1>6. s' \in CoreState BY Zenon, <1>1, <1>3, <1>4, <1>5 DEF CoreState
<1>7. /\ s'.live = s.live /\ s'.data = s.data /\ s'.given = s.given /\ s'.port_data = s.port_data
      /\ s'.active = s.active /\ s'.cgi = s.cgi /\ s'.affinity = s.affinity /\ s'.save = s.save /\ s'.asked = s.asked
      /\ s'.changed /\ ~s'.threw
  BY Zenon, <1>1, <1>3 DEF CoreState
<1>8. PortsKept(s') /\ AffinityKept(s') BY <1>1, <1>6, <1>7, PartsKept
<1> QED BY <1>6, <1>7, <1>8 DEF CoreStays, InForce

LEMMA CheatsReset ==
  ASSUME CoreAssumption, CoreStays(s), Core!retro_cheat_reset
  PROVE  CoreStays(s')
<1> DEFINE told == s.cgi # "none"
<1>1. s \in CoreState /\ PortsKept(s) /\ AffinityKept(s) BY DEF CoreStays
<1>3. s' = [s EXCEPT !.cheats = <<>>, !.changed = TRUE, !.told = told, !.threw = FALSE]
  BY <1>1 DEF Core!retro_cheat_reset, Core!NoGame
<1>5. told \in BOOLEAN /\ <<>> \in Seq(CoreCodes \cup {""}) OBVIOUS
<1> HIDE DEF told
<1>6. s' \in CoreState BY Zenon, <1>1, <1>3, <1>5 DEF CoreState
<1>7. /\ s'.live = s.live /\ s'.data = s.data /\ s'.given = s.given /\ s'.port_data = s.port_data
      /\ s'.active = s.active /\ s'.cgi = s.cgi /\ s'.affinity = s.affinity /\ s'.save = s.save /\ s'.asked = s.asked
      /\ s'.changed /\ ~s'.threw
  BY Zenon, <1>1, <1>3 DEF CoreState
<1>8. PortsKept(s') /\ AffinityKept(s') BY <1>1, <1>6, <1>7, PartsKept
<1> QED BY <1>6, <1>7, <1>8 DEF CoreStays, InForce

LEMMA FrameRun ==
  ASSUME CoreAssumption, CoreStays(s), Core!retro_run
  PROVE  CoreStays(s')
<1> DEFINE r == Core!AddCheats(s.cheats)
<1>1. s \in CoreState /\ PortsKept(s) /\ AffinityKept(s) /\ s.cheats \in Seq(CoreCodes \cup {""})
  BY Zenon DEF CoreStays, CoreState
<1>2. s' = [s EXCEPT !.patches = r.patches, !.threw = r.threw, !.changed = r.threw, !.told = TRUE]
  BY DEF Core!retro_run
<1>3. r \in Adds /\ AddedUpTo(s.cheats, r, Len(s.cheats)) BY Zenon, <1>1, CheatsAdded
<1> HIDE DEF r
<1>4. r.patches \in SUBSET CheatPatches /\ r.threw \in BOOLEAN BY <1>3 DEF Adds
<1>5. s' \in CoreState BY Zenon, <1>1, <1>2, <1>4 DEF CoreState
<1>6. /\ s'.live = s.live /\ s'.data = s.data /\ s'.given = s.given /\ s'.port_data = s.port_data
      /\ s'.active = s.active /\ s'.cgi = s.cgi /\ s'.affinity = s.affinity /\ s'.save = s.save /\ s'.asked = s.asked
      /\ s'.cheats = s.cheats /\ s'.patches = r.patches /\ s'.threw = r.threw /\ s'.changed = r.threw
  BY Zenon, <1>1, <1>2 DEF CoreState
<1>7. PortsKept(s') /\ AffinityKept(s') BY Zenon, <1>1, <1>5, <1>6, PartsKept
<1>8. AddedUpTo(s'.cheats, s', Len(s'.cheats)) BY <1>3, <1>6 DEF AddedUpTo
<1>9. DOMAIN s'.cheats = 1 .. Len(s.cheats)
  <2>1. DOMAIN s.cheats = 1 .. Len(s.cheats) BY Zenon, <1>1, SeqParts
  <2> QED BY <2>1, <1>6
<1>10. InForce(s')
  <2>1. ASSUME s'.threw PROVE \E i \in DOMAIN s'.cheats : Core!Throws(s'.cheats[i])
    BY <2>1, <1>6, <1>8, <1>9 DEF AddedUpTo
  <2>2. ASSUME ~s'.threw PROVE \A i \in DOMAIN s'.cheats : ~Core!Throws(s'.cheats[i])
    BY <2>2, <1>6, <1>8, <1>9 DEF AddedUpTo
  <2> QED BY <1>4, <1>6, <1>8, <2>1, <2>2 DEF InForce
<1> QED BY <1>5, <1>7, <1>10 DEF CoreStays

LEMMA Initialized ==
  ASSUME CoreStays(s), Core!retro_init
  PROVE  CoreStays(s')
<1>1. s \in CoreState /\ PortsKept(s) /\ AffinityKept(s) /\ InForce(s) BY DEF CoreStays
<1>2. s' = [s EXCEPT !.init = 1] BY DEF Core!retro_init
<1>3. s' \in CoreState BY Zenon, <1>1, <1>2 DEF CoreState
<1>4. /\ s'.live = s.live /\ s'.data = s.data /\ s'.given = s.given /\ s'.port_data = s.port_data
      /\ s'.active = s.active /\ s'.cgi = s.cgi /\ s'.affinity = s.affinity /\ s'.save = s.save /\ s'.asked = s.asked
      /\ s'.cheats = s.cheats /\ s'.patches = s.patches /\ s'.threw = s.threw /\ s'.changed = s.changed
      /\ s'.told = s.told
  BY Zenon, <1>1, <1>2 DEF CoreState
<1>5. PortsKept(s') /\ AffinityKept(s') BY <1>1, <1>3, <1>4, PartsKept
<1>6. InForce(s') BY <1>1, <1>4 DEF InForce, AddedUpTo
<1> QED BY <1>3, <1>5, <1>6 DEF CoreStays

LEMMA CoreNext ==
  ASSUME CoreAssumption, CoreStays(s), Core!Next
  PROVE  CoreStays(s')
BY GameLoaded, GameUnloaded, CheatsSet, CheatsReset, FrameRun, Initialized DEF Core!Next

LEMMA CoreStarts ==
  ASSUME Core!Init
  PROVE  CoreStays(s)
<1> DEFINE no == [p \in 1 .. 3 |-> 0]
           off == [p \in 1 .. 3 |-> FALSE]
<1>1. s = [init |-> 0, mgi |-> "none", cgi |-> "none", active |-> 0,
           data |-> no, dev |-> off, port_data |-> no, given |-> no, live |-> {},
           affinity |-> CoreOwn, save |-> 0, asked |-> 0,
           cheats |-> <<>>, changed |-> FALSE, patches |-> {}, told |-> FALSE, threw |-> FALSE]
  BY DEF Core!Init, Core!PowerOn, Core!NoGame, Core!NoPorts, Core!Ports, Core!NoData
<1>2. /\ no \in [1 .. 3 -> 0 .. 4] /\ off \in [1 .. 3 -> BOOLEAN] /\ {} \in SUBSET (1 .. 4)
      /\ {} \in SUBSET CheatPatches /\ <<>> \in Seq(CoreCodes \cup {""}) /\ 0 \in 0 .. 3 /\ 0 \in {0, 1}
      /\ "none" \in {"none", "game"} /\ CoreOwn \in CoreAffinities \cup {CoreOwn}
      /\ 0 \in CoreAffinities \cup {CoreOwn, 0} /\ 0 \in CoreAffinities \cup {0} /\ FALSE \in BOOLEAN
  OBVIOUS
<1>3. {no[p] : p \in 1 .. 3} \ {0} = {} OBVIOUS
<1> HIDE DEF no, off
<1>4. s \in CoreState BY <1>1, <1>2, Zenon DEF CoreState
<1>5. s.cgi = "none" /\ s.live = {} /\ s.data = no /\ s.affinity = CoreOwn /\ s.save = 0 /\ s.asked = 0 BY <1>1
<1> QED BY <1>3, <1>4, <1>5 DEF CoreStays, PortsKept, AffinityKept, InForce

LEMMA CoreSound ==
  ASSUME CoreStays(s)
  PROVE  Core!CallsSound
<1>1. s \in CoreState /\ PortsKept(s) /\ AffinityKept(s) /\ InForce(s) BY DEF CoreStays
<1>2. Core!PortsLive
  <2>1. s.active \in 0 .. 3 BY Zenon, <1>1 DEF CoreState
  <2>2. \A p \in 1 .. s.active : p \in 1 .. 3 BY <2>1
  <2>3. s.live = {s.data[p] : p \in 1 .. 3} \ {0} BY <1>1 DEF PortsKept
  <2>4. ASSUME s.cgi # "none", NEW p \in 1 .. s.active
        PROVE  s.data[p] \in s.live /\ s.port_data[p] = s.data[p] /\ s.given[p] = s.data[p]
    BY <2>2, <2>3, <2>4, <1>1 DEF PortsKept, GivenTo
  <2> QED BY <2>3, <2>4, <1>1 DEF Core!PortsLive, Core!NoGame, Core!Ports, Core!NoData, PortsKept
<1>3. Core!AffinityRestored BY <1>1 DEF Core!AffinityRestored, Core!NoGame, AffinityKept
<1>4. Core!CheatsInForce
  <2> DEFINE cheats == s.cheats
  <2>1. DOMAIN cheats = 1 .. Len(cheats)
    <3>1. cheats \in Seq(CoreCodes \cup {""}) BY Zenon, <1>1 DEF CoreState
    <3> QED BY Zenon, <3>1, SeqParts
  <2>2. ASSUME ~s.threw, AddedUpTo(cheats, s, Len(cheats))
        PROVE  /\ \A q \in s.patches : Core!LastFor(q.addr, q.value)
               /\ \A i \in DOMAIN cheats : \E q \in s.patches : q.addr = Core!Patch(cheats[i]).addr
               /\ \A i \in DOMAIN cheats : \A k \in 0 .. 23 :
                    Core!Patch(cheats[i]).addr[k] = Core!Unscrambled(CoreGood[cheats[i]], k)
    <3> HIDE DEF cheats
    <3>1. ASSUME NEW q \in s.patches PROVE Core!LastFor(q.addr, q.value)
      <4>1. PICK j \in 1 .. Len(cheats) : Core!Patch(cheats[j]) = q
                                        /\ \A l \in j + 1 .. Len(cheats) : Core!Patch(cheats[l]).addr # q.addr
        BY <2>2 DEF AddedUpTo
      <4>2. q = [addr |-> q.addr, value |-> q.value] BY Zenon, <4>1 DEF Core!Patch, Core!DecodeGG
      <4>3. ~Core!Throws(cheats[j]) BY <2>2 DEF AddedUpTo
      <4> QED BY <2>1, <4>1, <4>2, <4>3 DEF Core!LastFor, cheats
    <3>2. \A i \in DOMAIN cheats : \E q \in s.patches : q.addr = Core!Patch(cheats[i]).addr
      BY <2>1, <2>2 DEF AddedUpTo
    <3>3. ASSUME NEW i \in DOMAIN cheats, NEW k \in 0 .. 23
          PROVE  Core!Patch(cheats[i]).addr[k] = Core!Unscrambled(CoreGood[cheats[i]], k)
      <4>1. ~Core!Throws(cheats[i]) BY <2>1, <2>2 DEF AddedUpTo
      <4> QED BY <4>1, BitsInPlace DEF Core!Throws
    <3> QED BY <3>1, <3>2, <3>3
  <2> QED BY <2>2, <1>1 DEF Core!CheatsInForce, InForce, Core!NoGame
<1> QED BY <1>2, <1>3, <1>4 DEF Core!CallsSound

----------------------------------------------------------------------------
(* The bus.                                                                *)

\* What an address may be given: of the A bus any read with any write, as one of
\* the two may be left as it is.
OfA == {<<r, w>> : r \in BusReads \ {"null"}, w \in BusWrites \ {"null"}}
OfB == BusBPairs \cup {Board!Open}
BusPairs == OfA \cup OfB

ReadPatches == [address : BusA, value : BusValues, compare : BusValues \cup {-1}, prev : 1 .. 254]
CheatsKept == Int \X Int
AccessKinds == {"none", "reset", "address", "write", "read", "multiply", "set", "divide"}
LastAccess == AccessKinds \X Nat
BusState ==
  [pairs : Seq(BusPairs), forA : Seq(BusPairs), rw : [BusA -> 1 .. 255], want : [BusA -> BusPairs],
   patches : SUBSET ReadPatches, cheats : [BusA -> CheatsKept], sets : 0 .. BusSets,
   wram : [0 .. BusRam - 1 -> Nat], at : 0 .. BusRam - 1, calls : Nat,
   multiplicand : Nat, product : Nat, dividend : Nat, quotient : Nat, last : LastAccess]

\* What an address may want; p is in the DMA controller's table as x.
Fitting(want) == \A a \in BusA : want[a] \in IF a \in BusB THEN OfB ELSE OfA
Beside(p, x) == x = IF p \in BusBPairs THEN Board!Open ELSE p
Placed(r, p, x, i, pairs, forA) ==
  /\ i = Board!IndexOf(r.pairs, p) /\ pairs = Board!PutAt(r.pairs, i, p) /\ forA = Board!PutAt(r.forA, i, x)
Indexed(rw, old, X, i) == rw = [a \in BusA |-> IF a \in X THEN i ELSE old[a]]
Changed(want, old, X, p) == \A a \in BusA : want[a] = IF a \in X THEN p ELSE old[a]

\* The tables are filled from the beginning, the DMA controller's beside.
Filled(r) ==
  /\ Len(r.forA) = Len(r.pairs) /\ Len(r.pairs) <= r.sets + 1
  /\ \A i \in 1 .. Len(r.pairs) : r.forA[i] = IF r.pairs[i] \in BusBPairs THEN Board!Open ELSE r.pairs[i]
  /\ Fitting(r.want)

\* An index leads to what its address was given.
Leads(r, i, a) == i \in 1 .. Len(r.pairs) /\ r.pairs[i] = r.want[a]

\* A patch keeps the index of its address, and an address that has none keeps its own.
Patched(r) ==
  /\ \A p, q \in r.patches : p.address = q.address => p = q
  /\ \A p \in r.patches : /\ r.rw[p.address] = 255 /\ Leads(r, p.prev, p.address)
                          /\ r.cheats[p.address] = <<p.value, p.compare>>
  /\ \A a \in BusA : (\A p \in r.patches : p.address # a) => Leads(r, r.rw[a], a) /\ r.cheats[a] = <<-1, -1>>

\* What the chips' last access left.
Computed(r) ==
  /\ r.last[1] = "multiply" => r.product = r.multiplicand * r.last[2]
  /\ (r.last[1] = "divide" /\ r.last[2] > 0) =>
       (r.quotient * r.last[2]) + r.product = r.dividend /\ r.product < r.last[2]
  /\ r.last[1] = "write" => r.wram[(r.at + BusRam - 1) % BusRam] = r.last[2]

BusGood(r) == r \in BusState /\ Filled(r) /\ Patched(r) /\ Computed(r)

LEMMA IndexIs ==
  ASSUME NEW P, NEW pairs \in Seq(P), NEW p
  PROVE  /\ Board!IndexOf(pairs, p) \in 1 .. Len(pairs) + 1
         /\ Board!IndexOf(pairs, p) <= Len(pairs) => pairs[Board!IndexOf(pairs, p)] = p
<1>1. DOMAIN pairs = 1 .. Len(pairs) /\ Len(pairs) \in Nat OBVIOUS
<1>2. CASE \E i \in DOMAIN pairs : pairs[i] = p
  <2> DEFINE First(i) == i \in DOMAIN pairs /\ pairs[i] = p /\ \A j \in 1 .. i - 1 : pairs[j] # p
             Before == {n \in Nat : \A i \in 1 .. n : i \in DOMAIN pairs => pairs[i] # p}
  <2>1. \E i \in DOMAIN pairs : First(i)
    <3>1. SUFFICES ASSUME \A i \in DOMAIN pairs : ~First(i) PROVE FALSE OBVIOUS
    <3>2. 0 \in Before OBVIOUS
    <3>3. ASSUME NEW n \in Before PROVE n + 1 \in Before
      <4>1. n \in Nat /\ \A i \in 1 .. n : i \in DOMAIN pairs => pairs[i] # p BY <3>3
      <4>2. \A i \in 1 .. n + 1 : i \in 1 .. n \/ i = n + 1 BY <4>1
      <4>3. n + 1 \in DOMAIN pairs => pairs[n + 1] # p
        <5>1. ASSUME n + 1 \in DOMAIN pairs, pairs[n + 1] = p PROVE FALSE
          <6>1. \A j \in 1 .. (n + 1) - 1 : j \in 1 .. n /\ j \in DOMAIN pairs BY <5>1, <4>1, <1>1
          <6>2. First(n + 1) BY <5>1, <6>1, <4>1
          <6> QED BY <6>2, <3>1, <5>1
        <5> QED BY <5>1
      <4>4. \A i \in 1 .. n + 1 : i \in DOMAIN pairs => pairs[i] # p BY <4>1, <4>2, <4>3
      <4> QED BY <4>1, <4>4
    <3>4. Before \subseteq Nat OBVIOUS
    <3>5. Nat \subseteq Before
      <4> HIDE DEF Before
      <4> QED BY <3>2, <3>3, <3>4, NatSet
    <3>6. PICK i \in DOMAIN pairs : pairs[i] = p BY <1>2
    <3>7. i \in Nat /\ i \in 1 .. i BY <1>1
    <3> QED BY <3>5, <3>6, <3>7
  <2>2. Board!IndexOf(pairs, p) = CHOOSE i \in DOMAIN pairs : pairs[i] = p /\ \A j \in 1 .. i - 1 : pairs[j] # p
    BY <1>2 DEF Board!IndexOf
  <2>3. Board!IndexOf(pairs, p) \in DOMAIN pairs /\ pairs[Board!IndexOf(pairs, p)] = p BY <2>1, <2>2
  <2> QED BY <2>3, <1>1
<1>3. CASE ~(\E i \in DOMAIN pairs : pairs[i] = p)
  <2>1. Board!IndexOf(pairs, p) = Len(pairs) + 1 BY <1>3 DEF Board!IndexOf
  <2> QED BY <2>1, <1>1
<1> QED BY <1>2, <1>3

Put(P, seq, i, x, q) ==
  /\ q \in Seq(P)
  /\ Len(q) = IF i > Len(seq) THEN Len(seq) + 1 ELSE Len(seq)
  /\ q[i] = x
  /\ \A j \in 1 .. Len(seq) : j # i => q[j] = seq[j]

LEMMA PutThere ==
  ASSUME NEW P, NEW seq \in Seq(P), NEW i \in 1 .. Len(seq) + 1, NEW x \in P
  PROVE  Put(P, seq, i, x, Board!PutAt(seq, i, x))
<1>1. CASE i > Len(seq)
  <2>1. Board!PutAt(seq, i, x) = Append(seq, x) /\ i = Len(seq) + 1 BY <1>1 DEF Board!PutAt
  <2> QED BY <2>1, <1>1 DEF Put
<1>2. CASE ~(i > Len(seq))
  <2>1. Board!PutAt(seq, i, x) = [seq EXCEPT ![i] = x] /\ i \in 1 .. Len(seq) BY <1>2 DEF Board!PutAt
  <2> QED BY <2>1, <1>2 DEF Put
<1> QED BY <1>1, <1>2

LEMMA TablesTyped ==
  ASSUME NEW r \in BusState, NEW pairs \in Seq(BusPairs), NEW forA \in Seq(BusPairs), NEW rw \in [BusA -> 1 .. 255],
         NEW want \in [BusA -> BusPairs], NEW sets \in 0 .. BusSets
  PROVE  [r EXCEPT !.pairs = pairs, !.forA = forA, !.rw = rw, !.want = want, !.sets = sets] \in BusState
BY DEF BusState

\* The tables with p at i.
Extended(r, p, i, pairs, forA) ==
  /\ i \in 1 .. 254 /\ pairs \in Seq(BusPairs) /\ forA \in Seq(BusPairs)
  /\ Len(forA) = Len(pairs) /\ Len(pairs) <= r.sets + 2 /\ i \in 1 .. Len(pairs) /\ pairs[i] = p
  /\ Len(r.pairs) <= Len(pairs)
  /\ \A j \in 1 .. Len(r.pairs) : pairs[j] = r.pairs[j]
  /\ \A j \in 1 .. Len(pairs) : forA[j] = IF pairs[j] \in BusBPairs THEN Board!Open ELSE pairs[j]

\* A pair is put where it is already, or at the end.
LEMMA PairPut ==
  ASSUME NEW r, BusGood(r), r.sets < BusSets, NEW p \in BusPairs, NEW x \in BusPairs, BusAssumption,
         Beside(p, x), NEW i, NEW pairs, NEW forA, Placed(r, p, x, i, pairs, forA)
  PROVE  Extended(r, p, i, pairs, forA)
<1> DEFINE old == r.pairs
           oldA == r.forA
<1>1. /\ old \in Seq(BusPairs) /\ oldA \in Seq(BusPairs) /\ r.sets \in 0 .. BusSets
      /\ Len(oldA) = Len(old) /\ Len(old) <= r.sets + 1
      /\ \A j \in 1 .. Len(old) : oldA[j] = IF old[j] \in BusBPairs THEN Board!Open ELSE old[j]
  BY DEF BusGood, BusState, Filled
<1>2. BusSets \in 0 .. 253 BY DEF BusAssumption
<1>3. i \in 1 .. Len(old) + 1 /\ (i <= Len(old) => old[i] = p) BY <1>1, IndexIs DEF Placed
<1> HIDE DEF old, oldA
<1>4. /\ pairs \in Seq(BusPairs) /\ Len(pairs) = (IF i > Len(old) THEN Len(old) + 1 ELSE Len(old))
      /\ pairs[i] = p /\ \A j \in 1 .. Len(old) : j # i => pairs[j] = old[j]
  <2>1. old \in Seq(BusPairs) /\ i \in 1 .. Len(old) + 1 /\ p \in BusPairs /\ pairs = Board!PutAt(old, i, p)
    BY <1>1, <1>3 DEF old, Placed
  <2>2. Put(BusPairs, old, i, p, Board!PutAt(old, i, p)) BY <2>1, PutThere, Zenon
  <2>3. Put(BusPairs, old, i, p, pairs) BY <2>1, <2>2, Zenon
  <2> QED BY <2>3, Zenon DEF Put
<1>5. /\ forA \in Seq(BusPairs) /\ Len(forA) = (IF i > Len(oldA) THEN Len(oldA) + 1 ELSE Len(oldA))
      /\ forA[i] = x /\ \A j \in 1 .. Len(oldA) : j # i => forA[j] = oldA[j]
  <2>1. oldA \in Seq(BusPairs) /\ i \in 1 .. Len(oldA) + 1 /\ x \in BusPairs /\ forA = Board!PutAt(oldA, i, x)
    BY <1>1, <1>3 DEF oldA, Placed
  <2>2. Put(BusPairs, oldA, i, x, Board!PutAt(oldA, i, x)) BY <2>1, PutThere, Zenon
  <2>3. Put(BusPairs, oldA, i, x, forA) BY <2>1, <2>2, Zenon
  <2> QED BY <2>3, Zenon DEF Put
<1>6. Len(old) \in Nat /\ r.sets \in Nat BY <1>1, <1>2
<1>7. i \in 1 .. 254
  <2>0. r.sets \in 0 .. BusSets BY <1>1
  <2>1. Len(old) <= r.sets + 1 /\ i \in 1 .. Len(old) + 1 BY <1>1, <1>3
  <2>2. r.sets + 1 <= 253 BY <2>0, <1>2
  <2>3. Len(old) <= 253 BY <2>1, <2>2, <1>6
  <2>4. i \in 1 .. Len(old) + 1 BY <1>3
  <2>5. \A j, n \in Nat : j \in 1 .. n + 1 /\ n <= 253 => j \in 1 .. 254 OBVIOUS
  <2>6. i \in Nat BY <2>4, <1>6
  <2> QED BY <2>3, <2>4, <2>5, <2>6, <1>6, Zenon
<1>8. Len(forA) = Len(pairs) /\ Len(pairs) <= r.sets + 2 /\ Len(old) <= Len(pairs) BY <1>1, <1>4, <1>5, <1>6
<1>9. i \in 1 .. Len(pairs) BY <1>3, <1>4, <1>6
<1>10. \A j \in 1 .. Len(old) : pairs[j] = old[j] BY <1>3, <1>4, <1>6
<1>11. ASSUME NEW j \in 1 .. Len(pairs)
       PROVE  forA[j] = IF pairs[j] \in BusBPairs THEN Board!Open ELSE pairs[j]
  <2>1. CASE j = i BY <2>1, <1>4, <1>5 DEF Beside
  <2>2. CASE j # i
    <3>1. j \in 1 .. Len(old) BY <2>2, <1>3, <1>4, <1>6
    <3> QED BY <3>1, <2>2, <1>1, <1>4, <1>5
  <2> QED BY <2>1, <2>2
<1> QED BY <1>4, <1>5, <1>7, <1>8, <1>9, <1>10, <1>11 DEF old, oldA, Extended
\* The addresses of X are given p.
LEMMA Handled ==
  ASSUME BusAssumption, NEW r, BusGood(r), r.patches = {}, r.sets < BusSets,
         NEW p \in BusPairs, NEW x \in BusPairs, Beside(p, x),
         NEW i, NEW pairs, NEW forA, Placed(r, p, x, i, pairs, forA),
         NEW X, NEW want \in [BusA -> BusPairs], Changed(want, r.want, X, p), Fitting(want),
         NEW rw, Indexed(rw, r.rw, X, i)
  PROVE  BusGood([r EXCEPT !.pairs = pairs, !.forA = forA, !.rw = rw, !.want = want, !.sets = r.sets + 1])
<1> DEFINE sets == r.sets + 1
           q == [r EXCEPT !.pairs = pairs, !.forA = forA, !.rw = rw, !.want = want, !.sets = sets]
<1>1. /\ i \in 1 .. 254 /\ pairs \in Seq(BusPairs) /\ forA \in Seq(BusPairs)
      /\ Len(forA) = Len(pairs) /\ Len(pairs) <= r.sets + 2 /\ i \in 1 .. Len(pairs) /\ pairs[i] = p
      /\ Len(r.pairs) <= Len(pairs)
      /\ \A j \in 1 .. Len(r.pairs) : pairs[j] = r.pairs[j]
      /\ \A j \in 1 .. Len(pairs) : forA[j] = IF pairs[j] \in BusBPairs THEN Board!Open ELSE pairs[j]
  <2>1. Extended(r, p, i, pairs, forA) BY PairPut, Zenon
  <2> QED BY <2>1 DEF Extended
<1>2. r \in BusState /\ Filled(r) /\ Patched(r) /\ Computed(r) BY DEF BusGood
<1>3. r.sets \in 0 .. BusSets /\ r.rw \in [BusA -> 1 .. 255] BY <1>2 DEF BusState
<1>4. sets \in 0 .. BusSets /\ sets = r.sets + 1 /\ r.sets \in Nat
  <2>1. BusSets \in Nat BY DEF BusAssumption
  <2> QED BY <2>1, <1>3
<1>5. rw \in [BusA -> 1 .. 255] /\ \A a \in BusA : rw[a] = IF a \in X THEN i ELSE r.rw[a]
  <2>1. i \in 1 .. 255 BY <1>1
  <2> QED BY <2>1, <1>3 DEF Indexed
<1> HIDE DEF sets
<1>6. q \in BusState BY <1>1, <1>2, <1>4, <1>5, TablesTyped, Zenon
<1>7. /\ q.pairs = pairs /\ q.forA = forA /\ q.rw = rw /\ q.want = want /\ q.sets = sets
      /\ q.patches = r.patches /\ q.cheats = r.cheats /\ q.last = r.last /\ q.product = r.product
      /\ q.multiplicand = r.multiplicand /\ q.quotient = r.quotient /\ q.dividend = r.dividend
      /\ q.wram = r.wram /\ q.at = r.at
  BY <1>2 DEF BusState
<1> HIDE DEF q
<1>8. Filled(q)
  <2>1. Len(pairs) <= sets + 1 BY <1>1, <1>4
  <2> QED BY <2>1, <1>1, <1>7 DEF Filled
<1>9. Patched(q)
  <2>1. ASSUME NEW a \in BusA PROVE Leads(q, q.rw[a], a) /\ q.cheats[a] = <<-1, -1>>
    <3>1. Leads(r, r.rw[a], a) /\ r.cheats[a] = <<-1, -1>> BY <1>2 DEF Patched
    <3>2. CASE a \in X BY <3>1, <3>2, <1>1, <1>5, <1>7 DEF Leads, Changed
    <3>3. CASE a \notin X
      <4>1. q.rw[a] = r.rw[a] /\ q.want[a] = r.want[a] BY <3>3, <1>5, <1>7 DEF Changed
      <4>2. r.rw[a] \in 1 .. Len(r.pairs) /\ r.pairs[r.rw[a]] = r.want[a] BY <3>1 DEF Leads
      <4>3. r.rw[a] \in 1 .. Len(pairs)
        <5>1. Len(r.pairs) \in Nat /\ Len(pairs) \in Nat BY <1>1, <1>2 DEF BusState
        <5> QED BY <4>2, <5>1, <1>1
      <4>4. pairs[r.rw[a]] = r.pairs[r.rw[a]] BY <4>2, <1>1
      <4> QED BY <3>1, <4>1, <4>2, <4>3, <4>4, <1>7 DEF Leads
    <3> QED BY <3>2, <3>3
  <2> QED BY <2>1, <1>7 DEF Patched
<1>10. Computed(q) BY <1>2, <1>7 DEF Computed
<1>11. BusGood(q) BY <1>6, <1>8, <1>9, <1>10 DEF BusGood
<1> QED BY <1>11 DEF q, sets

LEMMA HandlersSetB ==
  ASSUME BusAssumption, BusGood(s), NEW b \in BusB, NEW h \in BusBPairs, Board!Set_B_Handlers(b, h)
  PROVE  BusGood(s')
<1> DEFINE want == [a \in BusA |-> IF a \in {b} THEN h ELSE s.want[a]]
           i == Board!IndexOf(s.pairs, h)
           rw == [a \in BusA |-> IF a \in {b} THEN i ELSE s.rw[a]]
           pairs == Board!PutAt(s.pairs, i, h)
           forA == Board!PutAt(s.forA, i, Board!Open)
<1>1. s.sets < BusSets /\ s.patches = {} /\ s' = [Board!SetHandlers(s, TRUE, b, b, h) EXCEPT !.sets = @ + 1]
  BY DEF Board!Set_B_Handlers
<1>2. b \in Int /\ b .. b = {b} /\ h = <<h[1], h[2]>> /\ h[1] # "null" /\ h[2] # "null" /\ b \in BusA
  BY DEF BusAssumption
<1>3. s \in BusState /\ Filled(s) BY DEF BusGood
<1>4. s' = [s EXCEPT !.pairs = pairs, !.forA = forA, !.rw = rw, !.want = want, !.sets = s.sets + 1]
  <2>1. [a \in BusA |-> IF a \in {b} THEN <<IF h[1] = Board!Null THEN s.want[a][1] ELSE h[1],
                                              IF h[2] = Board!Null THEN s.want[a][2] ELSE h[2]>>
                        ELSE s.want[a]] = want
    BY <1>2 DEF Board!Null
  <2>2. Board!SetHandlers(s, TRUE, b, b, h) = [s EXCEPT !.pairs = pairs, !.forA = forA, !.rw = rw, !.want = want]
    <3> HIDE DEF want
    <3>1. Board!SetHandlers(s, TRUE, b, b, h) =
            [s EXCEPT !.pairs = Board!PutAt(@, i, h), !.forA = Board!PutAt(@, i, Board!Open),
               !.rw = [a \in BusA |-> IF a \in {b} THEN i ELSE @[a]], !.want = want]
      BY <1>2, <2>1 DEF Board!SetHandlers
    <3> QED BY <3>1, <1>3 DEF BusState
  <2> HIDE DEF want, pairs, forA, rw, i
  <2> QED BY <1>1, <2>2, <1>3 DEF BusState
<1> HIDE DEF want, pairs, forA, rw, i
<1>5. h \in BusPairs /\ Board!Open \in BusPairs BY DEF BusPairs, OfB
<1>6. want \in [BusA -> BusPairs] /\ Changed(want, s.want, {b}, h) /\ Fitting(want)
  <2>1. s.want \in [BusA -> BusPairs] BY <1>3 DEF BusState
  <2>2. Fitting(s.want) BY <1>3 DEF Filled
  <2>3. h \in OfB BY DEF OfB
  <2>4. want \in [BusA -> BusPairs] BY <2>1, <1>5 DEF want
  <2>5. Changed(want, s.want, {b}, h) BY DEF Changed, want
  <2> QED BY <2>2, <2>3, <2>4, <2>5 DEF Changed, Fitting
<1>7. Beside(h, Board!Open) BY DEF Beside
<1>8. Placed(s, h, Board!Open, i, pairs, forA) /\ Indexed(rw, s.rw, {b}, i)
  BY DEF i, pairs, forA, rw, Placed, Indexed
<1>9. BusGood([s EXCEPT !.pairs = pairs, !.forA = forA, !.rw = rw, !.want = want, !.sets = s.sets + 1])
  <2>1. s.sets < BusSets /\ s.patches = {} BY <1>1
  <2> QED BY <2>1, <1>5, <1>6, <1>7, <1>8, Handled, Zenon
<1> QED BY <1>4, <1>9

LEMMA HandlersSetA ==
  ASSUME BusAssumption, BusGood(s), NEW a1 \in BusA, NEW a2 \in BusA, NEW h \in BusAPairs,
         Board!Set_A_Handlers(a1, a2, h)
  PROVE  BusGood(s')
<1> DEFINE p == IF a1 = a2 THEN Board!PairOf(s.rw, s.pairs, a1, h) ELSE h
           X == a1 .. a2
           want == [a \in BusA |-> IF a \in X THEN p ELSE s.want[a]]
           i == Board!IndexOf(s.pairs, p)
           rw == [a \in BusA |-> IF a \in X THEN i ELSE s.rw[a]]
           pairs == Board!PutAt(s.pairs, i, p)
           forA == Board!PutAt(s.forA, i, p)
<1>1. /\ s.sets < BusSets /\ s.patches = {} /\ a1 <= a2 /\ \A a \in a1 .. a2 : a \notin BusB
      /\ (h[1] = "null" \/ h[2] = "null") => a1 = a2
      /\ s' = [Board!SetHandlers(s, FALSE, a1, a2, h) EXCEPT !.sets = @ + 1]
  BY DEF Board!Set_A_Handlers, Board!Null
<1>2. a1 \in Int /\ a2 \in Int /\ h = <<h[1], h[2]>> /\ h[1] \in BusReads /\ h[2] \in BusWrites
  BY DEF BusAssumption, BusReads, BusWrites
<1>3. s \in BusState /\ Filled(s) /\ Patched(s) BY DEF BusGood
<1>4. \A a \in BusA : s.pairs[s.rw[a]] = s.want[a] BY <1>1, <1>3 DEF Patched, Leads
<1>5. ASSUME NEW a \in BusA, a \in X
      PROVE  <<IF h[1] = "null" THEN s.want[a][1] ELSE h[1], IF h[2] = "null" THEN s.want[a][2] ELSE h[2]>> = p
  <2>1. CASE a1 = a2
    <3>1. a = a1 BY <2>1, <1>2, <1>5
    <3> QED BY <2>1, <3>1, <1>4 DEF Board!PairOf, Board!Null
  <2>2. CASE a1 # a2
    <3>1. h[1] # "null" /\ h[2] # "null" BY <2>2, <1>1
    <3> QED BY <2>2, <3>1, <1>2
  <2> QED BY <2>1, <2>2
<1>6. p \in OfA
  <2>1. a1 \in X /\ a1 \notin BusB BY <1>1, <1>2
  <2>2. s.want[a1] \in OfA BY <2>1, <1>3 DEF Filled, Fitting
  <2>3. PICK r \in BusReads \ {"null"}, w \in BusWrites \ {"null"} : s.want[a1] = <<r, w>> BY <2>2 DEF OfA
  <2>4. p = <<IF h[1] = "null" THEN r ELSE h[1], IF h[2] = "null" THEN w ELSE h[2]>>
    <3>1. s.want[a1][1] = r /\ s.want[a1][2] = w BY <2>3
    <3> QED BY <3>1, <2>1, <1>5
  <2> HIDE DEF p
  <2> QED BY <2>4, <1>2 DEF OfA
<1>7. Beside(p, p)
  <2>1. \A r \in BusReads, w \in BusWrites : <<r, w>> \in BusBPairs => <<r, w>> = <<"open", "open">>
    BY DEF BusAssumption
  <2>2. PICK r \in BusReads \ {"null"}, w \in BusWrites \ {"null"} : p = <<r, w>> BY <1>6 DEF OfA
  <2> HIDE DEF p
  <2>3. p \in BusBPairs => p = Board!Open BY <2>1, <2>2 DEF Board!Open
  <2> QED BY <2>3 DEF Beside
<1>8. s' = [s EXCEPT !.pairs = pairs, !.forA = forA, !.rw = rw, !.want = want, !.sets = s.sets + 1]
  <2>1. [a \in BusA |-> IF a \in a1 .. a2 THEN <<IF h[1] = Board!Null THEN s.want[a][1] ELSE h[1],
                                                 IF h[2] = Board!Null THEN s.want[a][2] ELSE h[2]>>
                        ELSE s.want[a]] = want
    <3> HIDE DEF p
    <3> QED BY <1>5 DEF Board!Null
  <2>2. Board!SetHandlers(s, FALSE, a1, a2, h) = [s EXCEPT !.pairs = pairs, !.forA = forA, !.rw = rw, !.want = want]
    <3>1. (IF a1 = a2 /\ ~FALSE THEN Board!PairOf(s.rw, s.pairs, a1, h) ELSE h) = p OBVIOUS
    <3> HIDE DEF want, p
    <3>2. Board!SetHandlers(s, FALSE, a1, a2, h) =
            [s EXCEPT !.pairs = Board!PutAt(@, i, p), !.forA = Board!PutAt(@, i, p),
               !.rw = [a \in BusA |-> IF a \in X THEN i ELSE @[a]], !.want = want]
      BY <2>1, <3>1 DEF Board!SetHandlers
    <3> QED BY <3>2, <1>3 DEF BusState
  <2> HIDE DEF want, pairs, forA, rw, i
  <2> QED BY <1>1, <2>2, <1>3 DEF BusState
<1> HIDE DEF p
<1>9. p \in BusPairs BY <1>6 DEF BusPairs
<1> HIDE DEF want, pairs, forA, rw, i
<1>10. want \in [BusA -> BusPairs] /\ Changed(want, s.want, X, p) /\ Fitting(want)
  <2>1. s.want \in [BusA -> BusPairs] BY <1>3 DEF BusState
  <2>2. Fitting(s.want) BY <1>3 DEF Filled
  <2>3. want \in [BusA -> BusPairs] BY <2>1, <1>9 DEF want
  <2>4. Changed(want, s.want, X, p) BY DEF Changed, want
  <2> QED BY <2>2, <2>3, <2>4, <1>1, <1>6 DEF Changed, Fitting
<1>11. Placed(s, p, p, i, pairs, forA) /\ Indexed(rw, s.rw, X, i)
  BY DEF i, pairs, forA, rw, Placed, Indexed
<1>12. BusGood([s EXCEPT !.pairs = pairs, !.forA = forA, !.rw = rw, !.want = want, !.sets = s.sets + 1])
  <2>1. s.sets < BusSets /\ s.patches = {} BY <1>1
  <2> QED BY <2>1, <1>7, <1>9, <1>10, <1>11, Handled, Zenon
<1> QED BY <1>8, <1>12

Alike(q, r) ==
  /\ q.pairs = r.pairs /\ q.forA = r.forA /\ q.want = r.want /\ q.sets = r.sets /\ q.last = r.last
  /\ q.product = r.product /\ q.multiplicand = r.multiplicand /\ q.quotient = r.quotient
  /\ q.dividend = r.dividend /\ q.wram = r.wram /\ q.at = r.at

LEMMA PatchesTyped ==
  ASSUME NEW r \in BusState, NEW rw \in [BusA -> 1 .. 255], NEW patches \in SUBSET ReadPatches,
         NEW cheats \in [BusA -> CheatsKept]
  PROVE  /\ [r EXCEPT !.rw = rw, !.patches = patches, !.cheats = cheats] \in BusState
         /\ Alike([r EXCEPT !.rw = rw, !.patches = patches, !.cheats = cheats], r)
<1>1. [r EXCEPT !.rw = rw, !.patches = patches, !.cheats = cheats] \in BusState BY DEF BusState
<1>2. Alike([r EXCEPT !.rw = rw, !.patches = patches, !.cheats = cheats], r) BY DEF BusState, Alike
<1> QED BY <1>1, <1>2

\* With other patches all else is as it was.
LEMMA OtherPatches ==
  ASSUME NEW r, BusGood(r), NEW rw \in [BusA -> 1 .. 255], NEW patches \in SUBSET ReadPatches,
         NEW cheats \in [BusA -> CheatsKept],
         Patched([r EXCEPT !.rw = rw, !.patches = patches, !.cheats = cheats])
  PROVE  BusGood([r EXCEPT !.rw = rw, !.patches = patches, !.cheats = cheats])
<1> DEFINE q == [r EXCEPT !.rw = rw, !.patches = patches, !.cheats = cheats]
<1>1. r \in BusState /\ Filled(r) /\ Computed(r) BY DEF BusGood
<1>2. q \in BusState BY Zenon, <1>1, PatchesTyped
<1>3. Alike(q, r) BY Zenon, <1>1, PatchesTyped
<1>4. Patched(q) OBVIOUS
<1> HIDE DEF q
<1>5. Filled(q) BY <1>1, <1>3 DEF Filled, Alike
<1>6. Computed(q) BY <1>1, <1>3 DEF Computed, Alike
<1>7. BusGood(q) BY <1>2, <1>4, <1>5, <1>6 DEF BusGood
<1> QED BY <1>7 DEF q

LEMMA PatchInstalled ==
  ASSUME BusAssumption, BusGood(s), NEW a \in BusA, NEW v \in BusValues, NEW c \in BusValues \cup {-1},
         Board!CheatInstallReadPatch(a, v, c)
  PROVE  BusGood(s')
<1> DEFINE old == {p \in s.patches : p.address = a}
           prev == IF old = {} THEN s.rw[a] ELSE (CHOOSE p \in old : TRUE).prev
           new == [address |-> a, value |-> v, compare |-> c, prev |-> prev]
           patches == (s.patches \ old) \cup {new}
           rw == [s.rw EXCEPT ![a] = 255]
           cheats == [s.cheats EXCEPT ![a] = <<v, c>>]
           q == [s EXCEPT !.rw = rw, !.patches = patches, !.cheats = cheats]
<1>1. s \in BusState /\ Filled(s) /\ Patched(s) BY DEF BusGood
<1>2. /\ s.rw \in [BusA -> 1 .. 255] /\ s.patches \in SUBSET ReadPatches /\ s.cheats \in [BusA -> CheatsKept]
      /\ s.sets \in 0 .. BusSets /\ s.pairs \in Seq(BusPairs)
  BY <1>1 DEF BusState
<1>3. Len(s.pairs) \in Nat /\ Len(s.pairs) <= 254
  <2>1. BusSets \in 0 .. 253 BY DEF BusAssumption
  <2>2. Len(s.pairs) <= s.sets + 1 BY <1>1 DEF Filled
  <2>3. Len(s.pairs) \in Nat BY <1>2
  <2>0. s.sets \in 0 .. BusSets BY <1>2
  <2>4. s.sets + 1 <= 254 BY <2>0, <2>1
  <2> QED BY <2>2, <2>3, <2>4, <1>2, <2>1
<1>4. s' = q
  <2>1. Board!Install(s, a, v, c) = [s EXCEPT !.rw[a] = 255, !.patches = patches]
    BY <1>1 DEF Board!Install, Board!Hook, BusState
  <2> HIDE DEF patches
  <2>2. s' = [Board!Install(s, a, v, c) EXCEPT !.cheats[a] = <<v, c>>] BY DEF Board!CheatInstallReadPatch
  <2> QED BY <2>1, <2>2, <1>1 DEF BusState
<1>5. Leads(s, prev, a)
  <2>1. CASE old = {}
    <3>1. \A p \in s.patches : p.address # a BY <2>1
    <3> QED BY <2>1, <3>1, <1>1 DEF Patched
  <2>2. CASE old # {}
    <3>1. \E p \in old : TRUE BY <2>2
    <3>2. (CHOOSE p \in old : TRUE) \in old BY <3>1
    <3>3. PICK p \in s.patches : p.address = a /\ prev = p.prev BY <2>2, <3>2
    <3> QED BY <3>3, <1>1 DEF Patched
  <2> QED BY <2>1, <2>2
<1>6. prev \in 1 .. 254
  <2>1. prev \in 1 .. Len(s.pairs) BY <1>5 DEF Leads
  <2>2. \A n \in Nat : n <= 254 => \A x \in 1 .. n : x \in 1 .. 254 OBVIOUS
  <2> HIDE DEF prev
  <2> QED BY <2>1, <2>2, <1>3, Zenon
<1> HIDE DEF prev
<1>7. new \in ReadPatches BY <1>6 DEF ReadPatches
<1>8. new.address = a /\ new.value = v /\ new.compare = c /\ new.prev = prev OBVIOUS
<1> HIDE DEF new
<1>9. rw \in [BusA -> 1 .. 255] /\ patches \in SUBSET ReadPatches /\ cheats \in [BusA -> CheatsKept]
  <2>1. v \in Int /\ c \in Int BY DEF BusAssumption
  <2>2. <<v, c>> \in CheatsKept BY <2>1 DEF CheatsKept
  <2>3. cheats \in [BusA -> CheatsKept] BY <1>2, <2>2
  <2>4. rw \in [BusA -> 1 .. 255]
    <3>1. s.rw \in [BusA -> 1 .. 255] /\ 255 \in 1 .. 255 BY <1>2
    <3> QED BY <3>1
  <2>5. patches \in SUBSET ReadPatches BY <1>2, <1>7
  <2> QED BY <2>3, <2>4, <2>5
<1>10. /\ rw[a] = 255 /\ cheats[a] = <<v, c>>
       /\ \A b \in BusA : b # a => rw[b] = s.rw[b] /\ cheats[b] = s.cheats[b]
  BY <1>2
<1>11. \A p : p \in patches <=> p = new \/ (p \in s.patches /\ p.address # a) OBVIOUS
<1> HIDE DEF rw, patches, cheats
<1>12. Patched(q)
  <2>1. Alike(q, s) BY Zenon, <1>1, <1>9, PatchesTyped
  <2>2. q.rw = rw /\ q.patches = patches /\ q.cheats = cheats BY <1>1 DEF BusState
  <2> HIDE DEF q
  <2>3. \A b, i : Leads(s, i, b) => Leads(q, i, b) BY <2>1 DEF Alike, Leads
  <2>4. \A p1, p2 \in q.patches : p1.address = p2.address => p1 = p2
    BY <2>2, <1>8, <1>11, <1>1 DEF Patched
  <2>5. ASSUME NEW p \in q.patches
        PROVE  q.rw[p.address] = 255 /\ Leads(q, p.prev, p.address) /\ q.cheats[p.address] = <<p.value, p.compare>>
    <3>1. CASE p = new BY <3>1, <2>2, <2>3, <1>5, <1>8, <1>10
    <3>2. CASE p # new
      <4>1. p \in s.patches /\ p.address # a BY <3>2, <2>2, <1>11
      <4>2. p.address \in BusA BY <4>1, <1>2 DEF ReadPatches
      <4>3. s.rw[p.address] = 255 /\ Leads(s, p.prev, p.address) /\ s.cheats[p.address] = <<p.value, p.compare>>
        BY <4>1, <1>1 DEF Patched
      <4> QED BY <4>1, <4>2, <4>3, <2>2, <2>3, <1>10
    <3> QED BY <3>1, <3>2
  <2>6. ASSUME NEW b \in BusA, \A p \in q.patches : p.address # b
        PROVE  Leads(q, q.rw[b], b) /\ q.cheats[b] = <<-1, -1>>
    <3>1. b # a BY <2>6, <2>2, <1>8, <1>11
    <3>2. \A p \in s.patches : p.address # b BY <2>6, <2>2, <3>1, <1>11
    <3>3. Leads(s, s.rw[b], b) /\ s.cheats[b] = <<-1, -1>> BY <3>2, <1>1 DEF Patched
    <3> QED BY <3>1, <3>3, <2>2, <2>3, <1>10
  <2> QED BY <2>4, <2>5, <2>6 DEF Patched
<1> QED BY Zenon, <1>4, <1>9, <1>12, OtherPatches

LEMMA PatchesRemoved ==
  ASSUME BusGood(s), Board!CheatRemoveReadPatches
  PROVE  BusGood(s')
<1> DEFINE rw == [a \in BusA |-> IF \E p \in s.patches : p.address = a
                                 THEN (CHOOSE p \in s.patches : p.address = a).prev ELSE s.rw[a]]
           cheats == [a \in BusA |-> <<-1, -1>>]
           q == [s EXCEPT !.rw = rw, !.patches = {}, !.cheats = cheats]
<1>1. s \in BusState /\ Patched(s) BY DEF BusGood
<1>2. s' = q
  <2>1. Board!Removed(s) = [s EXCEPT !.rw = rw, !.patches = {}] BY <1>1 DEF Board!Removed, BusState
  <2> HIDE DEF rw
  <2>2. s' = [Board!Removed(s) EXCEPT !.cheats = cheats] BY DEF Board!CheatRemoveReadPatches, Board!None
  <2> HIDE DEF cheats
  <2> QED BY <2>1, <2>2, <1>1 DEF BusState
<1>3. ASSUME NEW a \in BusA PROVE Leads(s, rw[a], a) /\ rw[a] \in 1 .. 255
  <2>1. CASE \E p \in s.patches : p.address = a
    <3>1. PICK p \in s.patches : p.address = a /\ p = CHOOSE x \in s.patches : x.address = a BY <2>1
    <3>2. rw[a] = p.prev BY <2>1, <3>1
    <3>3. p \in ReadPatches BY <1>1 DEF BusState
    <3>4. p.prev \in 1 .. 255 BY <3>3 DEF ReadPatches
    <3> QED BY <3>1, <3>2, <3>4, <1>1 DEF Patched
  <2>2. CASE ~(\E p \in s.patches : p.address = a)
    <3>1. rw[a] = s.rw[a] /\ s.rw[a] \in 1 .. 255 BY <2>2, <1>1 DEF BusState
    <3> QED BY <2>2, <3>1, <1>1 DEF Patched
  <2> QED BY <2>1, <2>2
<1>4. rw \in [BusA -> 1 .. 255] BY <1>3
<1>5. cheats \in [BusA -> CheatsKept] BY DEF CheatsKept
<1>6. \A a \in BusA : cheats[a] = <<-1, -1>> OBVIOUS
<1> HIDE DEF rw, cheats
<1>7. {} \in SUBSET ReadPatches OBVIOUS
<1>8. Patched(q)
  <2>1. Alike(q, s) BY Zenon, <1>1, <1>4, <1>5, <1>7, PatchesTyped
  <2>2. q.rw = rw /\ q.patches = {} /\ q.cheats = cheats BY <1>1 DEF BusState
  <2> HIDE DEF q
  <2>3. \A b, i : Leads(s, i, b) => Leads(q, i, b) BY <2>1 DEF Alike, Leads
  <2> QED BY <2>2, <2>3, <1>3, <1>6 DEF Patched
<1> QED BY Zenon, <1>2, <1>4, <1>5, <1>7, <1>8, OtherPatches

\* An access of the chips leaves the tables.
LEMMA TablesStay ==
  ASSUME NEW r, NEW q, BusGood(r), q \in BusState, Computed(q),
         q.pairs = r.pairs, q.forA = r.forA, q.rw = r.rw, q.want = r.want, q.sets = r.sets,
         q.patches = r.patches, q.cheats = r.cheats
  PROVE  BusGood(q)
<1>1. Filled(r) /\ Patched(r) BY DEF BusGood
<1>2. Filled(q) BY <1>1 DEF Filled
<1>3. \A a, i : Leads(q, i, a) <=> Leads(r, i, a) BY DEF Leads
<1>4. Patched(q) BY <1>1, <1>3 DEF Patched
<1> QED BY <1>2, <1>4 DEF BusGood

LEMMA Divided ==
  ASSUME NEW a \in Nat, NEW d \in Nat \ {0}
  PROVE  a \div d \in Nat /\ a % d \in Nat /\ a % d < d /\ a = ((a \div d) * d) + (a % d) /\ a % d <= a
<1>1. a \div d \in Int /\ a % d \in 0 .. d - 1 /\ a = d * (a \div d) + (a % d) OBVIOUS
<1>2. a \div d \in Nat OBVIOUS
<1>3. \A x, y \in Nat : x * y \in Nat /\ x * y = y * x OBVIOUS
<1> QED BY <1>1, <1>2, <1>3

LEMMA Rest1 ==
  ASSUME NEW a \in Int, NEW d \in Nat \ {0}, NEW q \in Int, NEW r \in 0 .. d - 1, a = d * q + r
  PROVE  a % d = r
OBVIOUS

LEMMA PortBack ==
  ASSUME BusRam \in Nat \ {0}, NEW at \in 0 .. BusRam - 1
  PROVE  (at + 1) % BusRam \in 0 .. BusRam - 1 /\ (((at + 1) % BusRam) + BusRam - 1) % BusRam = at
<1>1. CASE at + 1 < BusRam
  <2>1. at + 1 = BusRam * 0 + (at + 1) /\ at + 1 \in 0 .. BusRam - 1 BY <1>1
  <2>2. (at + 1) % BusRam = at + 1 BY <2>1, Rest1
  <2>3. (at + 1) + BusRam - 1 = BusRam * 1 + at /\ (at + 1) + BusRam - 1 \in Int OBVIOUS
  <2>4. ((at + 1) + BusRam - 1) % BusRam = at BY <2>3, Rest1
  <2> QED BY <2>1, <2>2, <2>4
<1>2. CASE at + 1 = BusRam
  <2>1. at + 1 = BusRam * 1 + 0 /\ 0 \in 0 .. BusRam - 1 BY <1>2
  <2>2. (at + 1) % BusRam = 0 BY <2>1, Rest1
  <2>3. 0 + BusRam - 1 = BusRam * 0 + at BY <1>2
  <2>4. (0 + BusRam - 1) % BusRam = at BY <2>3, Rest1
  <2> QED BY <2>1, <2>2, <2>4
<1>3. at + 1 < BusRam \/ at + 1 = BusRam OBVIOUS
<1> QED BY <1>1, <1>2, <1>3

LEMMA PortUsed ==
  ASSUME BusAssumption, BusGood(s), NEW wram \in [0 .. BusRam - 1 -> Nat], NEW at \in 0 .. BusRam - 1,
         NEW kind \in AccessKinds, NEW v \in Nat, kind \notin {"multiply", "divide"},
         kind = "write" => wram[(at + BusRam - 1) % BusRam] = v
  PROVE  BusGood([s EXCEPT !.wram = wram, !.at = at, !.last = <<kind, v>>, !.calls = s.calls + 1])
<1> DEFINE last == <<kind, v>>
           calls == s.calls + 1
           q == [s EXCEPT !.wram = wram, !.at = at, !.last = last, !.calls = calls]
<1>1. s \in BusState BY DEF BusGood
<1>2. s.calls \in Nat BY <1>1 DEF BusState
<1>3. calls \in Nat /\ last \in LastAccess /\ last[1] = kind /\ last[2] = v BY <1>2 DEF LastAccess
<1> HIDE DEF calls, last
<1>4. q \in BusState BY <1>1, <1>3 DEF BusState
<1>5. /\ q.pairs = s.pairs /\ q.forA = s.forA /\ q.rw = s.rw /\ q.want = s.want /\ q.sets = s.sets
      /\ q.patches = s.patches /\ q.cheats = s.cheats /\ q.wram = wram /\ q.at = at /\ q.last = last
  BY <1>1 DEF BusState
<1> HIDE DEF q
<1>6. Computed(q) BY <1>3, <1>5 DEF Computed
<1>7. BusGood(q) BY <1>4, <1>5, <1>6, TablesStay
<1> QED BY <1>7 DEF q, last, calls

LEMMA Calculated ==
  ASSUME BusAssumption, BusGood(s), NEW multiplicand \in Nat, NEW product \in Nat, NEW dividend \in Nat,
         NEW quotient \in Nat, NEW kind \in AccessKinds, NEW v \in Nat, kind # "write",
         kind = "multiply" => product = multiplicand * v,
         (kind = "divide" /\ v > 0) => (quotient * v) + product = dividend /\ product < v
  PROVE  BusGood([s EXCEPT !.multiplicand = multiplicand, !.product = product, !.dividend = dividend,
                           !.quotient = quotient, !.last = <<kind, v>>, !.calls = s.calls + 1])
<1> DEFINE last == <<kind, v>>
           calls == s.calls + 1
           q == [s EXCEPT !.multiplicand = multiplicand, !.product = product, !.dividend = dividend,
                          !.quotient = quotient, !.last = last, !.calls = calls]
<1>1. s \in BusState BY DEF BusGood
<1>2. s.calls \in Nat BY <1>1 DEF BusState
<1>3. calls \in Nat /\ last \in LastAccess /\ last[1] = kind /\ last[2] = v BY <1>2 DEF LastAccess
<1> HIDE DEF calls, last
<1>4. q \in BusState BY <1>1, <1>3 DEF BusState
<1>5. /\ q.pairs = s.pairs /\ q.forA = s.forA /\ q.rw = s.rw /\ q.want = s.want /\ q.sets = s.sets
      /\ q.patches = s.patches /\ q.cheats = s.cheats /\ q.last = last
      /\ q.multiplicand = multiplicand /\ q.product = product /\ q.dividend = dividend /\ q.quotient = quotient
  BY <1>1 DEF BusState
<1> HIDE DEF q
<1>6. Computed(q) BY <1>3, <1>5 DEF Computed
<1>7. BusGood(q) BY <1>4, <1>5, <1>6, TablesStay
<1> QED BY <1>7 DEF q, last, calls

LEMMA PortAccess ==
  ASSUME BusAssumption, BusGood(s), NEW v \in 0 .. BusBase - 1,
         \/ Board!Write_2180(v) \/ Board!Read_2180 \/ Board!ICRegsReset
         \/ \E digit \in 0 .. 1 : Board!WriteAddress(digit, v)
  PROVE  BusGood(s')
<1>1. s \in BusState BY DEF BusGood
<1>2. s.wram \in [0 .. BusRam - 1 -> Nat] /\ s.at \in 0 .. BusRam - 1 BY <1>1 DEF BusState
<1>3. BusRam \in Nat \ {0} /\ BusBase \in Nat \ {0} /\ v \in Nat BY DEF BusAssumption
<1>4. CASE Board!Write_2180(v)
  <2> DEFINE wram == [s.wram EXCEPT ![s.at] = v]
             at == (s.at + 1) % BusRam
  <2>1. s' = [s EXCEPT !.wram = wram, !.at = at, !.last = <<"write", v>>, !.calls = s.calls + 1]
    BY <1>1, <1>4 DEF Board!Write_2180, Board!Did, BusState
  <2>2. wram \in [0 .. BusRam - 1 -> Nat] /\ wram[s.at] = v BY <1>2, <1>3
  <2>3. at \in 0 .. BusRam - 1 /\ (at + BusRam - 1) % BusRam = s.at BY <1>2, <1>3, PortBack
  <2>4. wram[(at + BusRam - 1) % BusRam] = v BY <2>2, <2>3
  <2> HIDE DEF wram, at
  <2>5. "write" \in AccessKinds /\ "write" \notin {"multiply", "divide"} BY DEF AccessKinds
  <2>6. BusGood([s EXCEPT !.wram = wram, !.at = at, !.last = <<"write", v>>, !.calls = s.calls + 1])
    BY Zenon, <2>2, <2>3, <2>4, <2>5, <1>3, PortUsed
  <2> QED BY <2>1, <2>6
<1>5. CASE Board!Read_2180
  <2> DEFINE w == s.wram[s.at]
             at == (s.at + 1) % BusRam
  <2>1. s' = [s EXCEPT !.wram = s.wram, !.at = at, !.last = <<"read", w>>, !.calls = s.calls + 1]
    BY <1>1, <1>5 DEF Board!Read_2180, Board!Did, BusState
  <2>2. w \in Nat BY <1>2
  <2>3. at \in 0 .. BusRam - 1 BY <1>2, <1>3, PortBack
  <2> HIDE DEF w, at
  <2>5. "read" \in AccessKinds /\ "read" \notin {"multiply", "divide"} /\ "read" # "write" BY DEF AccessKinds
  <2>6. BusGood([s EXCEPT !.wram = s.wram, !.at = at, !.last = <<"read", w>>, !.calls = s.calls + 1])
    BY Zenon, <2>2, <2>3, <2>5, <1>2, PortUsed
  <2> QED BY <2>1, <2>6
<1>6. CASE Board!ICRegsReset
  <2>1. s' = [s EXCEPT !.wram = s.wram, !.at = 0, !.last = <<"reset", 0>>, !.calls = s.calls + 1]
    BY <1>1, <1>6 DEF Board!ICRegsReset, Board!Did, BusState
  <2>2. 0 \in 0 .. BusRam - 1 /\ 0 \in Nat BY <1>3
  <2>5. "reset" \in AccessKinds /\ "reset" \notin {"multiply", "divide"} /\ "reset" # "write" BY DEF AccessKinds
  <2>6. BusGood([s EXCEPT !.wram = s.wram, !.at = 0, !.last = <<"reset", 0>>, !.calls = s.calls + 1])
    BY Zenon, <2>2, <2>5, <1>2, PortUsed
  <2> QED BY <2>1, <2>6
<1>7. ASSUME NEW digit \in 0 .. 1, Board!WriteAddress(digit, v)
      PROVE  BusGood(s')
  <2> DEFINE unit == IF digit = 0 THEN 1 ELSE BusBase
             old == (s.at \div unit) % BusBase
             at == (s.at + ((v - old) * unit)) % BusRam
  <2>1. s' = [s EXCEPT !.wram = s.wram, !.at = at, !.last = <<"address", 0>>, !.calls = s.calls + 1]
    BY <1>1, <1>7 DEF Board!WriteAddress, Board!Did, BusState
  <2>2. at \in 0 .. BusRam - 1
    <3>1. s.at \in Int BY <1>2
    <3>2. unit \in Nat \ {0} BY <1>3
    <3> HIDE DEF unit
    <3>3. s.at \div unit \in Int BY <3>1, <3>2
    <3>4. old \in Int BY <3>3, <1>3
    <3> HIDE DEF old
    <3>5. (v - old) * unit \in Int
      <4>1. v - old \in Int BY <3>4, <1>3
      <4>2. \A x, y \in Int : x * y \in Int OBVIOUS
      <4> QED BY <4>1, <4>2, <3>2
    <3>6. s.at + ((v - old) * unit) \in Int BY <3>1, <3>5
    <3>7. \A x \in Int, y \in Nat \ {0} : x % y \in 0 .. y - 1 OBVIOUS
    <3> QED BY <3>6, <3>7, <1>3
  <2> HIDE DEF at
  <2>5. "address" \in AccessKinds /\ "address" \notin {"multiply", "divide"} /\ "address" # "write" BY DEF AccessKinds
  <2>6. BusGood([s EXCEPT !.wram = s.wram, !.at = at, !.last = <<"address", 0>>, !.calls = s.calls + 1])
    BY Zenon, <2>2, <2>5, <1>2, PortUsed
  <2> QED BY <2>1, <2>6
<1> QED BY <1>4, <1>5, <1>6, <1>7

LEMMA RegisterAccess ==
  ASSUME BusAssumption, BusGood(s), NEW v \in 0 .. BusBase - 1,
         \/ Board!Multiply(v) \/ Board!SetMultiplicand(v) \/ Board!Divide(v)
         \/ \E high \in BOOLEAN : Board!SetDividend(high, v)
  PROVE  BusGood(s')
<1>1. s \in BusState BY DEF BusGood
<1>2. s.multiplicand \in Nat /\ s.product \in Nat /\ s.dividend \in Nat /\ s.quotient \in Nat BY <1>1 DEF BusState
<1>3. BusBase \in Nat \ {0} /\ v \in Nat BY DEF BusAssumption
<1>4. CASE Board!Multiply(v)
  <2> DEFINE product == s.multiplicand * v
  <2>1. s' = [s EXCEPT !.multiplicand = s.multiplicand, !.product = product, !.dividend = s.dividend,
                       !.quotient = s.quotient, !.last = <<"multiply", v>>, !.calls = s.calls + 1]
    BY <1>1, <1>4 DEF Board!Multiply, Board!Did, BusState
  <2>2. product \in Nat
    <3>1. \A x, y \in Nat : x * y \in Nat OBVIOUS
    <3> QED BY <3>1, <1>2, <1>3
  <2>3. product = s.multiplicand * v OBVIOUS
  <2> HIDE DEF product
  <2>4. "multiply" \in AccessKinds /\ "multiply" # "write" /\ "multiply" # "divide" BY DEF AccessKinds
  <2>5. BusGood([s EXCEPT !.multiplicand = s.multiplicand, !.product = product, !.dividend = s.dividend,
                          !.quotient = s.quotient, !.last = <<"multiply", v>>, !.calls = s.calls + 1])
    BY Zenon, <2>2, <2>3, <2>4, <1>2, <1>3, Calculated
  <2> QED BY <2>1, <2>5
<1>5. CASE Board!SetMultiplicand(v)
  <2>1. s' = [s EXCEPT !.multiplicand = v, !.product = s.product, !.dividend = s.dividend,
                       !.quotient = s.quotient, !.last = <<"set", v>>, !.calls = s.calls + 1]
    BY <1>1, <1>5 DEF Board!SetMultiplicand, Board!Did, BusState
  <2>4. "set" \in AccessKinds /\ "set" # "write" /\ "set" # "divide" /\ "set" # "multiply" BY DEF AccessKinds
  <2>5. BusGood([s EXCEPT !.multiplicand = v, !.product = s.product, !.dividend = s.dividend,
                          !.quotient = s.quotient, !.last = <<"set", v>>, !.calls = s.calls + 1])
    BY Zenon, <2>4, <1>2, <1>3, Calculated
  <2> QED BY <2>1, <2>5
<1>6. ASSUME NEW high \in BOOLEAN, Board!SetDividend(high, v)
      PROVE  BusGood(s')
  <2> DEFINE dividend == IF high THEN (s.dividend % BusBase) + (v * BusBase)
                         ELSE (s.dividend - (s.dividend % BusBase)) + v
  <2>1. s' = [s EXCEPT !.multiplicand = s.multiplicand, !.product = s.product, !.dividend = dividend,
                       !.quotient = s.quotient, !.last = <<"set", v>>, !.calls = s.calls + 1]
    BY Zenon, <1>1, <1>6 DEF Board!SetDividend, Board!Did, BusState
  <2>2. dividend \in Nat
    <3>1. s.dividend % BusBase \in Nat /\ s.dividend % BusBase <= s.dividend BY <1>2, <1>3, Divided
    <3>2. \A x, y \in Nat : x * y \in Nat OBVIOUS
    <3>3. v * BusBase \in Nat BY <3>2, <1>3
    <3> QED BY <3>1, <3>3, <1>2, <1>3
  <2> HIDE DEF dividend
  <2>4. "set" \in AccessKinds /\ "set" # "write" /\ "set" # "divide" /\ "set" # "multiply" BY DEF AccessKinds
  <2>5. BusGood([s EXCEPT !.multiplicand = s.multiplicand, !.product = s.product, !.dividend = dividend,
                          !.quotient = s.quotient, !.last = <<"set", v>>, !.calls = s.calls + 1])
    BY Zenon, <2>2, <2>4, <1>2, <1>3, Calculated
  <2> QED BY <2>1, <2>5
<1>7. CASE Board!Divide(v)
  <2> DEFINE quotient == IF v = 0 THEN (BusBase * BusBase) - 1 ELSE s.dividend \div v
             product == IF v = 0 THEN s.dividend ELSE s.dividend % v
  <2>1. s' = [s EXCEPT !.multiplicand = s.multiplicand, !.product = product, !.dividend = s.dividend,
                       !.quotient = quotient, !.last = <<"divide", v>>, !.calls = s.calls + 1]
    BY <1>1, <1>7 DEF Board!Divide, Board!Did, BusState
  <2>2. quotient \in Nat /\ product \in Nat
    <3>1. CASE v = 0
      <4>1. \A x \in Nat \ {0} : (x * x) - 1 \in Nat OBVIOUS
      <4> QED BY <3>1, <4>1, <1>2, <1>3
    <3>2. CASE v # 0
      <4>1. v \in Nat \ {0} BY <3>2, <1>3
      <4>2. s.dividend \div v \in Nat /\ s.dividend % v \in Nat BY <4>1, <1>2, Divided
      <4> QED BY <3>2, <4>2
    <3> QED BY <3>1, <3>2
  <2>3. v > 0 => (quotient * v) + product = s.dividend /\ product < v
    <3>1. SUFFICES ASSUME v > 0 PROVE (quotient * v) + product = s.dividend /\ product < v OBVIOUS
    <3>2. v \in Nat \ {0} /\ quotient = s.dividend \div v /\ product = s.dividend % v BY <3>1, <1>3
    <3>3. s.dividend = ((s.dividend \div v) * v) + (s.dividend % v) /\ s.dividend % v < v
      BY <3>2, <1>2, Divided
    <3> QED BY <3>2, <3>3
  <2> HIDE DEF quotient, product
  <2>4. "divide" \in AccessKinds /\ "divide" # "write" /\ "divide" # "multiply" BY DEF AccessKinds
  <2>5. BusGood([s EXCEPT !.multiplicand = s.multiplicand, !.product = product, !.dividend = s.dividend,
                          !.quotient = quotient, !.last = <<"divide", v>>, !.calls = s.calls + 1])
    BY Zenon, <2>2, <2>3, <2>4, <1>2, <1>3, Calculated
  <2> QED BY <2>1, <2>5
<1> QED BY <1>4, <1>5, <1>6, <1>7

LEMMA BusNext ==
  ASSUME BusAssumption, BusGood(s), Board!Next
  PROVE  BusGood(s')
<1>1. 0 \in 0 .. BusBase - 1 BY DEF BusAssumption
<1> QED
  BY <1>1, HandlersSetA, HandlersSetB, PatchInstalled, PatchesRemoved, PortAccess, RegisterAccess DEF Board!Next

LEMMA BusStarts ==
  ASSUME BusAssumption, Board!Init
  PROVE  BusGood(s)
<1> DEFINE one == <<Board!Open>>
           rw == [a \in BusA |-> 1]
           want == [a \in BusA |-> Board!Open]
           cheats == [a \in BusA |-> <<-1, -1>>]
           wram == [i \in 0 .. BusRam - 1 |-> 0]
           most == (BusBase * BusBase) - 1
           last == <<"none", 0>>
<1>1. s = [pairs |-> one, forA |-> one, rw |-> rw, want |-> want, patches |-> {}, cheats |-> cheats, sets |-> 0,
           wram |-> wram, at |-> 0, calls |-> 0, multiplicand |-> BusBase - 1, product |-> most,
           dividend |-> most, quotient |-> most, last |-> last]
  BY DEF Board!Init, Board!PowerOn, Board!None
<1>2. BusBase \in Nat \ {0} /\ BusRam \in Nat \ {0} /\ BusSets \in Nat BY DEF BusAssumption
<1>3. /\ most \in Nat /\ BusBase - 1 \in Nat /\ 0 \in 0 .. BusRam - 1 /\ 0 \in 0 .. BusSets /\ 0 \in Nat
      /\ {} \in SUBSET ReadPatches
  <2>1. \A x \in Nat \ {0} : (x * x) - 1 \in Nat OBVIOUS
  <2> QED BY <2>1, <1>2
<1>4. Board!Open \in OfB /\ Board!Open \in BusPairs BY DEF OfB, BusPairs
<1>5. Board!Open \in OfA BY DEF OfA, BusReads, BusWrites, Board!Open
<1>6. one \in Seq(BusPairs) /\ Len(one) = 1 /\ one[1] = Board!Open BY <1>4
<1>7. /\ rw \in [BusA -> 1 .. 255] /\ want \in [BusA -> BusPairs] /\ cheats \in [BusA -> CheatsKept]
      /\ wram \in [0 .. BusRam - 1 -> Nat] /\ last \in LastAccess
  <2>1. <<-1, -1>> \in CheatsKept BY DEF CheatsKept
  <2>2. last \in LastAccess BY DEF LastAccess, AccessKinds
  <2> QED BY <2>1, <2>2, <1>4
<1>8. /\ \A a \in BusA : rw[a] = 1 /\ want[a] = Board!Open /\ cheats[a] = <<-1, -1>>
      /\ last[1] = "none"
  OBVIOUS
<1> HIDE DEF one, rw, want, cheats, wram, most, last
<1>9. s \in BusState BY <1>1, <1>3, <1>6, <1>7, Zenon DEF BusState
<1>10. /\ s.pairs = one /\ s.forA = one /\ s.rw = rw /\ s.want = want /\ s.patches = {} /\ s.cheats = cheats
       /\ s.sets = 0 /\ s.last = last
  BY <1>1
<1>11. Filled(s)
  <2>1. Fitting(want) BY <1>4, <1>5, <1>8 DEF Fitting
  <2>2. Fitting(s.want) BY <2>1, <1>10
  <2>3. Len(s.pairs) = 1 /\ Len(s.forA) = 1 /\ s.sets = 0 /\ s.pairs[1] = Board!Open /\ s.forA[1] = Board!Open
    BY <1>6, <1>10
  <2>4. \A i \in 1 .. Len(s.pairs) :
          s.forA[i] = IF s.pairs[i] \in BusBPairs THEN Board!Open ELSE s.pairs[i]
    <3>1. \A i \in 1 .. 1 : i = 1 OBVIOUS
    <3> QED BY <3>1, <2>3
  <2>5. Len(s.pairs) <= s.sets + 1 BY <2>3
  <2> QED BY <2>2, <2>3, <2>4, <2>5 DEF Filled
<1>12. Patched(s)
  <2>1. ASSUME NEW a \in BusA PROVE Leads(s, s.rw[a], a) /\ s.cheats[a] = <<-1, -1>>
    <3>1. s.rw[a] = 1 /\ s.want[a] = Board!Open /\ s.cheats[a] = <<-1, -1>> BY <1>8, <1>10
    <3>2. 1 \in 1 .. Len(s.pairs) /\ s.pairs[1] = Board!Open BY <1>6, <1>10
    <3> QED BY <3>1, <3>2 DEF Leads
  <2>2. s.patches = {} BY <1>10
  <2> QED BY <2>1, <2>2 DEF Patched
<1>13. Computed(s) BY <1>8, <1>10 DEF Computed
<1> QED BY <1>9, <1>11, <1>12, <1>13 DEF BusGood

LEMMA BusSoundly ==
  ASSUME BusAssumption, BusGood(s)
  PROVE  Board!BusSound
<1>1. s \in BusState /\ Filled(s) /\ Patched(s) /\ Computed(s) BY DEF BusGood
<1>2. Len(s.pairs) <= 254
  <2>1. BusSets \in 0 .. 253 BY DEF BusAssumption
  <2>2. Len(s.pairs) <= s.sets + 1 BY <1>1 DEF Filled
  <2>3. s.sets \in 0 .. BusSets BY <1>1 DEF BusState
  <2>4. s.sets + 1 <= 254 BY <2>1, <2>3
  <2>5. s.pairs \in Seq(BusPairs) BY <1>1 DEF BusState
  <2>6. Len(s.pairs) \in Nat BY <2>5
  <2> QED BY <2>1, <2>2, <2>3, <2>4, <2>6
<1>3. ASSUME NEW a \in BusA, NEW i, Leads(s, i, a)
      PROVE  i # 255 /\ s.pairs[i] = s.want[a] /\ s.forA[i] = IF a \in BusB THEN Board!Open ELSE s.want[a]
  <2>1. i \in 1 .. Len(s.pairs) /\ s.pairs[i] = s.want[a] BY <1>3 DEF Leads
  <2>2. i # 255
    <3>1. s.pairs \in Seq(BusPairs) BY <1>1 DEF BusState
    <3>2. Len(s.pairs) \in Nat BY <3>1
    <3>3. \A n \in Nat : n <= 254 => 255 \notin 1 .. n OBVIOUS
    <3> QED BY <2>1, <1>2, <3>2, <3>3
  <2>3. s.forA[i] = IF s.pairs[i] \in BusBPairs THEN Board!Open ELSE s.pairs[i] BY <2>1, <1>1 DEF Filled
  <2>4. s.want[a] \in IF a \in BusB THEN OfB ELSE OfA BY <1>1 DEF Filled, Fitting
  <2>5. CASE a \in BusB
    <3>1. s.want[a] \in BusBPairs \/ s.want[a] = Board!Open BY <2>4, <2>5 DEF OfB
    <3> QED BY <2>1, <2>2, <2>3, <2>5, <3>1
  <2>6. CASE a \notin BusB
    <3>1. PICK r \in BusReads \ {"null"}, w \in BusWrites \ {"null"} : s.want[a] = <<r, w>> BY <2>4, <2>6 DEF OfA
    <3>2. s.want[a] \in BusBPairs => s.want[a] = Board!Open BY <3>1 DEF BusAssumption, Board!Open
    <3> QED BY <2>1, <2>2, <2>3, <2>6, <3>2
  <2> QED BY <2>5, <2>6
<1>4. ASSUME NEW a \in BusA
      PROVE  /\ Board!Reaches(s, a, FALSE) = s.want[a]
             /\ Board!Reaches(s, a, TRUE) = IF a \in BusB THEN Board!Open ELSE s.want[a]
             /\ \A v \in BusValues :
                  Board!Seen(s, a, v) = IF s.cheats[a] # Board!None /\ s.cheats[a][2] \in {-1, v}
                                        THEN s.cheats[a][1] ELSE v
  <2>1. CASE \E p \in s.patches : p.address = a
    <3>1. PICK p \in s.patches : p.address = a BY <2>1
    <3>2. Board!FindRPie(s, a) = p
      <4>1. \A x \in s.patches : x.address = a => x = p BY <3>1, <1>1 DEF Patched
      <4>2. (CHOOSE x \in s.patches : x.address = a) \in {x \in s.patches : x.address = a} BY <3>1
      <4> QED BY <4>1, <4>2 DEF Board!FindRPie
    <3>3. s.rw[a] = 255 /\ Leads(s, p.prev, a) /\ s.cheats[a] = <<p.value, p.compare>>
      BY <3>1, <1>1 DEF Patched
    <3>4. p.value \in Nat /\ p.compare \in BusValues \cup {-1}
      <4>1. p \in ReadPatches BY <3>1, <1>1 DEF BusState
      <4> QED BY <4>1 DEF ReadPatches, BusAssumption
    <3>5. /\ p.prev # 255 /\ s.pairs[p.prev] = s.want[a]
          /\ s.forA[p.prev] = IF a \in BusB THEN Board!Open ELSE s.want[a]
      BY <3>3, <1>3
    <3>6. /\ Board!Reaches(s, a, FALSE) = s.pairs[p.prev] /\ Board!Reaches(s, a, TRUE) = s.forA[p.prev]
      BY <3>2, <3>3, <3>5 DEF Board!Reaches, Board!Hook, Board!Table
    <3>7. ASSUME NEW v \in BusValues
          PROVE  Board!Seen(s, a, v) = IF s.cheats[a] # Board!None /\ s.cheats[a][2] \in {-1, v}
                                       THEN s.cheats[a][1] ELSE v
      <4>1. v \in Nat BY DEF BusAssumption
      <4>2. Board!Seen(s, a, v) = IF p.compare < 0 \/ v = p.compare THEN p.value ELSE v
        BY <3>2, <3>3 DEF Board!Seen, Board!Hook
      <4>3. s.cheats[a][1] = p.value /\ s.cheats[a][2] = p.compare BY <3>3
      <4>4. s.cheats[a] # Board!None
        <5>1. Board!None[1] = -1 BY DEF Board!None
        <5> QED BY <5>1, <4>3, <3>4
      <4>5. (p.compare < 0 \/ v = p.compare) <=> p.compare \in {-1, v}
        <5>1. \A x \in BusValues : x \in Nat BY DEF BusAssumption
        <5> QED BY <5>1, <3>4, <4>1
      <4> QED BY <4>2, <4>3, <4>4, <4>5
    <3> QED BY <3>5, <3>6, <3>7
  <2>2. CASE ~(\E p \in s.patches : p.address = a)
    <3>1. Leads(s, s.rw[a], a) /\ s.cheats[a] = <<-1, -1>> BY <2>2, <1>1 DEF Patched
    <3>2. /\ s.rw[a] # 255 /\ s.pairs[s.rw[a]] = s.want[a]
          /\ s.forA[s.rw[a]] = IF a \in BusB THEN Board!Open ELSE s.want[a]
      BY <3>1, <1>3
    <3>3. Board!Reaches(s, a, FALSE) = s.pairs[s.rw[a]] /\ Board!Reaches(s, a, TRUE) = s.forA[s.rw[a]]
      BY <3>2 DEF Board!Reaches, Board!Hook, Board!Table
    <3>4. \A v \in BusValues : Board!Seen(s, a, v) = v BY <3>2 DEF Board!Seen, Board!Hook
    <3>5. s.cheats[a] = Board!None BY <3>1 DEF Board!None
    <3> QED BY <3>2, <3>3, <3>4, <3>5
  <2> QED BY <2>1, <2>2
<1> QED BY <1>1, <1>4 DEF Board!BusSound, Computed

----------------------------------------------------------------------------
(* The input ports.                                                        *)

Buttons == [1 .. PadWidth -> {0, 1}]
PadState == [buttons : Buttons, latched : Seq({0, 1}), pls : BOOLEAN]
PadsState ==
  [pads : [PadActive -> PadState], on : SUBSET PadActive, taps : [0 .. 1 -> BOOLEAN],
   pls : [0 .. 1 -> BOOLEAN], wrio : [0 .. 1 -> BOOLEAN], JoyLS : BOOLEAN, at : [PadActive -> Buttons],
   heard : [0 .. 1 -> [BOOLEAN -> [0 .. 1 -> Seq({0, 1})]]], n : Nat, torn : BOOLEAN]

\* Where the game can read a pad: a line of a port, for one value of the port's
\* WRIO bit or, without a multitap, for either.
IsSlot(taps, p, iob, line) ==
  /\ p \in 0 .. 1 /\ iob \in BOOLEAN /\ line \in 0 .. 1
  /\ ~taps[p] => iob = TRUE /\ line = 0

\* Bit k of what was strobed, and bit j of what a shift register will give.
Given(at, k) == IF k > PadWidth THEN 1 ELSE at[k]
ToCome(latched, j) == IF j <= Len(latched) THEN latched[j] ELSE 1

\* After n bits the rest of what was strobed is to come.
Rests(latched, at, n) == \A j \in Nat \ {0} : ToCome(latched, j) = Given(at, n + j)

\* What was heard of a pad is what was strobed, and so will the rest be.
SlotGood(r, d, h) ==
  IF d \notin r.on THEN \A i \in 1 .. Len(h) : h[i] = 0
  ELSE /\ \A i \in 1 .. Len(h) : h[i] = Given(r.at[d], i)
       /\ ~r.JoyLS => Rests(r.pads[d].latched, r.at[d], Len(h))
SlotsGood(r) ==
  \A p \in 0 .. 1, iob \in BOOLEAN, line \in 0 .. 1 :
    IsSlot(r.taps, p, iob, line) => SlotGood(r, Pads!Wired(p, line, iob, r.taps), r.heard[p][iob][line])

PadsOf(r) == (Pads!Mapped(0, r.taps) \cup Pads!Mapped(1, r.taps)) \cap r.on
StrobesGood(r) ==
  /\ \A p \in 0 .. 1 : r.pls[p] = (r.taps[p] /\ r.JoyLS)
  /\ \A d \in PadsOf(r) : r.pads[d].pls = r.JoyLS
PadsGood(r) == r \in PadsState /\ StrobesGood(r) /\ SlotsGood(r)

\* While the ports are torn nothing is remembered.
Unheard(heard) == \A p \in 0 .. 1, iob \in BOOLEAN, line \in 0 .. 1 : heard[p][iob][line] = <<>>
PadsHold(r) == /\ r \in PadsState
               /\ IF r.torn THEN Unheard(r.heard) ELSE PadsGood(r)

LEMMA MappedIs ==
  ASSUME NEW taps \in [0 .. 1 -> BOOLEAN], NEW p \in 0 .. 1, NEW d
  PROVE  d \in Pads!Mapped(p, taps) <=>
           IF taps[p] THEN d \in (IF p = 0 THEN 0 ELSE IF taps[0] THEN 4 ELSE 1)
                                 .. (IF p = 0 THEN 3 ELSE IF taps[0] THEN 7 ELSE 4)
           ELSE d = IF p = 0 THEN 0 ELSE IF taps[0] THEN 4 ELSE 1
<1> DEFINE first == Pads!FirstOf(p, taps)
<1>1. first = IF p = 0 THEN 0 ELSE IF taps[0] THEN 4 ELSE 1 BY DEF Pads!FirstOf
<1>2. first \in {0, 1, 4} BY <1>1
<1>3. Pads!Mapped(p, taps) = IF taps[p] THEN {first + k : k \in 0 .. 3} ELSE {first}
  BY DEF Pads!Mapped, Pads!Sockets
<1> HIDE DEF first
<1>4. d \in {first + k : k \in 0 .. 3} <=> d \in first .. first + 3
  <2>1. ASSUME d \in first .. first + 3 PROVE d \in {first + k : k \in 0 .. 3}
    <3>1. d - first \in 0 .. 3 /\ d = first + (d - first) BY <2>1, <1>2
    <3> QED BY <3>1
  <2>2. ASSUME NEW k \in 0 .. 3 PROVE first + k \in first .. first + 3 BY <1>2
  <2> QED BY <2>1, <2>2
<1> QED BY <1>1, <1>3, <1>4

LEMMA MappedApart ==
  ASSUME NEW taps \in [0 .. 1 -> BOOLEAN]
  PROVE  Pads!Mapped(0, taps) \cap Pads!Mapped(1, taps) = {}
<1>1. ASSUME NEW d \in Pads!Mapped(0, taps), d \in Pads!Mapped(1, taps) PROVE FALSE
  <2>1. IF taps[0] THEN d \in 0 .. 3 ELSE d = 0 BY MappedIs
  <2>2. IF taps[1] THEN d \in (IF taps[0] THEN 4 ELSE 1) .. (IF taps[0] THEN 7 ELSE 4)
        ELSE d = IF taps[0] THEN 4 ELSE 1
    BY <1>1, MappedIs
  <2> QED BY <2>1, <2>2
<1> QED BY <1>1

LEMMA SlotMapped ==
  ASSUME NEW taps \in [0 .. 1 -> BOOLEAN], NEW p, NEW iob, NEW line, IsSlot(taps, p, iob, line)
  PROVE  Pads!Wired(p, line, iob, taps) \in Pads!Mapped(p, taps)
<1>1. p \in 0 .. 1 /\ line \in 0 .. 1 BY DEF IsSlot
<1>2. CASE taps[p]
  <2> DEFINE k == (IF iob THEN 0 ELSE 2) + line
             first == Pads!FirstOf(p, taps)
  <2>1. k \in 0 .. 3 BY <1>1
  <2>2. first \in {0, 1, 4} BY DEF Pads!FirstOf
  <2>3. Pads!Wired(p, line, iob, taps) = first + k
    <3>1. Pads!Wired(p, line, iob, taps) = first + (IF iob THEN 0 ELSE 2) + line BY <1>2 DEF Pads!Wired
    <3> HIDE DEF first
    <3> QED BY <3>1, <2>2, <1>1
  <2>4. Pads!Mapped(p, taps) = {first + j : j \in 0 .. 3} BY <1>2 DEF Pads!Mapped, Pads!Sockets
  <2> HIDE DEF k, first
  <2> QED BY <2>1, <2>3, <2>4
<1>3. CASE ~taps[p] BY <1>3 DEF Pads!Wired, Pads!Mapped
<1> QED BY <1>2, <1>3

\* No pad can be read in two places.
LEMMA SlotOnce ==
  ASSUME NEW taps \in [0 .. 1 -> BOOLEAN], NEW p, NEW iob, NEW line, IsSlot(taps, p, iob, line),
         NEW q, NEW ioc, NEW mine, IsSlot(taps, q, ioc, mine),
         Pads!Wired(p, line, iob, taps) = Pads!Wired(q, mine, ioc, taps)
  PROVE  p = q /\ iob = ioc /\ line = mine
<1>1. /\ p \in 0 .. 1 /\ q \in 0 .. 1 /\ iob \in BOOLEAN /\ ioc \in BOOLEAN /\ line \in 0 .. 1 /\ mine \in 0 .. 1
      /\ ~taps[p] => iob = TRUE /\ line = 0
      /\ ~taps[q] => ioc = TRUE /\ mine = 0
  BY DEF IsSlot
<1>2. p = q
  <2>1. Pads!Wired(p, line, iob, taps) \in Pads!Mapped(p, taps) BY SlotMapped
  <2>2. Pads!Wired(p, line, iob, taps) \in Pads!Mapped(q, taps) BY SlotMapped
  <2> QED BY <2>1, <2>2, <1>1, MappedApart
<1>3. CASE taps[p]
  <2> DEFINE first == Pads!FirstOf(p, taps)
  <2>1. first \in {0, 1, 4} BY DEF Pads!FirstOf
  <2>2. /\ Pads!Wired(p, line, iob, taps) = first + (IF iob THEN 0 ELSE 2) + line
        /\ Pads!Wired(q, mine, ioc, taps) = first + (IF ioc THEN 0 ELSE 2) + mine
    BY <1>2, <1>3 DEF Pads!Wired
  <2> DEFINE a == IF iob THEN 0 ELSE 2
             b == IF ioc THEN 0 ELSE 2
  <2>3. first + a + line = first + b + mine BY <2>2
  <2>4. a \in {0, 2} /\ b \in {0, 2} /\ (a = b => iob = ioc) BY <1>1
  <2> HIDE DEF first, a, b
  <2>5. a = b /\ line = mine BY <2>1, <2>3, <2>4, <1>1
  <2> QED BY <2>4, <2>5, <1>2
<1> QED BY <1>1, <1>2, <1>3

LEMMA RestsStrobed ==
  ASSUME PadAssumption, NEW buttons \in Buttons
  PROVE  buttons \in Seq({0, 1}) /\ Len(buttons) = PadWidth /\ Rests(buttons, buttons, 0)
<1>1. PadWidth \in Nat BY DEF PadAssumption
<1>2. buttons \in Seq({0, 1}) /\ Len(buttons) = PadWidth BY <1>1 DEF Buttons
<1>3. \A j \in Nat \ {0} : ToCome(buttons, j) = Given(buttons, 0 + j) BY <1>1, <1>2 DEF ToCome, Given
<1> QED BY <1>2, <1>3 DEF Rests

LEMMA RestsPowered ==
  ASSUME PadAssumption, NEW n \in Nat
  PROVE  Pads!Ones \in Buttons /\ Rests(<<>>, Pads!Ones, n)
<1>1. PadWidth \in Nat BY DEF PadAssumption
<1>2. Pads!Ones \in Buttons /\ \A k \in 1 .. PadWidth : Pads!Ones[k] = 1 BY DEF Buttons, Pads!Ones
<1>3. ASSUME NEW j \in Nat \ {0} PROVE ToCome(<<>>, j) = Given(Pads!Ones, n + j)
  <2>1. ToCome(<<>>, j) = 1 BY DEF ToCome
  <2>2. n + j \in Nat \ {0} OBVIOUS
  <2>3. Given(Pads!Ones, n + j) = 1 BY <2>2, <1>1, <1>2 DEF Given
  <2> QED BY <2>1, <2>3
<1> QED BY <1>2, <1>3 DEF Rests

LEMMA RestsShifted ==
  ASSUME NEW pad \in PadState, ~pad.pls, NEW at, NEW n \in Nat, Rests(pad.latched, at, n)
  PROVE  Pads!Bit(pad) = Given(at, n + 1) /\ Rests(Pads!Shifted(pad).latched, at, n + 1)
<1>1. pad.latched \in Seq({0, 1}) BY DEF PadState
<1> DEFINE l == pad.latched
<1>2. Pads!Bit(pad) = ToCome(l, 1) BY <1>1 DEF Pads!Bit, ToCome
<1>3. Pads!Shifted(pad).latched = IF l = <<>> THEN l ELSE Tail(l) BY DEF Pads!Shifted, PadState
<1>4. ASSUME NEW j \in Nat \ {0} PROVE ToCome(Pads!Shifted(pad).latched, j) = Given(at, (n + 1) + j)
  <2>1. ToCome(Pads!Shifted(pad).latched, j) = ToCome(l, j + 1)
    <3>1. CASE l = <<>> BY <3>1, <1>3 DEF ToCome
    <3>2. CASE l # <<>>
      <4>1. Len(Tail(l)) = Len(l) - 1 /\ Len(l) \in Nat BY <3>2, <1>1
      <4>2. j <= Len(Tail(l)) => Tail(l)[j] = l[j + 1] BY <3>2, <1>1
      <4> QED BY <4>1, <4>2, <3>2, <1>3 DEF ToCome
    <3> QED BY <3>1, <3>2
  <2>2. j + 1 \in Nat \ {0} /\ n + (j + 1) = (n + 1) + j OBVIOUS
  <2> QED BY <2>1, <2>2 DEF Rests
<1>5. 1 \in Nat \ {0} OBVIOUS
<1>6. Pads!Bit(pad) = Given(at, n + 1) BY <1>2, <1>5 DEF Rests
<1> QED BY <1>4, <1>6 DEF Rests

LEMMA PadGiven ==
  ASSUME NEW pad \in PadState, NEW buttons \in Buttons, PadAssumption
  PROVE  /\ Pads!UpdatePhysicalState(pad, buttons) \in PadState
         /\ Pads!UpdatePhysicalState(pad, buttons).pls = pad.pls
         /\ ~pad.pls => Pads!UpdatePhysicalState(pad, buttons).latched = pad.latched
<1>1. pad.latched \in Seq({0, 1}) /\ buttons \in Seq({0, 1}) BY RestsStrobed DEF PadState
<1> QED BY <1>1 DEF Pads!UpdatePhysicalState, PadState

LEMMA PadTyped ==
  ASSUME NEW pad \in PadState, NEW state \in BOOLEAN, PadAssumption
  PROVE  /\ Pads!SetLatch(pad, state) \in PadState /\ Pads!SetLatch(pad, state).pls = state
         /\ Pads!SetLatch(pad, state).buttons = pad.buttons
         /\ Pads!SetLatch(pad, state).latched = IF pad.pls /\ ~state THEN pad.buttons ELSE pad.latched
         /\ Pads!Power(pad) \in PadState /\ Pads!Power(pad).pls = pad.pls /\ Pads!Power(pad).latched = <<>>
         /\ Pads!Shifted(pad) \in PadState /\ Pads!Shifted(pad).pls = pad.pls
         /\ Pads!Shifted(pad).buttons = pad.buttons
<1>1. pad.buttons \in Buttons /\ pad.latched \in Seq({0, 1}) /\ pad.pls \in BOOLEAN BY DEF PadState
<1>2. pad.buttons \in Seq({0, 1}) BY <1>1, RestsStrobed
<1>3. /\ Pads!SetLatch(pad, state) \in PadState /\ Pads!SetLatch(pad, state).pls = state
      /\ Pads!SetLatch(pad, state).buttons = pad.buttons
      /\ Pads!SetLatch(pad, state).latched = IF pad.pls /\ ~state THEN pad.buttons ELSE pad.latched
  <2> DEFINE latched == IF pad.pls /\ ~state THEN pad.buttons ELSE pad.latched
  <2>1. Pads!SetLatch(pad, state) = [pad EXCEPT !.latched = latched, !.pls = state]
    BY DEF Pads!SetLatch, PadState
  <2>2. latched \in Seq({0, 1}) BY <1>1, <1>2
  <2> HIDE DEF latched
  <2>3. [pad EXCEPT !.latched = latched, !.pls = state] \in PadState BY <2>2 DEF PadState
  <2>4. /\ [pad EXCEPT !.latched = latched, !.pls = state].pls = state
        /\ [pad EXCEPT !.latched = latched, !.pls = state].buttons = pad.buttons
        /\ [pad EXCEPT !.latched = latched, !.pls = state].latched = latched
    BY DEF PadState
  <2>5. latched = IF pad.pls /\ ~state THEN pad.buttons ELSE pad.latched BY DEF latched
  <2> QED BY <2>1, <2>3, <2>4, <2>5
<1>4. Pads!Power(pad) \in PadState /\ Pads!Power(pad).pls = pad.pls /\ Pads!Power(pad).latched = <<>>
  <2>1. <<>> \in Seq({0, 1}) OBVIOUS
  <2> QED BY <2>1 DEF Pads!Power, PadState
<1>6. /\ Pads!Shifted(pad) \in PadState /\ Pads!Shifted(pad).pls = pad.pls
      /\ Pads!Shifted(pad).buttons = pad.buttons
  <2> DEFINE latched == IF pad.pls \/ pad.latched = <<>> THEN pad.latched ELSE Tail(pad.latched)
  <2>1. Pads!Shifted(pad) = [pad EXCEPT !.latched = latched] BY DEF Pads!Shifted, PadState
  <2>2. latched \in Seq({0, 1}) BY <1>1
  <2> HIDE DEF latched
  <2> QED BY <2>1, <2>2 DEF PadState
<1> QED BY <1>3, <1>4, <1>6

\* What of it is cited of a single pad.
LEMMA PadLatched ==
  ASSUME NEW pad \in PadState, NEW state \in BOOLEAN, PadAssumption
  PROVE  Pads!SetLatch(pad, state) \in PadState /\ Pads!SetLatch(pad, state).pls = state
BY PadTyped

LEMMA PadPowered ==
  ASSUME NEW pad \in PadState, PadAssumption
  PROVE  Pads!Power(pad) \in PadState /\ Pads!Power(pad).pls = pad.pls /\ Pads!Power(pad).latched = <<>>
<1>1. TRUE \in BOOLEAN OBVIOUS
<1> QED BY <1>1, PadTyped

\* A state of the same multitaps, part by part.
Made(q, on, pads, JoyLS, pls, wrio, at, heard, torn) ==
  /\ q \in PadsState /\ q.taps = s.taps
  /\ q.on = on /\ q.pads = pads /\ q.JoyLS = JoyLS /\ q.pls = pls /\ q.wrio = wrio /\ q.at = at /\ q.heard = heard
  /\ q.torn = torn

Heards == [0 .. 1 -> [BOOLEAN -> [0 .. 1 -> Seq({0, 1})]]]
Rebuilt(on, pads, JoyLS, pls, wrio, at, heard, n, torn) ==
  [s EXCEPT !.on = on, !.pads = pads, !.JoyLS = JoyLS, !.pls = pls, !.wrio = wrio, !.at = at,
            !.heard = heard, !.n = n, !.torn = torn]

LEMMA PadsMade ==
  ASSUME s \in PadsState, NEW on \in SUBSET PadActive, NEW pads \in [PadActive -> PadState], NEW JoyLS \in BOOLEAN,
         NEW pls \in [0 .. 1 -> BOOLEAN], NEW wrio \in [0 .. 1 -> BOOLEAN], NEW at \in [PadActive -> Buttons],
         NEW heard \in Heards, NEW n \in Nat, NEW torn \in BOOLEAN
  PROVE  Made(Rebuilt(on, pads, JoyLS, pls, wrio, at, heard, n, torn), on, pads, JoyLS, pls, wrio, at, heard, torn)
<1> DEFINE q == Rebuilt(on, pads, JoyLS, pls, wrio, at, heard, n, torn)
<1>1. q \in PadsState BY DEF PadsState, Heards, Rebuilt
<1>2. /\ q.taps = s.taps /\ q.on = on /\ q.pads = pads /\ q.JoyLS = JoyLS /\ q.pls = pls /\ q.wrio = wrio
      /\ q.at = at /\ q.heard = heard /\ q.torn = torn
  BY DEF PadsState, Rebuilt
<1> HIDE DEF q
<1>3. Made(q, on, pads, JoyLS, pls, wrio, at, heard, torn) BY <1>1, <1>2 DEF Made
<1> QED BY <1>3 DEF q

LEMMA PadsPresent ==
  ASSUME s \in PadsState
  PROVE  /\ s.on \in SUBSET PadActive /\ s.pads \in [PadActive -> PadState] /\ s.JoyLS \in BOOLEAN
         /\ s.pls \in [0 .. 1 -> BOOLEAN] /\ s.wrio \in [0 .. 1 -> BOOLEAN] /\ s.at \in [PadActive -> Buttons]
         /\ s.heard \in Heards /\ s.n \in Nat /\ s.torn \in BOOLEAN /\ s.taps \in [0 .. 1 -> BOOLEAN]
BY DEF PadsState, Heards

\* The pads of a state with other parts.
LEMMA PadsMove ==
  ASSUME NEW q, q.taps = s.taps
  PROVE  /\ PadsOf(s) = Pads!Pads
         /\ q.on = s.on => PadsOf(q) = Pads!Pads
         /\ \A p \in 0 .. 1 : Pads!Mapped(p, s.taps) \cap q.on \subseteq PadsOf(q)
         /\ PadsOf(q) \subseteq q.on
BY DEF PadsOf, Pads!Pads, Pads!Reached

\* A pad that can be read somewhere is one of them.
LEMMA SlotReached ==
  ASSUME NEW q, q.taps \in [0 .. 1 -> BOOLEAN], NEW p, NEW iob, NEW line, IsSlot(q.taps, p, iob, line),
         Pads!Wired(p, line, iob, q.taps) \in q.on
  PROVE  Pads!Wired(p, line, iob, q.taps) \in PadsOf(q)
<1>1. p \in 0 .. 1 BY DEF IsSlot
<1>2. Pads!Wired(p, line, iob, q.taps) \in Pads!Mapped(p, q.taps) BY SlotMapped
<1>3. p = 0 \/ p = 1 BY <1>1
<1> QED BY <1>2, <1>3 DEF PadsOf

\* Nothing was heard yet.
LEMMA NothingHeard ==
  Pads!Nothing \in Heards /\ Unheard(Pads!Nothing)
<1>1. <<>> \in Seq({0, 1}) OBVIOUS
<1> QED BY <1>1 DEF Pads!Nothing, Pads!Sports, Pads!Lines, Heards, Unheard

LEMMA SlotEmpty ==
  ASSUME NEW q, NEW d, d \in q.on /\ ~q.JoyLS => Rests(q.pads[d].latched, q.at[d], 0)
  PROVE  SlotGood(q, d, <<>>)
<1>1. Len(<<>>) = 0 /\ 1 .. 0 = {} OBVIOUS
<1> QED BY <1>1 DEF SlotGood

\* What a step comes to: while the ports are torn nothing is remembered, and when
\* they are not what is remembered is right.
LEMMA PadsHeld ==
  ASSUME NEW q, NEW on, NEW pads, NEW JoyLS, NEW pls, NEW wrio, NEW at, NEW heard, NEW torn \in BOOLEAN,
         Made(q, on, pads, JoyLS, pls, wrio, at, heard, torn), torn => Unheard(heard), ~torn => PadsGood(q)
  PROVE  PadsHold(q)
BY DEF Made, PadsHold

LEMMA PadsHeldAre ==
  ASSUME PadsHold(s)
  PROVE  /\ s \in PadsState /\ s.torn \in BOOLEAN
         /\ s.torn => Unheard(s.heard)
         /\ ~s.torn => PadsGood(s)
BY DEF PadsHold, PadsState

LEMMA PadSet ==
  ASSUME PadAssumption, PadsHold(s), NEW d \in PadHot, NEW gamepad \in BOOLEAN, Pads!INPUT_Set(d, gamepad)
  PROVE  PadsHold(s')
<1> DEFINE on == IF gamepad THEN s.on \cup {d} ELSE s.on \ {d}
           pad == IF gamepad THEN Pads!Power(Pads!SetLatch(s.pads[d], s.JoyLS)) ELSE s.pads[d]
           pads == [s.pads EXCEPT ![d] = pad]
           at == [s.at EXCEPT ![d] = Pads!Ones]
           heard == Pads!Forget(d)
           q == s'
<1>1. s \in PadsState /\ s.torn \in BOOLEAN /\ (s.torn => Unheard(s.heard)) /\ (~s.torn => PadsGood(s))
  BY PadsHeldAre
<1>2. d \in PadActive BY DEF PadAssumption
<1>3. s' = [s EXCEPT !.on = on, !.pads = pads, !.JoyLS = s.JoyLS, !.pls = s.pls, !.wrio = s.wrio, !.at = at,
                     !.heard = heard, !.n = s.n, !.torn = s.torn]
  BY <1>1, <1>2 DEF Pads!INPUT_Set, PadsState
<1>4. on \in SUBSET PadActive BY <1>1, <1>2, PadsPresent
<1>5. pad \in PadState /\ (gamepad => pad.pls = s.JoyLS /\ pad.latched = <<>>)
  <2>1. s.pads[d] \in PadState /\ s.JoyLS \in BOOLEAN BY <1>1, <1>2, PadsPresent
  <2>2. /\ Pads!SetLatch(s.pads[d], s.JoyLS) \in PadState /\ Pads!SetLatch(s.pads[d], s.JoyLS).pls = s.JoyLS
    <3> QED BY <2>1, PadLatched
  <2> DEFINE x == Pads!SetLatch(s.pads[d], s.JoyLS)
  <2>3. x \in PadState /\ x.pls = s.JoyLS BY <2>2
  <2> HIDE DEF x
  <2>4. Pads!Power(x) \in PadState /\ Pads!Power(x).pls = x.pls /\ Pads!Power(x).latched = <<>>
    <3> QED BY <2>3, PadPowered, Zenon
  <2> QED BY <2>1, <2>3, <2>4 DEF x
<1> HIDE DEF pad
<1>6. pads \in [PadActive -> PadState] /\ pads[d] = pad /\ \A e \in PadActive : e # d => pads[e] = s.pads[e]
  BY <1>1, <1>2, <1>5, PadsPresent
<1>7. at \in [PadActive -> Buttons] /\ at[d] = Pads!Ones /\ \A e \in PadActive : e # d => at[e] = s.at[e]
  <2>1. Pads!Ones \in Buttons /\ 0 \in Nat BY RestsPowered
  <2>2. s.at \in [PadActive -> Buttons] BY <1>1, PadsPresent
  <2> QED BY <1>2, <2>1, <2>2
<1>8. /\ heard \in Heards
      /\ \A p \in 0 .. 1, iob \in BOOLEAN, line \in 0 .. 1 :
           heard[p][iob][line] = IF Pads!Wired(p, line, iob, s.taps) = d THEN <<>> ELSE s.heard[p][iob][line]
  <2>1. s.heard \in Heards BY <1>1, PadsPresent
  <2>2. <<>> \in Seq({0, 1}) OBVIOUS
  <2> QED BY <2>1, <2>2 DEF Heards, Pads!Forget, Pads!Sports, Pads!Lines
<1>9. \A e : e # d => (e \in on <=> e \in s.on) OBVIOUS
<1>10. d \in on <=> gamepad OBVIOUS
<1> HIDE DEF on, pads, at, heard
<1>11. Made(s', on, pads, s.JoyLS, s.pls, s.wrio, at, heard, s.torn)
  <2>1. /\ s.JoyLS \in BOOLEAN /\ s.pls \in [0 .. 1 -> BOOLEAN] /\ s.wrio \in [0 .. 1 -> BOOLEAN] /\ s.n \in Nat
    BY <1>1, PadsPresent
  <2>2. Made(Rebuilt(on, pads, s.JoyLS, s.pls, s.wrio, at, heard, s.n, s.torn),
           on, pads, s.JoyLS, s.pls, s.wrio, at, heard, s.torn)
    BY <1>1, <1>4, <1>6, <1>7, <1>8, <2>1, PadsMade, SMTT(40)
  <2> QED BY <1>3, <2>2 DEF Rebuilt
<1> HIDE DEF q
<1>12. Made(q, on, pads, s.JoyLS, s.pls, s.wrio, at, heard, s.torn) BY <1>11 DEF q
<1>13. ASSUME PadsGood(s) PROVE StrobesGood(q)
  <2>1. ASSUME NEW e \in PadsOf(q) PROVE q.pads[e].pls = q.JoyLS
    <3>1. e \in on BY <2>1, <1>12 DEF PadsOf, Made
    <3>2. CASE e = d BY <3>1, <3>2, <1>5, <1>6, <1>10, <1>12 DEF Made
    <3>3. CASE e # d
      <4>1. e \in s.on /\ e \in PadActive BY <3>1, <3>3, <1>4, <1>9
      <4>2. e \in PadsOf(s) BY <2>1, <4>1, <1>12 DEF PadsOf, Made
      <4>3. s.pads[e].pls = s.JoyLS BY <4>2, <1>13 DEF PadsGood, StrobesGood
      <4> QED BY <4>1, <4>3, <3>3, <1>6, <1>12 DEF Made
    <3> QED BY <3>2, <3>3
  <2> QED BY <2>1, <1>12, <1>13 DEF PadsGood, StrobesGood, Made
<1>14. ASSUME PadsGood(s) PROVE SlotsGood(q)
  <2>1. SUFFICES ASSUME NEW p \in 0 .. 1, NEW iob \in BOOLEAN, NEW line \in 0 .. 1, IsSlot(s.taps, p, iob, line)
                 PROVE  SlotGood(q, Pads!Wired(p, line, iob, s.taps), heard[p][iob][line])
    BY <1>12 DEF SlotsGood, Made
  <2> DEFINE e == Pads!Wired(p, line, iob, s.taps)
  <2>2. SlotGood(s, e, s.heard[p][iob][line]) BY <2>1, <1>14 DEF PadsGood, SlotsGood
  <2>3. heard[p][iob][line] = IF e = d THEN <<>> ELSE s.heard[p][iob][line] BY <1>8
  <2> HIDE DEF e
  <2>4. CASE e = d
    <3>1. Rests(<<>>, Pads!Ones, 0) BY RestsPowered
    <3>2. e \in q.on => Rests(q.pads[e].latched, q.at[e], 0)
      BY <2>4, <3>1, <1>5, <1>6, <1>7, <1>10, <1>12 DEF Made
    <3>3. SlotGood(q, e, <<>>) BY <3>2, SlotEmpty
    <3> QED BY <2>3, <2>4, <3>3 DEF e
  <2>5. CASE e # d
    <3>1. (e \in q.on <=> e \in s.on) /\ (e \in s.on => q.pads[e] = s.pads[e] /\ q.at[e] = s.at[e]) /\ q.JoyLS = s.JoyLS
      BY <2>5, <1>1, <1>6, <1>7, <1>9, <1>12, PadsPresent DEF Made
    <3>2. SlotGood(q, e, s.heard[p][iob][line]) BY <2>2, <3>1 DEF SlotGood
    <3> QED BY <2>3, <2>5, <3>2 DEF e
  <2> QED BY <2>4, <2>5
<1>15. ~s.torn => PadsGood(q) BY <1>1, <1>12, <1>13, <1>14 DEF PadsGood, Made
<1>16. s.torn => Unheard(heard)
  <2>1. Unheard(s.heard) => Unheard(heard) BY <1>8 DEF Unheard
  <2> QED BY <1>1, <2>1
<1>17. PadsHold(q) BY <1>1, <1>12, <1>15, <1>16, PadsHeld
<1> QED BY <1>17 DEF q

\* What is plugged in and wired stays, and the strobe is where the ports have it.
StrobedTo(pads, JoyLS, pls) ==
  /\ \A p \in 0 .. 1 : pls[p] = (s.taps[p] /\ JoyLS)
  /\ \A d \in Pads!Pads : pads[d].pls = JoyLS

LEMMA StrobesKept ==
  ASSUME NEW q, NEW pads, NEW JoyLS, NEW pls, NEW wrio, NEW at, NEW heard, NEW torn,
         Made(q, s.on, pads, JoyLS, pls, wrio, at, heard, torn), StrobedTo(pads, JoyLS, pls)
  PROVE  StrobesGood(q)
<1>1. q.taps = s.taps /\ q.on = s.on BY DEF Made
<1>2. PadsOf(q) = Pads!Pads BY <1>1, PadsMove
<1> QED BY <1>2 DEF StrobesGood, StrobedTo, Made

\* Either nothing is remembered and the pads are what will be heard, or what is
\* remembered and what will be heard stay.
LEMMA PadsFresh ==
  ASSUME s \in PadsState, NEW q, NEW pads, NEW JoyLS, NEW pls, NEW wrio, NEW at, NEW heard, NEW torn,
         Made(q, s.on, pads, JoyLS, pls, wrio, at, heard, torn), StrobedTo(pads, JoyLS, pls), Unheard(heard),
         \A d \in Pads!Pads : ~JoyLS => Rests(pads[d].latched, at[d], 0)
  PROVE  PadsGood(q)
<1>1. /\ q \in PadsState /\ q.taps = s.taps /\ q.on = s.on /\ q.pads = pads /\ q.JoyLS = JoyLS
      /\ q.at = at /\ q.heard = heard
  BY DEF Made
<1>2. PadsOf(q) = Pads!Pads BY <1>1, PadsMove
<1>3. q.taps \in [0 .. 1 -> BOOLEAN] BY <1>1 DEF PadsState
<1>4. ASSUME NEW p \in 0 .. 1, NEW iob \in BOOLEAN, NEW line \in 0 .. 1, IsSlot(q.taps, p, iob, line)
      PROVE  SlotGood(q, Pads!Wired(p, line, iob, q.taps), q.heard[p][iob][line])
  <2> DEFINE d == Pads!Wired(p, line, iob, q.taps)
  <2>1. d \in q.on => d \in Pads!Pads BY <1>2, <1>3, <1>4, SlotReached
  <2>2. q.heard[p][iob][line] = <<>> BY <1>1 DEF Unheard
  <2> HIDE DEF d
  <2>3. d \in q.on /\ ~q.JoyLS => Rests(q.pads[d].latched, q.at[d], 0) BY <2>1, <1>1
  <2>4. SlotGood(q, d, <<>>) BY <2>3, SlotEmpty
  <2> QED BY <2>2, <2>4 DEF d
<1>5. StrobesGood(q) BY StrobesKept
<1> QED BY <1>1, <1>4, <1>5 DEF PadsGood, SlotsGood

LEMMA PadsSame ==
  ASSUME PadsGood(s), NEW q, NEW pads, NEW JoyLS, NEW pls, NEW wrio, NEW at, NEW torn,
         Made(q, s.on, pads, JoyLS, pls, wrio, at, s.heard, torn), StrobedTo(pads, JoyLS, pls), ~JoyLS => ~s.JoyLS,
         \A d \in Pads!Pads : at[d] = s.at[d] /\ (~JoyLS => pads[d].latched = s.pads[d].latched)
  PROVE  PadsGood(q)
<1>1. /\ q \in PadsState /\ q.taps = s.taps /\ q.on = s.on /\ q.pads = pads /\ q.JoyLS = JoyLS
      /\ q.at = at /\ q.heard = s.heard
  BY DEF Made
<1>2. PadsOf(q) = Pads!Pads BY <1>1, PadsMove
<1>3. q.taps \in [0 .. 1 -> BOOLEAN] BY <1>1 DEF PadsState
<1>4. ASSUME NEW p \in 0 .. 1, NEW iob \in BOOLEAN, NEW line \in 0 .. 1, IsSlot(q.taps, p, iob, line)
      PROVE  SlotGood(q, Pads!Wired(p, line, iob, q.taps), q.heard[p][iob][line])
  <2> DEFINE d == Pads!Wired(p, line, iob, q.taps)
             h == s.heard[p][iob][line]
  <2>1. d \in q.on => d \in Pads!Pads BY <1>2, <1>3, <1>4, SlotReached
  <2>2. SlotGood(s, d, h) BY <1>1, <1>4 DEF PadsGood, SlotsGood
  <2> HIDE DEF d, h
  <2>3. SlotGood(q, d, h) BY <2>1, <2>2, <1>1 DEF SlotGood
  <2> QED BY <2>3, <1>1 DEF d, h
<1>5. StrobesGood(q) BY StrobesKept
<1> QED BY <1>1, <1>4, <1>5 DEF PadsGood, SlotsGood

LEMMA PadsAre ==
  ASSUME PadsGood(s)
  PROVE  /\ s \in PadsState /\ StrobedTo(s.pads, s.JoyLS, s.pls)
         /\ \A d \in Pads!Pads : d \in s.on /\ d \in PadActive /\ s.pads[d] \in PadState /\ s.pads[d].pls = s.JoyLS
<1>1. s \in PadsState /\ StrobesGood(s) BY DEF PadsGood
<1>2. PadsOf(s) = Pads!Pads BY PadsMove
<1>3. StrobedTo(s.pads, s.JoyLS, s.pls) BY <1>1, <1>2 DEF StrobesGood, StrobedTo
<1>4. Pads!Pads \subseteq s.on BY DEF Pads!Pads, Pads!Reached
<1>5. s.on \in SUBSET PadActive /\ s.pads \in [PadActive -> PadState] BY <1>1, PadsPresent
<1> QED BY <1>1, <1>3, <1>4, <1>5 DEF StrobedTo

LEMMA PadsIn ==
  ASSUME s \in PadsState
  PROVE  \A d \in Pads!Pads : d \in s.on /\ d \in PadActive /\ s.pads[d] \in PadState
<1>1. Pads!Pads \subseteq s.on BY DEF Pads!Pads, Pads!Reached
<1>2. s.on \in SUBSET PadActive /\ s.pads \in [PadActive -> PadState] BY PadsPresent
<1> QED BY <1>1, <1>2

LEMMA PadsUpdated ==
  ASSUME PadAssumption, PadsHold(s), NEW buttons \in PadPatterns, Pads!Update(buttons)
  PROVE  PadsHold(s')
<1> DEFINE pads == [d \in PadActive |-> IF d \in s.on THEN Pads!UpdatePhysicalState(s.pads[d], buttons[d])
                                        ELSE s.pads[d]]
<1>0. s \in PadsState /\ s.torn \in BOOLEAN /\ (s.torn => Unheard(s.heard)) /\ (~s.torn => PadsGood(s))
  BY PadsHeldAre
<1>1. s \in PadsState BY <1>0
<1>2. s' = [s EXCEPT !.on = s.on, !.pads = pads, !.JoyLS = s.JoyLS, !.pls = s.pls, !.wrio = s.wrio, !.at = s.at,
                     !.heard = s.heard, !.n = s.n, !.torn = s.torn]
  BY <1>1 DEF Pads!Update, PadsState
<1>3. ASSUME NEW d \in PadActive
      PROVE  /\ pads[d] \in PadState /\ pads[d].pls = s.pads[d].pls
             /\ ~s.pads[d].pls => pads[d].latched = s.pads[d].latched
  <2>1. s.pads[d] \in PadState BY <1>1, PadsPresent
  <2>2. buttons[d] \in Buttons BY DEF PadAssumption, Buttons
  <2>3. TRUE \in BOOLEAN OBVIOUS
  <2>4. /\ Pads!UpdatePhysicalState(s.pads[d], buttons[d]) \in PadState
        /\ Pads!UpdatePhysicalState(s.pads[d], buttons[d]).pls = s.pads[d].pls
        /\ ~s.pads[d].pls => Pads!UpdatePhysicalState(s.pads[d], buttons[d]).latched = s.pads[d].latched
    <3> DEFINE pad == s.pads[d]
               b == buttons[d]
    <3>1. pad \in PadState /\ b \in Buttons BY <2>1, <2>2
    <3> HIDE DEF pad, b
    <3>2. /\ Pads!UpdatePhysicalState(pad, b) \in PadState
          /\ Pads!UpdatePhysicalState(pad, b).pls = pad.pls
          /\ ~pad.pls => Pads!UpdatePhysicalState(pad, b).latched = pad.latched
      BY <3>1, PadGiven
    <3> QED BY <3>2 DEF pad, b
  <2>5. pads[d] = IF d \in s.on THEN Pads!UpdatePhysicalState(s.pads[d], buttons[d]) ELSE s.pads[d] OBVIOUS
  <2> HIDE DEF pads
  <2>6. CASE d \in s.on BY <2>4, <2>5, <2>6
  <2>7. CASE d \notin s.on BY <2>1, <2>5, <2>7
  <2> QED BY <2>6, <2>7
<1>4. pads \in [PadActive -> PadState]
  <2>1. pads = [d \in PadActive |-> pads[d]] OBVIOUS
  <2> HIDE DEF pads
  <2> QED BY <2>1, <1>3
<1> HIDE DEF pads
<1>5. Made(s', s.on, pads, s.JoyLS, s.pls, s.wrio, s.at, s.heard, s.torn)
  <2>1. /\ s.on \in SUBSET PadActive /\ s.JoyLS \in BOOLEAN /\ s.pls \in [0 .. 1 -> BOOLEAN]
        /\ s.wrio \in [0 .. 1 -> BOOLEAN] /\ s.at \in [PadActive -> Buttons] /\ s.heard \in Heards /\ s.n \in Nat
        /\ s.torn \in BOOLEAN
    BY <1>1, PadsPresent
  <2>2. Made(Rebuilt(s.on, pads, s.JoyLS, s.pls, s.wrio, s.at, s.heard, s.n, s.torn),
           s.on, pads, s.JoyLS, s.pls, s.wrio, s.at, s.heard, s.torn)
    BY <1>1, <1>4, <2>1, PadsMade, SMTT(40)
  <2> QED BY <1>2, <2>2 DEF Rebuilt
<1>6. ASSUME PadsGood(s) PROVE PadsGood(s')
  <2>1. StrobedTo(s.pads, s.JoyLS, s.pls) /\ \A d \in Pads!Pads : d \in PadActive /\ s.pads[d].pls = s.JoyLS
    BY <1>6, PadsAre
  <2>2. StrobedTo(pads, s.JoyLS, s.pls) BY <1>3, <2>1 DEF StrobedTo
  <2>3. \A d \in Pads!Pads : s.at[d] = s.at[d] /\ (~s.JoyLS => pads[d].latched = s.pads[d].latched) BY <1>3, <2>1
  <2> QED BY <1>5, <1>6, <2>2, <2>3, PadsSame
<1> QED BY <1>0, <1>5, <1>6, PadsHeld

\* The strobe, as the reached pads see it: it is lowered or stays low, or is raised.
LEMMA PadsStrobed ==
  ASSUME PadAssumption, s \in PadsState, NEW state \in BOOLEAN
  PROVE  /\ Pads!Strobed(s.pads, state) \in [PadActive -> PadState]
         /\ \A d \in Pads!Pads :
              /\ Pads!Strobed(s.pads, state)[d].pls = state
              /\ Pads!Strobed(s.pads, state)[d].latched =
                   IF s.pads[d].pls /\ ~state THEN s.pads[d].buttons ELSE s.pads[d].latched
<1> DEFINE pads == Pads!Strobed(s.pads, state)
<1>1. pads = [d \in PadActive |-> IF d \in Pads!Pads THEN Pads!SetLatch(s.pads[d], state) ELSE s.pads[d]]
  BY DEF Pads!Strobed
<1>2. \A d \in Pads!Pads : d \in PadActive BY PadsIn
<1> HIDE DEF pads
<1>3. ASSUME NEW d \in PadActive
      PROVE  /\ pads[d] \in PadState
             /\ d \in Pads!Pads => pads[d].pls = state
             /\ d \in Pads!Pads => pads[d].latched = IF s.pads[d].pls /\ ~state THEN s.pads[d].buttons ELSE s.pads[d].latched
  <2>1. s.pads[d] \in PadState BY PadsPresent
  <2>2. Pads!Ones \in Buttons /\ 0 \in Nat BY RestsPowered
  <2> DEFINE pad == s.pads[d]
  <2>3. pad \in PadState BY <2>1
  <2> HIDE DEF pad
  <2>4. /\ Pads!SetLatch(pad, state) \in PadState /\ Pads!SetLatch(pad, state).pls = state
        /\ Pads!SetLatch(pad, state).latched = IF pad.pls /\ ~state THEN pad.buttons ELSE pad.latched
    BY <2>3, PadTyped
  <2>5. pads[d] = IF d \in Pads!Pads THEN Pads!SetLatch(pad, state) ELSE pad BY <1>1 DEF pad
  <2>7. /\ pads[d] \in PadState
        /\ d \in Pads!Pads => pads[d].pls = state
        /\ d \in Pads!Pads => pads[d].latched = IF pad.pls /\ ~state THEN pad.buttons ELSE pad.latched
    <3>1. CASE d \in Pads!Pads BY <3>1, <2>4, <2>5
    <3>2. CASE d \notin Pads!Pads BY <3>2, <2>3, <2>5
    <3> QED BY <3>1, <3>2
  <2> QED BY <2>7 DEF pad
<1>4. pads \in [PadActive -> PadState] BY <1>1, <1>3
<1>5. \A d \in Pads!Pads :
        /\ pads[d].pls = state
        /\ pads[d].latched = IF s.pads[d].pls /\ ~state THEN s.pads[d].buttons ELSE s.pads[d].latched
  BY <1>2, <1>3
<1> QED BY <1>4, <1>5 DEF pads

LEMMA PadsLatched ==
  ASSUME PadAssumption, PadsGood(s), NEW state \in BOOLEAN
  PROVE  \A d \in Pads!Pads : Pads!Strobed(s.pads, state)[d].latched =
                                IF s.JoyLS /\ ~state THEN s.pads[d].buttons ELSE s.pads[d].latched
<1>1. s \in PadsState /\ \A d \in Pads!Pads : s.pads[d].pls = s.JoyLS BY PadsAre
<1>2. \A d \in Pads!Pads : Pads!Strobed(s.pads, state)[d].latched =
                              IF s.pads[d].pls /\ ~state THEN s.pads[d].buttons ELSE s.pads[d].latched
  BY <1>1, PadsStrobed
<1> QED BY <1>1, <1>2

\* What is strobed is what the pads have.
LEMMA StrobeTaken ==
  ASSUME PadAssumption, s \in PadsState
  PROVE  /\ Pads!AtStrobe \in [PadActive -> Buttons]
         /\ \A d \in Pads!Pads : /\ Pads!AtStrobe[d] = s.pads[d].buttons /\ s.pads[d].buttons \in Buttons
                                 /\ Rests(s.pads[d].buttons, s.pads[d].buttons, 0)
<1>1. /\ s \in PadsState
      /\ \A d \in Pads!Pads : d \in PadActive
  BY PadsIn
<1>2. s.at \in [PadActive -> Buttons] /\ s.pads \in [PadActive -> PadState] BY <1>1, PadsPresent
<1>3. \A d \in PadActive : s.pads[d].buttons \in Buttons BY <1>2 DEF PadState
<1>4. Pads!AtStrobe \in [PadActive -> Buttons] /\ \A d \in Pads!Pads : Pads!AtStrobe[d] = s.pads[d].buttons
  BY <1>1, <1>2, <1>3 DEF Pads!AtStrobe
<1> QED BY <1>1, <1>3, <1>4, RestsStrobed

LEMMA PadsWritten ==
  ASSUME PadAssumption, PadsHold(s), NEW state \in BOOLEAN, Pads!Write_4016(state)
  PROVE  PadsHold(s')
<1> DEFINE pads == Pads!Strobed(s.pads, state)
           pls == [p \in 0 .. 1 |-> s.taps[p] /\ state]
           falls == s.JoyLS /\ ~state
           at == IF falls THEN Pads!AtStrobe ELSE s.at
           heard == IF falls THEN Pads!Nothing ELSE s.heard
           n == IF falls THEN 0 ELSE s.n
           torn == s.torn /\ ~state
<1>0. s \in PadsState /\ s.torn \in BOOLEAN /\ (s.torn => Unheard(s.heard)) /\ (~s.torn => PadsGood(s))
  BY PadsHeldAre
<1>1. s \in PadsState /\ \A d \in Pads!Pads : d \in PadActive BY <1>0, PadsIn
<1>2. s' = [s EXCEPT !.on = s.on, !.pads = pads, !.JoyLS = state, !.pls = pls, !.wrio = s.wrio, !.at = at,
                     !.heard = heard, !.n = n, !.torn = torn]
  <2> HIDE DEF pads, at, heard, n, pls, torn
  <2>1. s' = [s EXCEPT !.pads = pads, !.JoyLS = state, !.pls = pls, !.at = at, !.heard = heard, !.n = n,
                       !.torn = torn]
    BY <1>1 DEF Pads!Write_4016, Pads!Falls, Pads!Sports, PadsState, pads, at, heard, n, pls, torn
  <2> QED BY <2>1, <1>1 DEF PadsState
<1>3. pads \in [PadActive -> PadState] /\ \A d \in Pads!Pads : pads[d].pls = state BY <1>1, PadsStrobed
<1>4. /\ at \in [PadActive -> Buttons] /\ heard \in Heards /\ n \in Nat /\ torn \in BOOLEAN
      /\ Unheard(s.heard) => Unheard(heard)
  BY <1>0, PadsPresent, StrobeTaken, NothingHeard
<1>5. pls \in [0 .. 1 -> BOOLEAN] /\ \A p \in 0 .. 1 : pls[p] = (s.taps[p] /\ state) BY <1>1, PadsPresent
<1>6. PadsGood(s) => \A d \in Pads!Pads : pads[d].latched = IF falls THEN s.pads[d].buttons ELSE s.pads[d].latched
  BY PadsLatched
<1> HIDE DEF pads, pls
<1>7. StrobedTo(pads, state, pls) BY <1>3, <1>5 DEF StrobedTo
<1>8. Made(s', s.on, pads, state, pls, s.wrio, at, heard, torn)
  <2>1. s.on \in SUBSET PadActive /\ s.wrio \in [0 .. 1 -> BOOLEAN] BY <1>1, PadsPresent
  <2> HIDE DEF at, heard, n, torn
  <2>2. Made(Rebuilt(s.on, pads, state, pls, s.wrio, at, heard, n, torn),
           s.on, pads, state, pls, s.wrio, at, heard, torn)
    BY <1>1, <1>3, <1>4, <1>5, <2>1, PadsMade, SMTT(40)
  <2> QED BY <1>2, <2>2 DEF Rebuilt
<1>9. CASE ~s.torn /\ falls
  <2>1. PadsGood(s) /\ Unheard(heard) BY <1>0, <1>9, NothingHeard
  <2>2. \A d \in Pads!Pads : ~state => Rests(pads[d].latched, at[d], 0) BY <1>1, <1>6, <1>9, <2>1, StrobeTaken
  <2> HIDE DEF at, heard, torn
  <2>3. PadsGood(s') BY <2>1, <2>2, <1>1, <1>7, <1>8, PadsFresh
  <2>4. ~torn BY <1>9 DEF torn
  <2> QED BY <2>3, <2>4, <1>4, <1>8, PadsHeld
<1>10. CASE ~s.torn /\ ~falls
  <2>1. heard = s.heard /\ (~state => ~s.JoyLS) /\ PadsGood(s) /\ ~torn BY <1>0, <1>10
  <2>2. \A d \in Pads!Pads : at[d] = s.at[d] /\ (~state => pads[d].latched = s.pads[d].latched)
    BY <1>6, <1>10, <2>1
  <2> HIDE DEF at, heard, torn
  <2>3. Made(s', s.on, pads, state, pls, s.wrio, at, s.heard, torn) BY <2>1, <1>8
  <2>4. PadsGood(s') BY <2>1, <2>2, <2>3, <1>7, PadsSame
  <2> QED BY <2>1, <2>4, <1>4, <1>8, PadsHeld
<1>11. CASE s.torn
  <2>1. Unheard(heard) /\ (~torn => state) BY <1>0, <1>4, <1>11
  <2> HIDE DEF at, heard, torn
  <2>2. ~torn => \A d \in Pads!Pads : ~state => Rests(pads[d].latched, at[d], 0) BY <2>1
  <2>3. ~torn => PadsGood(s') BY <2>1, <2>2, <1>1, <1>7, <1>8, PadsFresh
  <2> QED BY <2>1, <2>3, <1>4, <1>8, PadsHeld
<1> QED BY <1>9, <1>10, <1>11

LEMMA WrioWritten ==
  ASSUME PadAssumption, PadsHold(s), NEW bits \in [0 .. 1 -> BOOLEAN], Pads!Write_WRIO(bits)
  PROVE  PadsHold(s')
<1>0. s \in PadsState /\ s.torn \in BOOLEAN /\ (s.torn => Unheard(s.heard)) /\ (~s.torn => PadsGood(s))
  BY PadsHeldAre
<1>1. s \in PadsState BY <1>0
<1>2. s' = [s EXCEPT !.on = s.on, !.pads = s.pads, !.JoyLS = s.JoyLS, !.pls = s.pls, !.wrio = bits, !.at = s.at,
                     !.heard = s.heard, !.n = s.n, !.torn = s.torn]
  BY <1>1 DEF Pads!Write_WRIO, PadsState
<1>3. Made(s', s.on, s.pads, s.JoyLS, s.pls, bits, s.at, s.heard, s.torn)
  <2>1. /\ s.on \in SUBSET PadActive /\ s.JoyLS \in BOOLEAN /\ s.pls \in [0 .. 1 -> BOOLEAN]
        /\ s.pads \in [PadActive -> PadState] /\ s.at \in [PadActive -> Buttons] /\ s.heard \in Heards /\ s.n \in Nat
        /\ s.torn \in BOOLEAN
    BY <1>1, PadsPresent
  <2>2. Made(Rebuilt(s.on, s.pads, s.JoyLS, s.pls, bits, s.at, s.heard, s.n, s.torn),
           s.on, s.pads, s.JoyLS, s.pls, bits, s.at, s.heard, s.torn)
    BY <1>1, <2>1, PadsMade, SMTT(40)
  <2> QED BY <1>2, <2>2 DEF Rebuilt
<1>4. \A d \in Pads!Pads : s.at[d] = s.at[d] /\ (~s.JoyLS => s.pads[d].latched = s.pads[d].latched) OBVIOUS
<1>5. ASSUME PadsGood(s) PROVE PadsGood(s')
  <2>1. StrobedTo(s.pads, s.JoyLS, s.pls) BY <1>5, PadsAre
  <2> QED BY <1>3, <1>4, <1>5, <2>1, PadsSame
<1> QED BY <1>0, <1>3, <1>5, PadsHeld

\* The pads after a power-up, all reached ones.
LEMMA PadsPowered ==
  ASSUME PadAssumption, s \in PadsState, NEW pads \in [PadActive -> PadState]
  PROVE  /\ Pads!Powered(pads) \in [PadActive -> PadState]
         /\ \A d \in Pads!Pads : Pads!Powered(pads)[d].pls = pads[d].pls /\ Pads!Powered(pads)[d].latched = <<>>
         /\ [d \in PadActive |-> IF d \in Pads!Pads THEN Pads!Ones ELSE s.at[d]] \in [PadActive -> Buttons]
<1>1. \A d \in Pads!Pads : d \in PadActive BY PadsIn
<1>2. Pads!Ones \in Buttons /\ 0 \in Nat BY RestsPowered
<1>3. ASSUME NEW d \in PadActive
      PROVE Pads!Power(pads[d]) \in PadState /\ Pads!Power(pads[d]).pls = pads[d].pls /\ Pads!Power(pads[d]).latched = <<>>
  <2>1. pads[d] \in PadState /\ TRUE \in BOOLEAN OBVIOUS
  <2> QED BY <2>1, <1>2, PadTyped
<1>4. Pads!Powered(pads) = [d \in PadActive |-> IF d \in Pads!Pads THEN Pads!Power(pads[d]) ELSE pads[d]]
  BY DEF Pads!Powered
<1>5. Pads!Powered(pads) \in [PadActive -> PadState] BY <1>3, <1>4
<1>6. \A d \in Pads!Pads : Pads!Powered(pads)[d].pls = pads[d].pls /\ Pads!Powered(pads)[d].latched = <<>>
  BY <1>1, <1>3, <1>4
<1>7. s.at \in [PadActive -> Buttons] BY PadsPresent
<1> QED BY <1>2, <1>5, <1>6, <1>7

\* What a register has left is what will be heard of it.
LEMMA LeftRests ==
  ASSUME PadAssumption, NEW pad \in PadState
  PROVE  /\ Pads!Left(pad) \in Buttons
         /\ Len(pad.latched) <= PadWidth => Rests(pad.latched, Pads!Left(pad), 0)
<1> DEFINE l == pad.latched
           at == Pads!Left(pad)
<1>1. l \in Seq({0, 1}) /\ PadWidth \in Nat BY DEF PadState, PadAssumption
<1>2. at = [k \in 1 .. PadWidth |-> IF k <= Len(l) THEN l[k] ELSE 1] BY DEF Pads!Left
<1> HIDE DEF l, at
<1>3. ASSUME NEW k \in 1 .. PadWidth PROVE at[k] \in {0, 1} /\ at[k] = IF k <= Len(l) THEN l[k] ELSE 1
  <2>1. at[k] = IF k <= Len(l) THEN l[k] ELSE 1 BY <1>2
  <2>2. k <= Len(l) => l[k] \in {0, 1} BY <1>1
  <2> QED BY <2>1, <2>2
<1>4. at \in Buttons BY <1>2, <1>3 DEF Buttons
<1>5. ASSUME Len(l) <= PadWidth, NEW k \in Nat \ {0} PROVE ToCome(l, k) = Given(at, 0 + k)
  <2>1. 0 + k = k /\ (k > PadWidth => ~(k <= Len(l))) /\ (~(k > PadWidth) => k \in 1 .. PadWidth) BY <1>1, <1>5
  <2> QED BY <2>1, <1>3 DEF ToCome, Given
<1>6. Len(l) <= PadWidth => Rests(l, at, 0) BY <1>5 DEF Rests
<1> QED BY <1>4, <1>6 DEF l, at

\* A pad gets what the state holds of it, or is powered.
LEMMA PadRestored ==
  ASSUME PadAssumption, s \in PadsState, NEW file \in PadSaves, NEW cut, NEW d \in PadActive
  PROVE  /\ Pads!Restored(d, file, cut) \in PadState
         /\ Len(Pads!Restored(d, file, cut).latched) <= PadWidth
         /\ ~(cut > 3 * d + 2) => Pads!Restored(d, file, cut).pls = s.pads[d].pls
<1> DEFINE pad == s.pads[d]
           kept == file.pads[d]
           r == Pads!Restored(d, file, cut)
<1>1. pad \in PadState BY PadsPresent
<1>2. kept \in PadState /\ Len(kept.latched) <= PadWidth BY DEF PadAssumption, PadState, Buttons
<1>3. r = IF cut > 3 * d + 2 THEN kept
          ELSE Pads!Power([pad EXCEPT !.buttons = IF cut > 3 * d + 1 THEN kept.buttons ELSE pad.buttons])
  BY <1>1 DEF Pads!Restored, PadState
<1> HIDE DEF pad, kept, r
<1>4. CASE cut > 3 * d + 2 BY <1>2, <1>3, <1>4 DEF r, pad
<1>5. CASE ~(cut > 3 * d + 2)
  <2> DEFINE b == IF cut > 3 * d + 1 THEN kept.buttons ELSE pad.buttons
             x == [pad EXCEPT !.buttons = b]
  <2>1. b \in Buttons BY <1>1, <1>2 DEF PadState
  <2>2. r = Pads!Power(x) BY <1>3, <1>5
  <2> HIDE DEF b
  <2>3. x \in PadState /\ x.pls = pad.pls BY <2>1, <1>1 DEF PadState
  <2> HIDE DEF x
  <2>4. Pads!Power(x) \in PadState /\ Pads!Power(x).pls = x.pls /\ Pads!Power(x).latched = <<>>
    <3>1. Pads!Ones \in Buttons /\ 0 \in Nat BY RestsPowered
    <3> QED BY <2>3, <3>1, PadTyped
  <2>5. Len(<<>>) <= PadWidth BY DEF PadAssumption
  <2> QED BY <2>2, <2>3, <2>4, <2>5, <1>5 DEF r, pad
<1> QED BY <1>4, <1>5

LEMMA PadsLoaded ==
  ASSUME PadAssumption, PadsHold(s), NEW file \in PadSaves, NEW cut \in PadCuts,
         Pads!INPUT_StateAction(file, cut)
  PROVE  PadsHold(s')
<1> DEFINE JoyLS == IF cut > -2 THEN file.JoyLS ELSE s.JoyLS
           pads == [d \in PadActive |-> IF d \in Pads!Pads THEN Pads!Restored(d, file, cut) ELSE s.pads[d]]
           pls == [p \in 0 .. 1 |-> IF s.taps[p] /\ cut > 3 * Pads!FirstOf(p, s.taps) THEN file.pls[p] ELSE s.pls[p]]
           wrio == [p \in 0 .. 1 |-> IF s.taps[p] /\ cut > -1 THEN file.wrio[p] ELSE s.wrio[p]]
           at == [d \in PadActive |-> IF d \in Pads!Pads THEN Pads!Left(pads[d]) ELSE s.at[d]]
           heard == Pads!Nothing
           agree == Pads!Agree(pads, pls, JoyLS)
           torn == IF cut > -2 THEN ~agree ELSE s.torn
<1>0. s \in PadsState /\ s.torn \in BOOLEAN /\ (s.torn => Unheard(s.heard)) /\ (~s.torn => PadsGood(s))
  BY PadsHeldAre
<1>1. s \in PadsState /\ \A d \in Pads!Pads : d \in PadActive BY <1>0, PadsIn
<1>2. s' = [s EXCEPT !.on = s.on, !.pads = pads, !.JoyLS = JoyLS, !.pls = pls, !.wrio = wrio, !.at = at,
                     !.heard = heard, !.n = 0, !.torn = torn]
  <2>1. s' = [s EXCEPT !.JoyLS = JoyLS, !.pads = pads, !.pls = pls, !.wrio = wrio, !.at = at, !.heard = heard,
                       !.n = 0, !.torn = torn]
    BY <1>1 DEF Pads!INPUT_StateAction, Pads!Sports, PadsState
  <2> HIDE DEF JoyLS, pads, pls, wrio, at, heard, torn
  <2> QED BY <2>1, <1>1 DEF PadsState
<1>3. /\ s.on \in SUBSET PadActive /\ s.JoyLS \in BOOLEAN /\ s.pls \in [0 .. 1 -> BOOLEAN]
      /\ s.pads \in [PadActive -> PadState] /\ s.wrio \in [0 .. 1 -> BOOLEAN] /\ s.at \in [PadActive -> Buttons]
      /\ s.taps \in [0 .. 1 -> BOOLEAN]
  BY <1>1, PadsPresent
<1>4. file.JoyLS \in BOOLEAN /\ file.wrio \in [0 .. 1 -> BOOLEAN] /\ file.pls \in [0 .. 1 -> BOOLEAN]
  BY DEF PadAssumption
<1>5. ASSUME NEW d \in PadActive
      PROVE  /\ pads[d] \in PadState
             /\ d \in Pads!Pads => Len(pads[d].latched) <= PadWidth
             /\ d \in Pads!Pads /\ ~(cut > 3 * d + 2) => pads[d].pls = s.pads[d].pls
  <2> DEFINE r == Pads!Restored(d, file, cut)
  <2>1. /\ r \in PadState /\ Len(r.latched) <= PadWidth
        /\ ~(cut > 3 * d + 2) => r.pls = s.pads[d].pls
    BY <1>1, PadRestored
  <2>2. pads[d] = IF d \in Pads!Pads THEN r ELSE s.pads[d] OBVIOUS
  <2> HIDE DEF r, pads
  <2> QED BY <2>1, <2>2, <1>3
<1>6. pads \in [PadActive -> PadState]
  <2>1. pads = [d \in PadActive |-> pads[d]] OBVIOUS
  <2> HIDE DEF pads
  <2> QED BY <2>1, <1>5
<1>7. ASSUME NEW d \in PadActive
      PROVE  /\ at[d] \in Buttons
             /\ d \in Pads!Pads => Rests(pads[d].latched, at[d], 0)
  <2> DEFINE pad == pads[d]
  <2>1. pad \in PadState /\ (d \in Pads!Pads => Len(pad.latched) <= PadWidth) BY <1>5
  <2>2. at[d] = IF d \in Pads!Pads THEN Pads!Left(pad) ELSE s.at[d] OBVIOUS
  <2>3. s.at[d] \in Buttons BY <1>3
  <2> HIDE DEF pad, at
  <2>4. Pads!Left(pad) \in Buttons /\ (Len(pad.latched) <= PadWidth => Rests(pad.latched, Pads!Left(pad), 0))
    BY <2>1, LeftRests
  <2>5. at[d] \in Buttons /\ (d \in Pads!Pads => Rests(pad.latched, at[d], 0)) BY <2>1, <2>2, <2>3, <2>4
  <2> QED BY <2>5 DEF pad
<1>8. at \in [PadActive -> Buttons]
  <2>1. at = [d \in PadActive |-> at[d]] OBVIOUS
  <2> HIDE DEF at
  <2> QED BY <2>1, <1>7
<1>9. JoyLS \in BOOLEAN /\ pls \in [0 .. 1 -> BOOLEAN] /\ wrio \in [0 .. 1 -> BOOLEAN] BY <1>3, <1>4
<1>10. heard \in Heards /\ Unheard(heard) BY NothingHeard
<1>11. agree = ((\A d \in Pads!Pads : pads[d].pls = JoyLS) /\ \A p \in 0 .. 1 : pls[p] = (s.taps[p] /\ JoyLS))
  BY DEF Pads!Agree, Pads!Sports
<1>12. ASSUME cut = -2, PadsGood(s) PROVE StrobedTo(pads, JoyLS, pls)
  <2>1. StrobedTo(s.pads, s.JoyLS, s.pls) /\ \A d \in Pads!Pads : s.pads[d].pls = s.JoyLS BY <1>12, PadsAre
  <2>2. JoyLS = s.JoyLS BY <1>12
  <2>3. ASSUME NEW d \in Pads!Pads PROVE pads[d].pls = s.pads[d].pls
    <3>1. d \in Pads!Mapped(0, s.taps) \/ d \in Pads!Mapped(1, s.taps) BY DEF Pads!Pads, Pads!Reached
    <3>2. d \in Nat
      <4>1. 0 \in 0 .. 1 /\ 1 \in 0 .. 1 OBVIOUS
      <4>2. CASE d \in Pads!Mapped(0, s.taps)
        <5>1. IF s.taps[0] THEN d \in 0 .. 3 ELSE d = 0 BY <4>1, <4>2, <1>3, MappedIs
        <5> QED BY <5>1
      <4>3. CASE d \in Pads!Mapped(1, s.taps)
        <5> DEFINE first == IF s.taps[0] THEN 4 ELSE 1
        <5>1. IF s.taps[1] THEN d \in first .. (IF s.taps[0] THEN 7 ELSE 4) ELSE d = first
          BY <4>1, <4>3, <1>3, MappedIs
        <5> QED BY <5>1
      <4> QED BY <3>1, <4>2, <4>3
    <3>3. ~(cut > 3 * d + 2) BY <3>2, <1>12
    <3> HIDE DEF pads
    <3> QED BY <3>3, <1>1, <1>5
  <2>4. ASSUME NEW p \in 0 .. 1 PROVE pls[p] = s.pls[p]
    <3>1. Pads!FirstOf(p, s.taps) \in {0, 1, 4} BY DEF Pads!FirstOf
    <3>2. ~(cut > 3 * Pads!FirstOf(p, s.taps)) BY <3>1, <1>12
    <3> QED BY <3>2
  <2> HIDE DEF pads, pls, JoyLS
  <2> QED BY <2>1, <2>2, <2>3, <2>4 DEF StrobedTo
<1> HIDE DEF pads, pls, wrio, at, heard, agree
<1>13. torn \in BOOLEAN BY <1>0, <1>11
<1>14. ~torn => StrobedTo(pads, JoyLS, pls)
  <2>1. CASE cut > -2 BY <2>1, <1>11 DEF StrobedTo
  <2>2. CASE ~(cut > -2)
    <3>1. cut = -2 BY <2>2 DEF PadAssumption
    <3>2. ~torn => PadsGood(s) BY <2>2, <1>0
    <3> HIDE DEF torn, JoyLS
    <3> QED BY <3>1, <3>2, <1>12
  <2> QED BY <2>1, <2>2
<1> HIDE DEF JoyLS, torn
<1>15. Made(s', s.on, pads, JoyLS, pls, wrio, at, heard, torn)
  <2>1. /\ s \in PadsState /\ s.on \in SUBSET PadActive /\ pads \in [PadActive -> PadState] /\ JoyLS \in BOOLEAN
        /\ pls \in [0 .. 1 -> BOOLEAN] /\ wrio \in [0 .. 1 -> BOOLEAN] /\ at \in [PadActive -> Buttons]
        /\ heard \in Heards /\ 0 \in Nat /\ torn \in BOOLEAN
    BY <1>1, <1>3, <1>6, <1>8, <1>9, <1>10, <1>13
  <2> DEFINE r == Rebuilt(s.on, pads, JoyLS, pls, wrio, at, heard, 0, torn)
  <2>2. r \in PadsState BY <2>1 DEF PadsState, Heards, Rebuilt
  <2>3. /\ r.taps = s.taps /\ r.on = s.on /\ r.pads = pads /\ r.JoyLS = JoyLS /\ r.pls = pls /\ r.wrio = wrio
        /\ r.at = at /\ r.heard = heard /\ r.torn = torn
    BY <2>1 DEF PadsState, Rebuilt
  <2>4. s' = r BY <1>2 DEF Rebuilt
  <2> HIDE DEF r
  <2> QED BY <2>2, <2>3, <2>4 DEF Made
<1>16. \A d \in Pads!Pads : ~JoyLS => Rests(pads[d].latched, at[d], 0) BY <1>1, <1>7
<1>17. ~torn => PadsGood(s') BY <1>1, <1>10, <1>14, <1>15, <1>16, PadsFresh
<1> QED BY <1>10, <1>13, <1>15, <1>17, PadsHeld

LEMMA PadsReset ==
  ASSUME PadAssumption, PadsHold(s), NEW powering_up \in BOOLEAN, Pads!INPUT_Reset(powering_up)
  PROVE  PadsHold(s')
<1> DEFINE low == Pads!Strobed(s.pads, FALSE)
           pads == IF powering_up THEN Pads!Powered(low) ELSE low
           pls == [p \in 0 .. 1 |-> FALSE]
           wrio == IF powering_up THEN [p \in 0 .. 1 |-> TRUE] ELSE s.wrio
           ones == [d \in PadActive |-> IF d \in Pads!Pads THEN Pads!Ones ELSE s.at[d]]
           at == IF powering_up THEN ones ELSE IF s.JoyLS THEN Pads!AtStrobe ELSE s.at
           heard == IF powering_up \/ s.JoyLS THEN Pads!Nothing ELSE s.heard
           n == IF powering_up \/ s.JoyLS THEN 0 ELSE s.n
           torn == s.torn /\ ~powering_up
           down == FALSE
<1>0. s \in PadsState /\ s.torn \in BOOLEAN /\ (s.torn => Unheard(s.heard)) /\ (~s.torn => PadsGood(s))
  BY PadsHeldAre
<1>1. s \in PadsState /\ \A d \in Pads!Pads : d \in PadActive BY <1>0, PadsIn
<1>2. s' = [s EXCEPT !.on = s.on, !.pads = pads, !.JoyLS = FALSE, !.pls = pls, !.wrio = wrio, !.at = at,
                     !.heard = heard, !.n = n, !.torn = torn]
  <2> HIDE DEF pads, at, heard, n, pls, wrio, torn
  <2>1. s' = [s EXCEPT !.JoyLS = FALSE, !.pls = pls, !.wrio = wrio, !.pads = pads, !.at = at, !.heard = heard, !.n = n,
                       !.torn = torn]
    BY <1>1 DEF Pads!INPUT_Reset, Pads!Sports, PadsState, pads, at, heard, n, pls, wrio, torn
  <2> QED BY <2>1, <1>1 DEF PadsState
<1>3. low \in [PadActive -> PadState] /\ \A d \in Pads!Pads : low[d].pls = FALSE BY <1>1, PadsStrobed
<1>4. PadsGood(s) =>
        \A d \in Pads!Pads : low[d].latched = IF s.JoyLS THEN s.pads[d].buttons ELSE s.pads[d].latched
  BY PadsLatched
<1> HIDE DEF low
<1>5. /\ Pads!Powered(low) \in [PadActive -> PadState] /\ ones \in [PadActive -> Buttons]
      /\ \A d \in Pads!Pads : Pads!Powered(low)[d].pls = FALSE /\ Pads!Powered(low)[d].latched = <<>>
  BY <1>1, <1>3, PadsPowered
<1>6. \A d \in Pads!Pads : ones[d] = Pads!Ones BY <1>1
<1> HIDE DEF ones
<1>7. pads \in [PadActive -> PadState] /\ \A d \in Pads!Pads : pads[d].pls = FALSE BY <1>3, <1>5
<1>8. /\ at \in [PadActive -> Buttons] /\ heard \in Heards /\ n \in Nat /\ torn \in BOOLEAN
      /\ Unheard(s.heard) => Unheard(heard)
  BY <1>0, <1>5, PadsPresent, StrobeTaken, NothingHeard
<1>9. pls \in [0 .. 1 -> BOOLEAN] /\ wrio \in [0 .. 1 -> BOOLEAN] /\ \A p \in 0 .. 1 : pls[p] = FALSE
  BY <1>1, PadsPresent
<1> HIDE DEF pls, wrio
<1>10. StrobedTo(pads, FALSE, pls) BY <1>7, <1>9 DEF StrobedTo
<1>11. Made(s', s.on, pads, FALSE, pls, wrio, at, heard, torn)
  <2>0. s.on \in SUBSET PadActive /\ down \in BOOLEAN BY <1>1, PadsPresent
  <2> HIDE DEF at, heard, n, pads, torn
  <2>1. /\ s \in PadsState /\ s.on \in SUBSET PadActive /\ pads \in [PadActive -> PadState] /\ down \in BOOLEAN
        /\ pls \in [0 .. 1 -> BOOLEAN] /\ wrio \in [0 .. 1 -> BOOLEAN] /\ at \in [PadActive -> Buttons]
        /\ heard \in Heards /\ n \in Nat /\ torn \in BOOLEAN
    BY <1>1, <1>7, <1>8, <1>9, <2>0
  <2> HIDE DEF down
  <2>2. Made(Rebuilt(s.on, pads, down, pls, wrio, at, heard, n, torn),
           s.on, pads, down, pls, wrio, at, heard, torn)
    BY <2>1, PadsMade, SMTT(40)
  <2> USE DEF down
  <2> QED BY <1>2, <2>2 DEF Rebuilt
<1>12. CASE powering_up \/ (s.JoyLS /\ ~s.torn)
  <2>1. Unheard(heard) /\ ~torn BY <1>12, NothingHeard
  <2>2. \A d \in Pads!Pads : Rests(pads[d].latched, at[d], 0)
    <3>1. 0 \in Nat /\ Rests(<<>>, Pads!Ones, 0) BY RestsPowered
    <3>2. CASE powering_up BY <3>1, <3>2, <1>5, <1>6
    <3>3. CASE ~powering_up
      <4>1. PadsGood(s) /\ s.JoyLS BY <3>3, <1>0, <1>12
      <4> QED BY <3>3, <4>1, <1>1, <1>4, StrobeTaken
    <3> QED BY <3>2, <3>3
  <2> HIDE DEF at, heard, pads, torn
  <2>3. \A d \in Pads!Pads : ~down => Rests(pads[d].latched, at[d], 0) BY <2>2
  <2>4. Made(s', s.on, pads, down, pls, wrio, at, heard, torn) /\ StrobedTo(pads, down, pls) BY <1>10, <1>11
  <2> HIDE DEF down
  <2>5. PadsGood(s') BY <2>1, <2>3, <2>4, <1>1, PadsFresh
  <2> QED BY <2>1, <2>4, <2>5, <1>8, PadsHeld
<1>13. CASE ~powering_up /\ ~s.JoyLS /\ ~s.torn
  <2>1. heard = s.heard /\ (~down => ~s.JoyLS) /\ PadsGood(s) /\ ~torn BY <1>0, <1>13
  <2>2. \A d \in Pads!Pads : at[d] = s.at[d] /\ (~down => pads[d].latched = s.pads[d].latched)
    BY <1>4, <1>13, <2>1
  <2> HIDE DEF at, heard, pads, torn
  <2>3. Made(s', s.on, pads, down, pls, wrio, at, s.heard, torn) /\ StrobedTo(pads, down, pls)
    BY <2>1, <1>10, <1>11
  <2> HIDE DEF down
  <2>4. PadsGood(s') BY <2>1, <2>2, <2>3, PadsSame
  <2> QED BY <2>1, <2>3, <2>4, <1>8, PadsHeld
<1>14. CASE ~powering_up /\ s.torn
  <2>1. torn /\ Unheard(heard) BY <1>0, <1>8, <1>14
  <2> HIDE DEF at, heard, pads, torn
  <2> QED BY <2>1, <1>8, <1>11, PadsHeld
<1> QED BY <1>12, <1>13, <1>14

\* The pads that a read of port p shifts.
Wired(p) == {d \in PadActive : d \in s.on /\ \E line \in Pads!Live(p) : Pads!Wired(p, line, s.wrio[p], s.taps) = d}
Front(p, line) == Pads!Wired(p, line, s.wrio[p], s.taps)

LEMMA FrontIs ==
  ASSUME s \in PadsState, NEW p \in 0 .. 1
  PROVE  /\ Pads!Pair(p) \in BOOLEAN
         /\ \A line \in Pads!Live(p) : /\ IsSlot(s.taps, p, Pads!Pair(p), line) /\ line \in 0 .. 1
                                       /\ Front(p, line) = Pads!Wired(p, line, Pads!Pair(p), s.taps)
                                       /\ Front(p, line) \in Pads!Mapped(p, s.taps)
         /\ \A iob \in BOOLEAN, line \in 0 .. 1 : IsSlot(s.taps, p, iob, line) => line \in Pads!Live(p)
         /\ Wired(p) \subseteq Pads!Reached(p)
<1>1. s.taps \in [0 .. 1 -> BOOLEAN] /\ s.wrio \in [0 .. 1 -> BOOLEAN] BY PadsPresent
<1>2. Pads!Pair(p) \in BOOLEAN /\ (s.taps[p] => Pads!Pair(p) = s.wrio[p]) /\ (~s.taps[p] => Pads!Pair(p) = TRUE)
  BY <1>1 DEF Pads!Pair
<1>3. Pads!Live(p) = IF s.taps[p] THEN 0 .. 1 ELSE {0} BY DEF Pads!Live, Pads!Lines
<1>4. ASSUME NEW line \in Pads!Live(p)
      PROVE  /\ IsSlot(s.taps, p, Pads!Pair(p), line) /\ line \in 0 .. 1
             /\ Front(p, line) = Pads!Wired(p, line, Pads!Pair(p), s.taps)
             /\ Front(p, line) \in Pads!Mapped(p, s.taps)
  <2>1. line \in 0 .. 1 /\ (~s.taps[p] => line = 0) BY <1>3
  <2>2. IsSlot(s.taps, p, Pads!Pair(p), line) BY <2>1, <1>2 DEF IsSlot
  <2>3. Front(p, line) = Pads!Wired(p, line, Pads!Pair(p), s.taps) BY <1>2 DEF Front, Pads!Wired
  <2>4. Pads!Wired(p, line, Pads!Pair(p), s.taps) \in Pads!Mapped(p, s.taps) BY <2>2, <1>1, SlotMapped
  <2> QED BY <2>1, <2>2, <2>3, <2>4
<1>5. \A iob \in BOOLEAN, line \in 0 .. 1 : IsSlot(s.taps, p, iob, line) => line \in Pads!Live(p) BY <1>3 DEF IsSlot
<1>6. Wired(p) \subseteq Pads!Reached(p) BY <1>4 DEF Wired, Front, Pads!Reached
<1> QED BY <1>2, <1>4, <1>5, <1>6

\* A read of port p, of whatever the pads are.
LEMMA PortRead ==
  ASSUME PadAssumption, s \in PadsState, NEW p \in 0 .. 1, NEW pads \in [PadActive -> PadState]
  PROVE  /\ Pads!Shift(p, pads) \in [PadActive -> PadState]
         /\ \A d \in PadActive : Pads!Shift(p, pads)[d] = IF d \in Wired(p) THEN Pads!Shifted(pads[d]) ELSE pads[d]
         /\ \A line \in 0 .. 1, strobed \in BOOLEAN : Pads!Shown(p, line, pads, strobed) \in {0, 1}
         /\ \A line \in Pads!Live(p) :
              Pads!Shown(p, line, pads, FALSE) = IF Front(p, line) \in s.on THEN Pads!Bit(pads[Front(p, line)]) ELSE 0
<1>1. s.on \in SUBSET PadActive BY PadsPresent
<1>2. ASSUME NEW d \in PadActive
      PROVE Pads!Shifted(pads[d]) \in PadState /\ Pads!Bit(pads[d]) \in {0, 1} /\ pads[d] \in PadState
  <2> DEFINE pad == pads[d]
  <2>1. pad \in PadState OBVIOUS
  <2>2. TRUE \in BOOLEAN OBVIOUS
  <2> HIDE DEF pad
  <2>3. Pads!Shifted(pad) \in PadState BY <2>1, <2>2, PadTyped
  <2>4. pad.latched \in Seq({0, 1}) BY <2>1 DEF PadState
  <2>5. Pads!Bit(pad) \in {0, 1} BY <2>4 DEF Pads!Bit
  <2> QED BY <2>1, <2>3, <2>5 DEF pad
<1>3. Pads!Shift(p, pads) = [d \in PadActive |-> IF d \in Wired(p) THEN Pads!Shifted(pads[d]) ELSE pads[d]]
  BY DEF Pads!Shift, Wired
<1>4. Pads!Shift(p, pads) \in [PadActive -> PadState] BY <1>2, <1>3
<1>5. \A d \in PadActive : Pads!Shift(p, pads)[d] = IF d \in Wired(p) THEN Pads!Shifted(pads[d]) ELSE pads[d] BY <1>3
<1>6. ASSUME NEW line \in 0 .. 1, NEW strobed \in BOOLEAN PROVE Pads!Shown(p, line, pads, strobed) \in {0, 1}
  <2>1. Pads!Shown(p, line, pads, strobed) =
          IF s.taps[p] /\ strobed THEN line
          ELSE IF line \notin Pads!Live(p) \/ Front(p, line) \notin s.on THEN 0 ELSE Pads!Bit(pads[Front(p, line)])
    BY DEF Pads!Shown, Front
  <2>2. Front(p, line) \in s.on => Pads!Bit(pads[Front(p, line)]) \in {0, 1} BY <1>1, <1>2
  <2> QED BY <2>1, <2>2
<1>7. \A line \in Pads!Live(p) :
        Pads!Shown(p, line, pads, FALSE) = IF Front(p, line) \in s.on THEN Pads!Bit(pads[Front(p, line)]) ELSE 0
  BY DEF Pads!Shown, Front
<1> QED BY <1>4, <1>5, <1>6, <1>7

LEMMA ShiftedKeeps ==
  ASSUME PadAssumption, NEW pad \in PadState
  PROVE  /\ Pads!Shifted(pad) \in PadState /\ Pads!Shifted(pad).pls = pad.pls
         /\ Pads!Shifted(pad).buttons = pad.buttons
         /\ pad.pls => Pads!Shifted(pad).latched = pad.latched
<1>1. TRUE \in BOOLEAN OBVIOUS
<1>2. pad.pls => Pads!Shifted(pad).latched = pad.latched BY DEF Pads!Shifted, PadState
<1> QED BY <1>1, <1>2, PadTyped

\* While the strobe is down a read adds a bit.
LEMMA ReadHeard ==
  ASSUME PadAssumption, PadsGood(s), ~s.JoyLS, NEW p \in 0 .. 1, NEW q, NEW pads, NEW heard, NEW torn,
         pads = Pads!Shift(p, s.pads), heard = Pads!Heard(s.heard, p),
         Made(q, s.on, pads, s.JoyLS, s.pls, s.wrio, s.at, heard, torn)
  PROVE  PadsGood(q)
<1>1. s \in PadsState /\ StrobesGood(s) /\ SlotsGood(s) BY DEF PadsGood
<1>2. /\ s.on \in SUBSET PadActive /\ s.pads \in [PadActive -> PadState] /\ s.heard \in Heards
      /\ s.taps \in [0 .. 1 -> BOOLEAN] /\ s.at \in [PadActive -> Buttons]
  BY <1>1, PadsPresent
<1>3. s.pls[p] = FALSE BY <1>1 DEF StrobesGood
<1>4. \A d \in PadActive : pads[d] = IF d \in Wired(p) THEN Pads!Shifted(s.pads[d]) ELSE s.pads[d]
  BY <1>1, <1>2, PortRead
<1>5. /\ q \in PadsState /\ q.taps = s.taps /\ q.on = s.on /\ q.pads = pads /\ q.JoyLS = s.JoyLS /\ q.pls = s.pls
      /\ q.at = s.at /\ q.heard = heard
  BY DEF Made
<1>6. PadsOf(q) = Pads!Pads BY <1>5, PadsMove
<1>7. \A d \in Pads!Pads : d \in s.on /\ d \in PadActive /\ s.pads[d] \in PadState /\ s.pads[d].pls = FALSE BY PadsAre
<1>8. StrobesGood(q)
  <2>1. ASSUME NEW d \in Pads!Pads PROVE pads[d].pls = FALSE
    <3> DEFINE pad == s.pads[d]
    <3>1. pad \in PadState /\ pad.pls = FALSE /\ pads[d] = IF d \in Wired(p) THEN Pads!Shifted(pad) ELSE pad
      BY <1>4, <1>7
    <3> HIDE DEF pad
    <3>2. Pads!Shifted(pad).pls = pad.pls BY <3>1, ShiftedKeeps
    <3> QED BY <3>1, <3>2
  <2>2. s.JoyLS = FALSE BY <1>1 DEF PadsState
  <2> QED BY <2>1, <2>2, <1>1, <1>5, <1>6 DEF StrobesGood
<1>9. /\ Pads!Pair(p) \in BOOLEAN
      /\ \A r \in 0 .. 1, iob \in BOOLEAN, line \in 0 .. 1 :
           heard[r][iob][line] = IF r = p /\ iob = Pads!Pair(p)
                                 THEN Append(s.heard[r][iob][line], Pads!Shown(p, line, s.pads, FALSE))
                                 ELSE s.heard[r][iob][line]
  <2>1. Pads!Pair(p) \in BOOLEAN BY <1>1, FrontIs
  <2> DEFINE pair == Pads!Pair(p)
             line1 == [line \in 0 .. 1 |-> Append(s.heard[p][pair][line], Pads!Shown(p, line, s.pads, FALSE))]
  <2>2. pair \in BOOLEAN /\ heard = [s.heard EXCEPT ![p][pair] = line1]
    BY <2>1, <1>3 DEF Pads!Heard, Pads!Lines
  <2>3. s.heard \in [0 .. 1 -> [BOOLEAN -> [0 .. 1 -> Seq({0, 1})]]] BY <1>2 DEF Heards
  <2> HIDE DEF pair
  <2>4. \A line \in 0 .. 1 : line1[line] = Append(s.heard[p][pair][line], Pads!Shown(p, line, s.pads, FALSE)) BY Zenon
  <2> HIDE DEF line1
  <2>5. \A r \in 0 .. 1, iob \in BOOLEAN, line \in 0 .. 1 :
          heard[r][iob][line] = IF r = p /\ iob = pair THEN line1[line] ELSE s.heard[r][iob][line]
    <3>1. ASSUME NEW r \in 0 .. 1, NEW iob \in BOOLEAN
          PROVE heard[r][iob] = IF r = p /\ iob = pair THEN line1 ELSE s.heard[r][iob]
      BY <2>2, <2>3
    <3> QED BY <3>1
  <2> QED BY ZenonT(30), <2>1, <2>4, <2>5 DEF pair
<1>10. ASSUME NEW r \in 0 .. 1, NEW iob \in BOOLEAN, NEW line \in 0 .. 1, IsSlot(s.taps, r, iob, line)
       PROVE  SlotGood(q, Pads!Wired(r, line, iob, s.taps), heard[r][iob][line])
  <2> DEFINE d == Pads!Wired(r, line, iob, s.taps)
             h == s.heard[r][iob][line]
  <2>1. SlotGood(s, d, h) BY <1>1, <1>10 DEF SlotsGood
  <2>2. h \in Seq({0, 1}) BY <1>2 DEF Heards
  <2>3. d \in s.on => d \in Pads!Pads
    <3>1. d \in PadsOf(s) \/ d \notin s.on BY <1>2, <1>10, SlotReached
    <3> QED BY <3>1, PadsMove
  <2>4. CASE r = p /\ iob = Pads!Pair(p)
    <3> DEFINE bit == Pads!Shown(p, line, s.pads, FALSE)
               now == Append(h, bit)
    <3>1. line \in Pads!Live(p) BY <1>1, <1>10, <2>4, FrontIs
    <3>2. Front(p, line) = d BY <1>1, <2>4, <3>1, FrontIs
    <3>3. bit \in {0, 1} BY <1>1, <1>2, PortRead
    <3>4. bit = IF d \in s.on THEN Pads!Bit(s.pads[d]) ELSE 0
      <4>1. \A l \in Pads!Live(p) : Pads!Shown(p, l, s.pads, FALSE) =
                                    IF Front(p, l) \in s.on THEN Pads!Bit(s.pads[Front(p, l)]) ELSE 0
        BY <1>1, <1>2, PortRead
      <4> HIDE DEF d
      <4> QED BY <3>1, <3>2, <4>1
    <3>5. heard[r][iob][line] = now BY <1>9, <2>4
    <3>6. d \in s.on => d \in Wired(p)
      <4>1. Pads!Wired(p, line, s.wrio[p], s.taps) = d BY <3>2 DEF Front
      <4> QED BY <3>1, <4>1, <1>2 DEF Wired
    <3> HIDE DEF bit, d, h
    <3>7. Len(now) = Len(h) + 1 /\ Len(h) \in Nat /\ now[Len(h) + 1] = bit /\ \A i \in 1 .. Len(h) : now[i] = h[i]
      BY <2>2, <3>3
    <3> HIDE DEF now
    <3>8. \A i \in 1 .. Len(now) : i \in 1 .. Len(h) \/ i = Len(h) + 1 BY <3>7
    <3>9. CASE d \notin s.on
      <4>1. \A i \in 1 .. Len(h) : h[i] = 0 BY <2>1, <3>9 DEF SlotGood
      <4>2. \A i \in 1 .. Len(now) : now[i] = 0 BY <4>1, <3>4, <3>7, <3>8, <3>9
      <4>3. SlotGood(q, d, now) BY <4>2, <3>9, <1>5 DEF SlotGood
      <4> QED BY <4>3, <3>5 DEF d
    <3>10. CASE d \in s.on
      <4> DEFINE pad == s.pads[d]
                 a == s.at[d]
      <4>1. pad \in PadState /\ ~pad.pls BY <1>7, <2>3, <3>10
      <4>2. pads[d] = Pads!Shifted(pad) BY <1>2, <1>4, <3>6, <3>10
      <4>3. (\A i \in 1 .. Len(h) : h[i] = Given(a, i)) /\ Rests(pad.latched, a, Len(h)) BY <2>1, <3>10 DEF SlotGood
      <4>4. bit = Pads!Bit(pad) BY <3>4, <3>10
      <4> HIDE DEF pad, a
      <4>5. Pads!Bit(pad) = Given(a, Len(h) + 1) /\ Rests(Pads!Shifted(pad).latched, a, Len(h) + 1)
        BY <4>1, <4>3, <3>7, RestsShifted
      <4>6. \A i \in 1 .. Len(now) : now[i] = Given(a, i) BY <4>3, <4>4, <4>5, <3>7, <3>8
      <4>7. q.at[d] = a /\ q.pads[d] = Pads!Shifted(pad) /\ d \in q.on BY <4>2, <3>10, <1>5 DEF a
      <4>8. SlotGood(q, d, now) BY <4>5, <4>6, <4>7, <3>7 DEF SlotGood
      <4> QED BY <4>8, <3>5 DEF d
    <3> QED BY <3>9, <3>10
  <2>5. CASE ~(r = p /\ iob = Pads!Pair(p))
    <3>1. heard[r][iob][line] = h BY <1>9, <2>5
    <3>2. d \notin Wired(p)
      <4>1. SUFFICES ASSUME d \in Wired(p) PROVE FALSE OBVIOUS
      <4>2. PICK mine \in Pads!Live(p) : Front(p, mine) = d BY <4>1 DEF Wired, Front
      <4>3. IsSlot(s.taps, p, Pads!Pair(p), mine) /\ Pads!Wired(p, mine, Pads!Pair(p), s.taps) = d
        BY <4>2, <1>1, FrontIs
      <4>4. r = p /\ iob = Pads!Pair(p) BY <4>3, <1>2, <1>10, SlotOnce
      <4> QED BY <4>4, <2>5
    <3> HIDE DEF d, h
    <3>3. d \in s.on => pads[d] = s.pads[d] BY <3>2, <1>2, <1>4
    <3>4. SlotGood(q, d, h) BY <2>1, <3>3, <1>5 DEF SlotGood
    <3> QED BY <3>1, <3>4 DEF d
  <2> QED BY <2>4, <2>5
<1>11. SlotsGood(q) BY <1>5, <1>10 DEF SlotsGood
<1> QED BY <1>5, <1>8, <1>11 DEF PadsGood

LEMMA PadsRead ==
  ASSUME PadAssumption, PadsHold(s), NEW p \in 0 .. 1, Pads!ReadPort(p)
  PROVE  PadsHold(s')
<1> DEFINE pads == Pads!Shift(p, s.pads)
           heard == IF s.JoyLS \/ s.torn THEN s.heard ELSE Pads!Heard(s.heard, p)
           n == s.n + 1
<1>0. s \in PadsState /\ s.torn \in BOOLEAN /\ (s.torn => Unheard(s.heard)) /\ (~s.torn => PadsGood(s))
  BY PadsHeldAre
<1>1. s \in PadsState BY <1>0
<1>2. s' = [s EXCEPT !.on = s.on, !.pads = pads, !.JoyLS = s.JoyLS, !.pls = s.pls, !.wrio = s.wrio, !.at = s.at,
                     !.heard = heard, !.n = n, !.torn = s.torn]
  <2> HIDE DEF pads, heard, n
  <2>1. s' = [s EXCEPT !.pads = pads, !.n = n, !.heard = heard]
    BY <1>1 DEF Pads!ReadPort, PadsState, pads, heard, n
  <2> QED BY <2>1, <1>1 DEF PadsState
<1>3. /\ s.on \in SUBSET PadActive /\ s.JoyLS \in BOOLEAN /\ s.pls \in [0 .. 1 -> BOOLEAN]
      /\ s.pads \in [PadActive -> PadState] /\ s.wrio \in [0 .. 1 -> BOOLEAN]
      /\ s.at \in [PadActive -> Buttons] /\ s.heard \in Heards /\ s.n \in Nat /\ s.torn \in BOOLEAN
  BY <1>1, PadsPresent
<1>4. pads \in [PadActive -> PadState] BY <1>1, <1>3, PortRead
<1>5. heard \in Heards
  <2> DEFINE line1 == [line \in 0 .. 1 |-> Append(s.heard[p][Pads!Pair(p)][line], Pads!Shown(p, line, s.pads, s.pls[p]))]
  <2>1. Pads!Pair(p) \in BOOLEAN BY <1>1, FrontIs
  <2>2. Pads!Heard(s.heard, p) = [s.heard EXCEPT ![p] = [s.heard[p] EXCEPT ![Pads!Pair(p)] = line1]]
    BY <1>3, <2>1 DEF Pads!Heard, Pads!Lines, Heards
  <2>3. ASSUME NEW line \in 0 .. 1 PROVE line1[line] \in Seq({0, 1})
    <3>0. s.heard[p] \in [BOOLEAN -> [0 .. 1 -> Seq({0, 1})]] BY <1>3 DEF Heards
    <3>1. s.heard[p][Pads!Pair(p)][line] \in Seq({0, 1}) BY <3>0, <2>1
    <3>2. Pads!Shown(p, line, s.pads, s.pls[p]) \in {0, 1} BY <1>1, <1>3, PortRead
    <3> QED BY <3>1, <3>2
  <2>4. line1 \in [0 .. 1 -> Seq({0, 1})] BY <2>3
  <2> HIDE DEF line1
  <2>5. [s.heard EXCEPT ![p] = [s.heard[p] EXCEPT ![Pads!Pair(p)] = line1]] \in Heards BY <1>3, <2>1, <2>4 DEF Heards
  <2> QED BY <1>3, <2>2, <2>5
<1>6. n \in Nat BY <1>3
<1>7. Made(s', s.on, pads, s.JoyLS, s.pls, s.wrio, s.at, heard, s.torn)
  <2> HIDE DEF pads, heard, n
  <2>1. Made(Rebuilt(s.on, pads, s.JoyLS, s.pls, s.wrio, s.at, heard, n, s.torn),
           s.on, pads, s.JoyLS, s.pls, s.wrio, s.at, heard, s.torn)
    BY <1>1, <1>3, <1>4, <1>5, <1>6, PadsMade, SMTT(40)
  <2> QED BY <1>2, <2>1 DEF Rebuilt
<1>8. CASE ~s.JoyLS /\ ~s.torn
  <2>1. heard = Pads!Heard(s.heard, p) /\ pads = Pads!Shift(p, s.pads) /\ PadsGood(s) BY <1>0, <1>8
  <2> HIDE DEF pads, heard
  <2>2. PadsGood(s') BY <2>1, <1>7, <1>8, ReadHeard
  <2>3. ~s.torn => PadsGood(s') BY <2>2
  <2>4. s.torn => Unheard(heard) BY <1>8
  <2> QED BY <2>3, <2>4, <1>0, <1>7, PadsHeld
<1>9. CASE s.JoyLS /\ ~s.torn
  <2>1. heard = s.heard /\ PadsGood(s) BY <1>0, <1>9
  <2>2. \A d \in PadActive : pads[d] = IF d \in Wired(p) THEN Pads!Shifted(s.pads[d]) ELSE s.pads[d]
    BY <1>1, <1>3, PortRead
  <2> HIDE DEF pads, heard
  <2>3. Made(s', s.on, pads, s.JoyLS, s.pls, s.wrio, s.at, s.heard, s.torn) BY <2>1, <1>7
  <2>4. StrobedTo(s.pads, s.JoyLS, s.pls) BY <2>1, PadsAre
  <2>5. StrobedTo(pads, s.JoyLS, s.pls)
    <3>1. ASSUME NEW d \in Pads!Pads PROVE pads[d].pls = s.JoyLS
      <4> DEFINE pad == s.pads[d]
      <4>1. pad \in PadState /\ pad.pls = s.JoyLS /\ pads[d] = IF d \in Wired(p) THEN Pads!Shifted(pad) ELSE pad
        BY <2>1, <2>2, PadsAre
      <4> HIDE DEF pad
      <4>2. Pads!Shifted(pad).pls = pad.pls BY <4>1, ShiftedKeeps
      <4> QED BY <4>1, <4>2
    <3> QED BY <2>4, <3>1 DEF StrobedTo
  <2>6. \A d \in Pads!Pads : s.at[d] = s.at[d] /\ (~s.JoyLS => pads[d].latched = s.pads[d].latched) BY <1>9
  <2>7. PadsGood(s') BY <2>1, <2>3, <2>5, <2>6, PadsSame
  <2>8. ~s.torn => PadsGood(s') BY <2>7
  <2>9. s.torn => Unheard(heard) BY <1>9
  <2> QED BY <2>8, <2>9, <1>0, <1>7, PadsHeld
<1>10. CASE s.torn
  <2>1. Unheard(heard) BY <1>0, <1>10
  <2> HIDE DEF pads, heard
  <2>2. s.torn => Unheard(heard) BY <2>1
  <2>3. ~s.torn => PadsGood(s') BY <1>10
  <2> QED BY <2>2, <2>3, <1>0, <1>7, PadsHeld
<1> QED BY <1>0, <1>8, <1>9, <1>10

----------------------------------------------------------------------------
(* The console's own reading.                                              *)

ReadStates == [pads : [PadActive -> PadState], words : [0 .. 1 -> Seq({0, 1})]]

\* After i bits: the pads in front have i bits less, the others are as they were.
ReadUpTo(p, pads, r, i) ==
  /\ r \in ReadStates
  /\ \A d \in PadActive : d \notin Wired(p) => r.pads[d] = pads[d]
  /\ \A d \in Wired(p) : r.pads[d].pls = FALSE /\ Rests(r.pads[d].latched, pads[d].buttons, i)
  /\ \A line \in Pads!Live(p) :
       /\ Len(r.words[line]) = i
       /\ \A k \in 1 .. i : r.words[line][k] = IF Front(p, line) \in s.on
                                               THEN Given(pads[Front(p, line)].buttons, k) ELSE 0

LEMMA ReadTyped ==
  ASSUME PadAssumption, s \in PadsState, NEW p \in 0 .. 1, NEW r \in ReadStates
  PROVE  /\ Pads!ReadOnce(p, r) \in ReadStates
         /\ \A line \in 0 .. 1 :
              Pads!ReadOnce(p, r).words[line] = Append(r.words[line], Pads!Shown(p, line, r.pads, FALSE))
         /\ Pads!ReadOnce(p, r).pads = Pads!Shift(p, r.pads)
<1> DEFINE pads == Pads!Shift(p, r.pads)
           words == [line \in 0 .. 1 |-> Append(r.words[line], Pads!Shown(p, line, r.pads, FALSE))]
<1>1. r.pads \in [PadActive -> PadState] /\ r.words \in [0 .. 1 -> Seq({0, 1})] BY DEF ReadStates
<1>2. pads \in [PadActive -> PadState] BY <1>1, PortRead
<1>3. \A line \in 0 .. 1, strobed \in BOOLEAN : Pads!Shown(p, line, r.pads, strobed) \in {0, 1} BY <1>1, PortRead
<1>4. ASSUME NEW line \in 0 .. 1 PROVE words[line] \in Seq({0, 1})
  <2> DEFINE bit == Pads!Shown(p, line, r.pads, FALSE)
             word == r.words[line]
  <2>1. bit \in {0, 1} BY <1>3
  <2>2. word \in Seq({0, 1}) BY <1>1
  <2>3. words[line] = Append(word, bit) OBVIOUS
  <2> HIDE DEF bit, word, words
  <2>4. Append(word, bit) \in Seq({0, 1}) BY <2>1, <2>2
  <2> QED BY <2>3, <2>4
<1>5. words \in [0 .. 1 -> Seq({0, 1})]
  <2>1. words = [line \in 0 .. 1 |-> words[line]] OBVIOUS
  <2> HIDE DEF words
  <2> QED BY <2>1, <1>4
<1>6. Pads!ReadOnce(p, r) = [pads |-> pads, words |-> words] BY DEF Pads!ReadOnce, Pads!Lines
<1>7. \A line \in 0 .. 1 : words[line] = Append(r.words[line], Pads!Shown(p, line, r.pads, FALSE)) OBVIOUS
<1> HIDE DEF words
<1>8. pads = Pads!Shift(p, r.pads) OBVIOUS
<1> HIDE DEF pads
<1>9. [pads |-> pads, words |-> words] \in ReadStates BY <1>2, <1>5 DEF ReadStates
<1>10. Pads!ReadOnce(p, r).words = words /\ Pads!ReadOnce(p, r).pads = pads BY <1>6
<1>11. Pads!ReadOnce(p, r) \in ReadStates BY <1>6, <1>9, Zenon
<1> QED BY <1>7, <1>8, <1>10, <1>11, Zenon

LEMMA ReadOneMore ==
  ASSUME PadAssumption, s \in PadsState, NEW p \in 0 .. 1, NEW pads \in [PadActive -> PadState],
         NEW r, NEW i \in Nat, ReadUpTo(p, pads, r, i)
  PROVE  ReadUpTo(p, pads, Pads!ReadOnce(p, r), i + 1)
<1> DEFINE q == Pads!ReadOnce(p, r)
<1>1. r \in ReadStates BY DEF ReadUpTo
<1>2. /\ q \in ReadStates /\ q.pads = Pads!Shift(p, r.pads)
      /\ \A line \in 0 .. 1 : q.words[line] = Append(r.words[line], Pads!Shown(p, line, r.pads, FALSE))
  BY <1>1, ReadTyped
<1> HIDE DEF q
<1>3. r.pads \in [PadActive -> PadState] /\ r.words \in [0 .. 1 -> Seq({0, 1})] BY <1>1 DEF ReadStates
<1>4. /\ \A d \in PadActive : q.pads[d] = IF d \in Wired(p) THEN Pads!Shifted(r.pads[d]) ELSE r.pads[d]
      /\ \A line \in 0 .. 1, strobed \in BOOLEAN : Pads!Shown(p, line, r.pads, strobed) \in {0, 1}
      /\ \A line \in Pads!Live(p) :
           Pads!Shown(p, line, r.pads, FALSE) = IF Front(p, line) \in s.on THEN Pads!Bit(r.pads[Front(p, line)]) ELSE 0
  <2> DEFINE x == r.pads
  <2>1. x \in [PadActive -> PadState] BY <1>3
  <2>2. q.pads = Pads!Shift(p, x) BY <1>2
  <2> HIDE DEF x
  <2>3. /\ \A d \in PadActive : Pads!Shift(p, x)[d] = IF d \in Wired(p) THEN Pads!Shifted(x[d]) ELSE x[d]
        /\ \A line \in 0 .. 1, strobed \in BOOLEAN : Pads!Shown(p, line, x, strobed) \in {0, 1}
        /\ \A line \in Pads!Live(p) :
             Pads!Shown(p, line, x, FALSE) = IF Front(p, line) \in s.on THEN Pads!Bit(x[Front(p, line)]) ELSE 0
    BY <2>1, PortRead
  <2> QED BY <2>2, <2>3 DEF x
<1>5. \A d \in PadActive : d \notin Wired(p) => q.pads[d] = pads[d] BY <1>4 DEF ReadUpTo
<1>6. ASSUME NEW d \in Wired(p)
      PROVE  /\ q.pads[d].pls = FALSE /\ Rests(q.pads[d].latched, pads[d].buttons, i + 1)
             /\ Pads!Bit(r.pads[d]) = Given(pads[d].buttons, i + 1)
  <2> DEFINE pad == r.pads[d]
             a == pads[d].buttons
  <2>1. d \in PadActive BY DEF Wired
  <2>2. pad \in PadState /\ ~pad.pls /\ pad.pls = FALSE /\ Rests(pad.latched, a, i) BY <2>1, <1>3 DEF ReadUpTo
  <2>3. q.pads[d] = Pads!Shifted(pad) BY <2>1, <1>4
  <2> HIDE DEF pad, a
  <2>4. Pads!Bit(pad) = Given(a, i + 1) /\ Rests(Pads!Shifted(pad).latched, a, i + 1) BY <2>2, RestsShifted
  <2>5. Pads!Shifted(pad).pls = pad.pls BY <2>2, ShiftedKeeps
  <2> QED BY <2>2, <2>3, <2>4, <2>5 DEF pad, a
<1>7. ASSUME NEW line \in Pads!Live(p)
      PROVE  /\ Len(q.words[line]) = i + 1
             /\ \A k \in 1 .. i + 1 : q.words[line][k] = IF Front(p, line) \in s.on
                                                         THEN Given(pads[Front(p, line)].buttons, k) ELSE 0
  <2> DEFINE word == r.words[line]
             bit == Pads!Shown(p, line, r.pads, FALSE)
             now == q.words[line]
             d == Front(p, line)
             Bits(k) == IF d \in s.on THEN Given(pads[d].buttons, k) ELSE 0
  <2>1. line \in 0 .. 1 BY FrontIs
  <2>2. word \in Seq({0, 1}) /\ bit \in {0, 1} /\ now = Append(word, bit) BY <2>1, <1>2, <1>3, <1>4
  <2>3. Len(word) = i /\ \A k \in 1 .. i : word[k] = Bits(k) BY DEF ReadUpTo
  <2>4. bit = Bits(i + 1)
    <3>1. bit = IF d \in s.on THEN Pads!Bit(r.pads[d]) ELSE 0 BY <1>4
    <3>2. d \in s.on => d \in Wired(p) BY PadsPresent DEF Wired, Front
    <3> HIDE DEF d, bit
    <3> QED BY <3>1, <3>2, <1>6
  <2> HIDE DEF word, bit, now, Bits
  <2>5. Len(now) = i + 1 /\ now[i + 1] = bit /\ \A k \in 1 .. i : now[k] = word[k] BY <2>2, <2>3
  <2>6. \A k \in 1 .. i + 1 : k \in 1 .. i \/ k = i + 1 OBVIOUS
  <2>7. \A k \in 1 .. i + 1 : now[k] = Bits(k) BY <2>3, <2>4, <2>5, <2>6
  <2> QED BY <2>5, <2>7 DEF now, Bits
<1>8. ReadUpTo(p, pads, q, i + 1) BY <1>2, <1>5, <1>6, <1>7 DEF ReadUpTo
<1> QED BY <1>8 DEF q

\* The pads in front of a port were just strobed.
Ready(p, pads) == \A d \in Wired(p) : pads[d].pls = FALSE /\ pads[d].latched = pads[d].buttons

LEMMA AllRead ==
  ASSUME PadAssumption, s \in PadsState, NEW p \in 0 .. 1, NEW pads \in [PadActive -> PadState], Ready(p, pads)
  PROVE  ReadUpTo(p, pads, Pads!ReadAll(p, pads), PadWidth)
<1> DEFINE n == PadWidth
           none == [pads |-> pads, words |-> [line \in 0 .. 1 |-> <<>>]]
           Read(f) == f = [i \in 0 .. n |-> IF i = 0 THEN none ELSE Pads!ReadOnce(p, f[i - 1])]
           read == CHOOSE f : Read(f)
           g == [i \in 1 .. n |-> [x \in ReadStates |-> Pads!ReadOnce(p, x)]]
<1>0. n \in Nat BY DEF PadAssumption
<1>1. Pads!ReadAll(p, pads) = read[n] BY DEF Pads!ReadAll, Pads!Lines
<1>2. ReadUpTo(p, pads, none, 0)
  <2> DEFINE words == [line \in 0 .. 1 |-> <<>>]
  <2>1. words \in [0 .. 1 -> Seq({0, 1})] /\ \A line \in 0 .. 1 : words[line] = <<>>
    <3>1. <<>> \in Seq({0, 1}) OBVIOUS
    <3> QED BY <3>1
  <2>2. none.pads = pads /\ none.words = words OBVIOUS
  <2> HIDE DEF words
  <2>3. none \in ReadStates BY <2>1, <2>2 DEF ReadStates, words
  <2>4. ASSUME NEW d \in Wired(p) PROVE Rests(pads[d].latched, pads[d].buttons, 0)
    <3>1. d \in PadActive BY DEF Wired
    <3>2. pads[d].buttons \in Buttons BY <3>1 DEF PadState
    <3>3. pads[d].latched = pads[d].buttons BY DEF Ready
    <3> QED BY <3>2, <3>3, RestsStrobed
  <2>5. \A line \in Pads!Live(p) : line \in 0 .. 1 BY FrontIs
  <2>6. Len(<<>>) = 0 /\ 1 .. 0 = {} OBVIOUS
  <2> HIDE DEF none
  <2> QED BY <2>1, <2>2, <2>3, <2>4, <2>5, <2>6 DEF ReadUpTo, Ready
<1> HIDE DEF n, none
<1>3. none \in ReadStates BY <1>2 DEF ReadUpTo
<1>4. g \in [1 .. n -> [ReadStates -> ReadStates]] BY ReadTyped
<1>5. PICK h \in [0 .. n -> ReadStates] : h[0] = none /\ \A i \in 1 .. n : h[i] = g[i][h[i - 1]]
  <2> HIDE DEF g
  <2>1. \A f \in [1 .. n -> [ReadStates -> ReadStates]] :
          \E h \in [0 .. n -> ReadStates] : h[0] = none /\ \A i \in 1 .. n : h[i] = f[i][h[i - 1]]
    <3>1. SUFFICES ASSUME NEW f \in [1 .. n -> [ReadStates -> ReadStates]]
                   PROVE \E h \in [0 .. n -> ReadStates] : h[0] = none /\ \A i \in 1 .. n : h[i] = f[i][h[i - 1]]
      OBVIOUS
    <3>2. n \in Nat BY <1>0
    <3>3. none \in ReadStates BY <1>3
    <3> DEFINE S == ReadStates
    <3>4. none \in S /\ f \in [1 .. n -> [S -> S]] BY <3>3
    <3> HIDE DEF S
    <3>5. \E h \in [0 .. n -> S] : h[0] = none /\ \A i \in 1 .. n : h[i] = f[i][h[i - 1]]
      BY ONLY <3>2, <3>4, StepsTaken
    <3> QED BY <3>5 DEF S
  <2> QED BY <1>4, <2>1, Zenon
<1>6. Read(h)
  <2>1. ASSUME NEW i \in 1 .. n PROVE g[i][h[i - 1]] = Pads!ReadOnce(p, h[i - 1])
    <3>1. i - 1 \in 0 .. n BY <1>0
    <3>2. h[i - 1] \in ReadStates BY <3>1
    <3> QED BY <3>2, Zenon
  <2> HIDE DEF g
  <2>2. \A i \in 0 .. n : h[i] = IF i = 0 THEN none ELSE Pads!ReadOnce(p, h[i - 1]) BY <1>0, <1>5, <2>1
  <2> QED BY <1>5, <2>2
<1>7. Read(read)
  <2> HIDE DEF Read
  <2> QED BY <1>6
<1> HIDE DEF read
<1>8. \A i \in 0 .. n : read[i] = IF i = 0 THEN none ELSE Pads!ReadOnce(p, read[i - 1]) BY <1>7, Zenon
<1> DEFINE T == {i \in Nat : i <= n => ReadUpTo(p, pads, read[i], i)}
<1>9. 0 \in T
  <2>1. read[0] = none BY <1>0, <1>8
  <2> QED BY <2>1, <1>2
<1>10. ASSUME NEW i \in T PROVE i + 1 \in T
  <2>1. i \in Nat /\ (i <= n => ReadUpTo(p, pads, read[i], i)) BY <1>10
  <2>2. SUFFICES ASSUME i + 1 <= n PROVE ReadUpTo(p, pads, read[i + 1], i + 1)
    BY <2>1
  <2>3. ReadUpTo(p, pads, read[i], i) BY <2>1, <2>2, <1>0
  <2>4. i + 1 \in 0 .. n /\ i + 1 # 0 /\ (i + 1) - 1 = i BY <2>1, <2>2, <1>0
  <2>5. read[i + 1] = Pads!ReadOnce(p, read[i]) BY <2>4, <1>8
  <2>6. ReadUpTo(p, pads, Pads!ReadOnce(p, read[i]), i + 1) BY <2>1, <2>3, ReadOneMore
  <2> QED BY <2>5, <2>6
<1>11. T \subseteq Nat OBVIOUS
<1>12. n \in T
  <2> HIDE DEF T
  <2>1. Nat \subseteq T BY <1>9, <1>10, <1>11, NatSet
  <2> QED BY <2>1, <1>0
<1>13. ReadUpTo(p, pads, read[n], n) BY <1>0, <1>12
<1> QED BY <1>1, <1>13 DEF n

LEMMA PortStrobed ==
  ASSUME PadAssumption, s \in PadsState, NEW p \in 0 .. 1, NEW pads \in [PadActive -> PadState], NEW low,
         low = Pads!StrobePort(p, Pads!StrobePort(p, pads, TRUE), FALSE)
  PROVE  /\ low \in [PadActive -> PadState]
         /\ \A d \in PadActive : d \notin Pads!Reached(p) => low[d] = pads[d]
         /\ \A d \in Pads!Reached(p) : low[d].pls = FALSE /\ low[d].latched = pads[d].buttons
                                       /\ low[d].buttons = pads[d].buttons
<1> DEFINE high == Pads!StrobePort(p, pads, TRUE)
<1>1. \A d \in PadActive : high[d] = IF d \in Pads!Reached(p) THEN Pads!SetLatch(pads[d], TRUE) ELSE pads[d]
  BY DEF Pads!StrobePort
<1>2. /\ low = [d \in PadActive |-> IF d \in Pads!Reached(p) THEN Pads!SetLatch(high[d], FALSE) ELSE high[d]]
  BY DEF Pads!StrobePort
<1> HIDE DEF high
<1>3. ASSUME NEW d \in PadActive
      PROVE  /\ low[d] \in PadState
             /\ d \notin Pads!Reached(p) => low[d] = pads[d]
             /\ d \in Pads!Reached(p) => low[d].pls = FALSE /\ low[d].latched = pads[d].buttons
                                         /\ low[d].buttons = pads[d].buttons
  <2> DEFINE pad == pads[d]
             up == Pads!SetLatch(pad, TRUE)
             down == Pads!SetLatch(up, FALSE)
  <2>1. pad \in PadState /\ TRUE \in BOOLEAN /\ FALSE \in BOOLEAN OBVIOUS
  <2>2. d \in Pads!Reached(p) => low[d] = down BY <1>1, <1>2
  <2>3. d \notin Pads!Reached(p) => low[d] = pad BY <1>1, <1>2
  <2> HIDE DEF pad
  <2>4. up \in PadState /\ up.pls = TRUE /\ up.buttons = pad.buttons BY <2>1, PadTyped
  <2> HIDE DEF up
  <2>5. /\ down \in PadState /\ down.pls = FALSE /\ down.buttons = up.buttons
        /\ down.latched = IF up.pls /\ ~FALSE THEN up.buttons ELSE up.latched
    BY <2>1, <2>4, PadTyped
  <2> HIDE DEF down
  <2>6. d \in Pads!Reached(p) => low[d] \in PadState /\ low[d].pls = FALSE /\ low[d].latched = pad.buttons
                                 /\ low[d].buttons = pad.buttons
    BY <2>2, <2>4, <2>5
  <2> QED BY <2>1, <2>3, <2>6 DEF pad
<1>4. low \in [PadActive -> PadState]
  <2>1. low = [d \in PadActive |-> low[d]] BY <1>2
  <2> QED BY <2>1, <1>3
<1>5. \A d \in Pads!Reached(p) : d \in PadActive BY PadsPresent DEF Pads!Reached
<1> QED BY <1>3, <1>4, <1>5

\* The bits that are read of a pad.
ReadOf(p, d) == IF d \in Wired(p) THEN PadWidth ELSE 0

\* What the console reads of a port.
PortHeard(p, pads, r) ==
  /\ r \in ReadStates
  /\ \A d \in PadActive : d \notin Pads!Reached(p) => r.pads[d] = pads[d]
  /\ \A d \in Pads!Reached(p) :
       /\ r.pads[d].pls = FALSE
       /\ Rests(r.pads[d].latched, pads[d].buttons, ReadOf(p, d))
  /\ \A line \in Pads!Live(p) :
       /\ Len(r.words[line]) = PadWidth
       /\ \A k \in 1 .. PadWidth : r.words[line][k] = IF Front(p, line) \in s.on
                                                      THEN Given(pads[Front(p, line)].buttons, k) ELSE 0

LEMMA PortAutoRead ==
  ASSUME PadAssumption, s \in PadsState, NEW p \in 0 .. 1, NEW pads \in [PadActive -> PadState]
  PROVE  PortHeard(p, pads, Pads!AutoPort(p, pads))
<1> DEFINE low == Pads!StrobePort(p, Pads!StrobePort(p, pads, TRUE), FALSE)
           r == Pads!ReadAll(p, low)
<1>1. Pads!AutoPort(p, pads) = r BY DEF Pads!AutoPort
<1>2. /\ low \in [PadActive -> PadState]
      /\ \A d \in PadActive : d \notin Pads!Reached(p) => low[d] = pads[d]
      /\ \A d \in Pads!Reached(p) : low[d].pls = FALSE /\ low[d].latched = pads[d].buttons
                                    /\ low[d].buttons = pads[d].buttons
  BY PortStrobed
<1> HIDE DEF low
<1>3. Wired(p) \subseteq Pads!Reached(p) BY FrontIs
<1>4. \A d \in Wired(p) : low[d].pls = FALSE /\ low[d].latched = low[d].buttons BY <1>2, <1>3
<1>5. ReadUpTo(p, low, r, PadWidth)
  <2>1. Ready(p, low) BY <1>4 DEF Ready
  <2> QED BY <1>2, <2>1, AllRead
<1> HIDE DEF r
<1>6. \A d \in Pads!Reached(p) : d \in PadActive BY PadsPresent DEF Pads!Reached
<1>7. \A d \in PadActive : d \notin Pads!Reached(p) => r.pads[d] = pads[d] BY <1>2, <1>3, <1>5 DEF ReadUpTo
<1>8. ASSUME NEW d \in Pads!Reached(p)
      PROVE  /\ r.pads[d].pls = FALSE
             /\ Rests(r.pads[d].latched, pads[d].buttons, ReadOf(p, d))
  <2>1. CASE d \in Wired(p)
    <3>1. ReadOf(p, d) = PadWidth BY <2>1 DEF ReadOf
    <3> QED BY <2>1, <3>1, <1>2, <1>5 DEF ReadUpTo
  <2>2. CASE d \notin Wired(p)
    <3>1. r.pads[d] = low[d] /\ low[d].pls = FALSE /\ low[d].latched = pads[d].buttons
      BY <2>2, <1>2, <1>5, <1>6 DEF ReadUpTo
    <3>2. pads[d].buttons \in Buttons BY <1>6 DEF PadState
    <3>3. Rests(pads[d].buttons, pads[d].buttons, 0) BY <3>2, RestsStrobed
    <3>4. ReadOf(p, d) = 0 BY <2>2 DEF ReadOf
    <3> QED BY <3>1, <3>3, <3>4
  <2> QED BY <2>1, <2>2
<1>9. ASSUME NEW line \in Pads!Live(p)
      PROVE  /\ Len(r.words[line]) = PadWidth
             /\ \A k \in 1 .. PadWidth : r.words[line][k] = IF Front(p, line) \in s.on
                                                            THEN Given(pads[Front(p, line)].buttons, k) ELSE 0
  <2>1. Front(p, line) \in s.on => Front(p, line) \in Pads!Reached(p)
    <3>1. Front(p, line) \in Pads!Mapped(p, s.taps) BY FrontIs
    <3> QED BY <3>1 DEF Pads!Reached
  <2>2. Front(p, line) \in s.on => low[Front(p, line)].buttons = pads[Front(p, line)].buttons BY <2>1, <1>2
  <2> QED BY <2>2, <1>5 DEF ReadUpTo
<1> QED BY <1>1, <1>5, <1>7, <1>8, <1>9 DEF PortHeard, ReadUpTo

\* Both ports, one after the other: neither moves the other's pads.
BothHeard(pads, words) ==
  /\ pads \in [PadActive -> PadState] /\ words \in [0 .. 1 -> [0 .. 1 -> Seq({0, 1})]]
  /\ \A p \in 0 .. 1 : \A d \in Pads!Reached(p) :
       /\ pads[d].pls = FALSE
       /\ Rests(pads[d].latched, s.pads[d].buttons, ReadOf(p, d))
  /\ \A p \in 0 .. 1 : \A line \in Pads!Live(p) :
       /\ Len(words[p][line]) = PadWidth
       /\ \A k \in 1 .. PadWidth : words[p][line][k] = IF Front(p, line) \in s.on
                                                       THEN Given(s.pads[Front(p, line)].buttons, k) ELSE 0

InTurn(words, first, second) == words = [p \in 0 .. 1 |-> IF p = 0 THEN first.words ELSE second.words]

LEMMA BothAutoRead ==
  ASSUME PadAssumption, s \in PadsState, NEW first, NEW second, NEW words,
         first = Pads!AutoPort(0, s.pads), second = Pads!AutoPort(1, first.pads), InTurn(words, first, second)
  PROVE  BothHeard(second.pads, words)
<1>1. s.pads \in [PadActive -> PadState] /\ s.taps \in [0 .. 1 -> BOOLEAN] /\ s.on \in SUBSET PadActive BY PadsPresent
<1>2. PortHeard(0, s.pads, first)
  <2> DEFINE x == s.pads
  <2>1. x \in [PadActive -> PadState] /\ 0 \in 0 .. 1 BY <1>1
  <2> HIDE DEF x
  <2>2. PortHeard(0, x, Pads!AutoPort(0, x)) BY <2>1, PortAutoRead
  <2> QED BY <2>2 DEF x
<1>3. first \in ReadStates BY <1>2 DEF PortHeard
<1>4. first.pads \in [PadActive -> PadState] /\ first.words \in [0 .. 1 -> Seq({0, 1})] BY <1>3 DEF ReadStates
<1>5. PortHeard(1, first.pads, second)
  <2> DEFINE x == first.pads
  <2>1. x \in [PadActive -> PadState] /\ 1 \in 0 .. 1 BY <1>4
  <2> HIDE DEF x
  <2>2. PortHeard(1, x, Pads!AutoPort(1, x)) BY <2>1, PortAutoRead
  <2> QED BY <2>2 DEF x
<1>6. second \in ReadStates BY <1>5 DEF PortHeard
<1>7. second.pads \in [PadActive -> PadState] /\ second.words \in [0 .. 1 -> Seq({0, 1})] BY <1>6 DEF ReadStates
<1>8. Pads!Reached(0) \cap Pads!Reached(1) = {} /\ \A p \in 0 .. 1 : Pads!Reached(p) \subseteq PadActive
  BY <1>1, MappedApart DEF Pads!Reached
<1>9. \A d \in Pads!Reached(1) : first.pads[d] = s.pads[d] BY <1>2, <1>8 DEF PortHeard
<1>10. \A d \in Pads!Reached(0) : second.pads[d] = first.pads[d] BY <1>5, <1>8 DEF PortHeard
<1>11. words[0] = first.words /\ words[1] = second.words BY DEF InTurn
<1>12. words \in [0 .. 1 -> [0 .. 1 -> Seq({0, 1})]]
  <2>1. words = [p \in 0 .. 1 |-> words[p]] BY DEF InTurn
  <2>2. \A p \in 0 .. 1 : words[p] \in [0 .. 1 -> Seq({0, 1})]
    <3>1. \A p \in 0 .. 1 : p = 0 \/ p = 1 OBVIOUS
    <3> QED BY <3>1, <1>4, <1>7, <1>11
  <2> QED BY <2>1, <2>2
<1>13. ASSUME NEW p \in 0 .. 1, NEW d \in Pads!Reached(p)
       PROVE  /\ second.pads[d].pls = FALSE
              /\ Rests(second.pads[d].latched, s.pads[d].buttons, ReadOf(p, d))
  <2>1. CASE p = 0
    <3>1. first.pads[d].pls = FALSE
          /\ Rests(first.pads[d].latched, s.pads[d].buttons, ReadOf(0, d))
      BY <2>1, <1>2 DEF PortHeard
    <3>2. second.pads[d] = first.pads[d] BY <2>1, <1>10
    <3> QED BY <2>1, <3>1, <3>2
  <2>2. CASE p = 1
    <3>1. second.pads[d].pls = FALSE
          /\ Rests(second.pads[d].latched, first.pads[d].buttons, ReadOf(1, d))
      BY <2>2, <1>5 DEF PortHeard
    <3>2. first.pads[d] = s.pads[d] BY <2>2, <1>9
    <3> QED BY <2>2, <3>1, <3>2
  <2>3. p = 0 \/ p = 1 OBVIOUS
  <2> QED BY <2>1, <2>2, <2>3, Zenon
<1>14. ASSUME NEW p \in 0 .. 1, NEW line \in Pads!Live(p)
       PROVE  /\ Len(words[p][line]) = PadWidth
              /\ \A k \in 1 .. PadWidth : words[p][line][k] = IF Front(p, line) \in s.on
                                                              THEN Given(s.pads[Front(p, line)].buttons, k) ELSE 0
  <2>1. CASE p = 0 BY <2>1, <1>2, <1>11 DEF PortHeard
  <2>2. CASE p = 1
    <3> DEFINE d == Front(1, line)
    <3>1. d \in s.on => d \in Pads!Reached(1)
      <4>1. d \in Pads!Mapped(1, s.taps) BY <2>2, FrontIs
      <4> QED BY <4>1 DEF Pads!Reached
    <3>2. Len(words[1][line]) = PadWidth /\ \A k \in 1 .. PadWidth :
            words[1][line][k] = IF d \in s.on THEN Given(first.pads[d].buttons, k) ELSE 0
      BY <2>2, <1>5, <1>11 DEF PortHeard
    <3>3. d \in s.on => first.pads[d] = s.pads[d] BY <3>1, <1>9
    <3> HIDE DEF d
    <3>4. \A k \in 1 .. PadWidth : words[1][line][k] = IF d \in s.on THEN Given(s.pads[d].buttons, k) ELSE 0
      BY <3>2, <3>3
    <3> QED BY <2>2, <3>2, <3>4 DEF d
  <2> QED BY <2>1, <2>2
<1> QED BY <1>7, <1>12, <1>13, <1>14 DEF BothHeard

\* What the console hands to the game is what a slot is to have heard.
HandedTo(h, words, p, iob, line) == IF iob = Pads!Pair(p) THEN h = words[p][line] ELSE h = <<>>

LEMMA SlotsRead ==
  ASSUME PadAssumption, s \in PadsState, NEW q, NEW pads, NEW words, NEW heard, NEW pls, NEW torn, BothHeard(pads, words),
         NEW p \in 0 .. 1, NEW iob \in BOOLEAN, NEW line \in 0 .. 1, IsSlot(s.taps, p, iob, line),
         Made(q, s.on, pads, FALSE, pls, s.wrio, Pads!AtStrobe, heard, torn), NEW h,
         HandedTo(h, words, p, iob, line)
  PROVE  SlotGood(q, Pads!Wired(p, line, iob, s.taps), h)
<1> DEFINE d == Pads!Wired(p, line, iob, s.taps)
<1>0. s \in PadsState /\ PadWidth \in Nat BY DEF PadAssumption
<1>1. q.on = s.on /\ q.pads = pads /\ q.JoyLS = FALSE /\ q.at = Pads!AtStrobe BY DEF Made
<1>2. d \in s.on => d \in Pads!Reached(p)
  <2>1. s.taps \in [0 .. 1 -> BOOLEAN] BY <1>0, PadsPresent
  <2>2. d \in Pads!Mapped(p, s.taps) BY <2>1, SlotMapped
  <2> QED BY <2>2 DEF Pads!Reached
<1>3. d \in s.on => /\ q.at[d] = s.pads[d].buttons
                    /\ Rests(pads[d].latched, s.pads[d].buttons, ReadOf(p, d))
  <2>1. SUFFICES ASSUME d \in s.on PROVE /\ q.at[d] = s.pads[d].buttons
                                         /\ Rests(pads[d].latched, s.pads[d].buttons,
                                                  ReadOf(p, d))
    OBVIOUS
  <2>2. p = 0 \/ p = 1 OBVIOUS
  <2>3. d \in Pads!Pads BY <2>1, <2>2, <1>2 DEF Pads!Pads
  <2>4. Pads!AtStrobe[d] = s.pads[d].buttons BY <2>3, <1>0, StrobeTaken
  <2>5. Rests(pads[d].latched, s.pads[d].buttons, ReadOf(p, d))
    BY <2>1, <1>2 DEF BothHeard
  <2> QED BY <2>4, <2>5, <1>1
<1>4. CASE iob = Pads!Pair(p)
  <2>1. line \in Pads!Live(p) /\ Front(p, line) = d BY <1>0, <1>4, FrontIs
  <2>2. /\ Len(words[p][line]) = PadWidth
        /\ \A k \in 1 .. PadWidth : words[p][line][k] = IF d \in s.on THEN Given(s.pads[d].buttons, k) ELSE 0
    <3>1. /\ Len(words[p][line]) = PadWidth
          /\ \A k \in 1 .. PadWidth : words[p][line][k] = IF Front(p, line) \in s.on
                                                          THEN Given(s.pads[Front(p, line)].buttons, k) ELSE 0
      BY <2>1 DEF BothHeard
    <3> HIDE DEF d
    <3> QED BY <3>1, <2>1
  <2>3. h = words[p][line] BY <1>4 DEF HandedTo
  <2>4. d \in s.on => d \in Wired(p)
    <3>1. Pads!Wired(p, line, s.wrio[p], s.taps) = d BY <2>1 DEF Front
    <3>2. s.on \in SUBSET PadActive BY <1>0, PadsPresent
    <3> HIDE DEF d
    <3> QED BY <2>1, <3>1, <3>2 DEF Wired
  <2> HIDE DEF d
  <2>5. ASSUME d \notin s.on PROVE SlotGood(q, d, h)
    <3>1. \A k \in 1 .. Len(h) : h[k] = 0 BY <2>2, <2>3, <2>5
    <3> QED BY <3>1, <2>5, <1>1, Zenon DEF SlotGood
  <2>6. ASSUME d \in s.on PROVE SlotGood(q, d, h)
    <3> DEFINE a == s.pads[d].buttons
    <3>1. q.at[d] = a /\ Rests(q.pads[d].latched, a, PadWidth) BY <2>4, <2>6, <1>1, <1>3 DEF ReadOf
    <3>2. \A k \in 1 .. PadWidth : h[k] = Given(a, k) BY <2>2, <2>3, <2>6
    <3>3. Len(h) = PadWidth BY <2>2, <2>3
    <3> HIDE DEF a
    <3>4. SlotGood(q, d, h)
      <4>1. d \in q.on BY <2>6, <1>1
      <4>2. \A k \in 1 .. Len(h) : h[k] = Given(q.at[d], k) BY <3>1, <3>2, <3>3
      <4>3. Rests(q.pads[d].latched, q.at[d], Len(h)) BY <3>1, <3>3
      <4> QED BY <4>1, <4>2, <4>3, Zenon DEF SlotGood
    <3> QED BY <3>4
  <2>7. SlotGood(q, d, h) BY <2>5, <2>6
  <2> QED BY <2>7 DEF d
<1>5. CASE iob # Pads!Pair(p)
  <2>1. d \notin Wired(p)
    <3>1. SUFFICES ASSUME d \in Wired(p) PROVE FALSE OBVIOUS
    <3>2. PICK mine \in Pads!Live(p) : Front(p, mine) = d BY <3>1 DEF Wired, Front
    <3>3. IsSlot(s.taps, p, Pads!Pair(p), mine) /\ Pads!Wired(p, mine, Pads!Pair(p), s.taps) = d
      BY <3>2, <1>0, FrontIs
    <3>4. s.taps \in [0 .. 1 -> BOOLEAN] BY <1>0, PadsPresent
    <3>5. iob = Pads!Pair(p) BY <3>3, <3>4, SlotOnce
    <3> QED BY <3>5, <1>5
  <2> HIDE DEF d
  <2>2. d \in s.on => Rests(q.pads[d].latched, q.at[d], 0) BY <2>1, <1>1, <1>3 DEF ReadOf
  <2>3. SlotGood(q, d, <<>>) BY <2>2, <1>1, SlotEmpty
  <2>4. h = <<>> BY <1>5 DEF HandedTo
  <2> QED BY <2>3, <2>4 DEF d
<1> QED BY <1>4, <1>5

LEMMA PadsAutoRead ==
  ASSUME PadAssumption, PadsHold(s), Pads!INPUT_AutoRead
  PROVE  PadsHold(s')
<1> DEFINE first == Pads!AutoPort(0, s.pads)
           second == Pads!AutoPort(1, first.pads)
           words == [p \in 0 .. 1 |-> IF p = 0 THEN first.words ELSE second.words]
           none == [line \in 0 .. 1 |-> <<>>]
           pads == second.pads
           pls == [p \in 0 .. 1 |-> FALSE]
           heard == [p \in 0 .. 1 |-> [iob \in BOOLEAN |-> IF iob = Pads!Pair(p) THEN words[p] ELSE none]]
           at == Pads!AtStrobe
           n == PadWidth
           down == FALSE
           torn == FALSE
           q == s'
<1>1. s \in PadsState BY PadsHeldAre
<1>2. s' = [s EXCEPT !.pads = pads, !.JoyLS = down, !.n = n, !.pls = pls, !.at = at, !.torn = torn, !.heard = heard]
  BY DEF Pads!INPUT_AutoRead, Pads!Sports, Pads!Lines
<1>3. BothHeard(pads, words)
  <2> HIDE DEF first
  <2>1. first = Pads!AutoPort(0, s.pads) BY DEF first
  <2> HIDE DEF second
  <2>2. second = Pads!AutoPort(1, first.pads) BY DEF second
  <2>3. InTurn(words, first, second) BY DEF InTurn
  <2> HIDE DEF words
  <2> QED BY <2>1, <2>2, <2>3, <1>1, BothAutoRead
<1> HIDE DEF pads, words
<1>4. pads \in [PadActive -> PadState] /\ words \in [0 .. 1 -> [0 .. 1 -> Seq({0, 1})]] BY <1>3 DEF BothHeard
<1>5. none \in [0 .. 1 -> Seq({0, 1})]
  <2>1. <<>> \in Seq({0, 1}) OBVIOUS
  <2> QED BY <2>1
<1>6. \A line \in 0 .. 1 : none[line] = <<>> OBVIOUS
<1> HIDE DEF none
<1>7. heard \in Heards BY <1>4, <1>5 DEF Heards
<1>8. \A p \in 0 .. 1, iob \in BOOLEAN : heard[p][iob] = IF iob = Pads!Pair(p) THEN words[p] ELSE none OBVIOUS
<1>9. at \in [PadActive -> Buttons] BY <1>1, StrobeTaken
<1>10. pls \in [0 .. 1 -> BOOLEAN] /\ \A p \in 0 .. 1 : pls[p] = FALSE OBVIOUS
<1>11. n \in Nat /\ down \in BOOLEAN /\ torn \in BOOLEAN /\ ~torn BY DEF PadAssumption
<1>12. s.on \in SUBSET PadActive /\ s.wrio \in [0 .. 1 -> BOOLEAN] /\ s.taps \in [0 .. 1 -> BOOLEAN] BY <1>1, PadsPresent
<1> HIDE DEF heard, at, pls, n, down, torn
<1>13. q = [s EXCEPT !.on = s.on, !.pads = pads, !.JoyLS = down, !.pls = pls, !.wrio = s.wrio, !.at = at,
                     !.heard = heard, !.n = n, !.torn = torn]
  BY <1>1, <1>2 DEF PadsState
<1> HIDE DEF q
<1>14. Made(q, s.on, pads, down, pls, s.wrio, at, heard, torn)
  <2>0. /\ s \in PadsState /\ s.on \in SUBSET PadActive /\ pads \in [PadActive -> PadState] /\ down \in BOOLEAN
        /\ pls \in [0 .. 1 -> BOOLEAN] /\ s.wrio \in [0 .. 1 -> BOOLEAN] /\ at \in [PadActive -> Buttons]
        /\ heard \in Heards /\ n \in Nat /\ torn \in BOOLEAN
    BY <1>1, <1>4, <1>7, <1>9, <1>10, <1>11, <1>12
  <2>1. Made(Rebuilt(s.on, pads, down, pls, s.wrio, at, heard, n, torn),
           s.on, pads, down, pls, s.wrio, at, heard, torn)
    BY <2>0, PadsMade, SMTT(40)
  <2> QED BY <1>13, <2>1 DEF Rebuilt
<1>15. StrobesGood(q)
  <2>1. \A d \in Pads!Pads : pads[d].pls = FALSE
    <3>1. 0 \in 0 .. 1 /\ 1 \in 0 .. 1 OBVIOUS
    <3> QED BY <3>1, <1>3 DEF BothHeard, Pads!Pads
  <2>2. StrobedTo(pads, down, pls) BY <2>1, <1>10 DEF StrobedTo, down
  <2> QED BY <2>2, <1>14, StrobesKept
<1>16. ASSUME NEW p \in 0 .. 1, NEW iob \in BOOLEAN, NEW line \in 0 .. 1, IsSlot(s.taps, p, iob, line)
       PROVE  SlotGood(q, Pads!Wired(p, line, iob, s.taps), heard[p][iob][line])
  <2> DEFINE h == heard[p][iob][line]
  <2>1. iob = Pads!Pair(p) => h = words[p][line] BY <1>8
  <2>2. HandedTo(h, words, p, iob, line) BY <2>1, <1>6, <1>8 DEF HandedTo
  <2>3. Made(q, s.on, pads, FALSE, pls, s.wrio, Pads!AtStrobe, heard, torn) BY <1>14 DEF down, at
  <2> HIDE DEF h
  <2>4. SlotGood(q, Pads!Wired(p, line, iob, s.taps), h) BY <2>2, <2>3, <1>1, <1>3, <1>16, SlotsRead
  <2> QED BY <2>4 DEF h
<1>17. q \in PadsState /\ q.taps = s.taps /\ q.heard = heard BY <1>14 DEF Made
<1>18. PadsGood(q) BY <1>15, <1>16, <1>17 DEF PadsGood, SlotsGood
<1>19. PadsHold(q) BY <1>11, <1>14, <1>18, PadsHeld
<1> QED BY <1>19 DEF q

\* Every operation keeps what the game hears.
LEMMA PadsNext ==
  ASSUME PadAssumption, PadsHold(s), Pads!Next
  PROVE  PadsHold(s')
<1>1. ASSUME NEW d \in PadHot, NEW gamepad \in BOOLEAN, Pads!INPUT_Set(d, gamepad) PROVE PadsHold(s')
  BY <1>1, PadSet
<1>2. ASSUME NEW buttons \in PadPatterns, Pads!Update(buttons) PROVE PadsHold(s') BY <1>2, PadsUpdated
<1>3. ASSUME NEW state \in BOOLEAN, Pads!Write_4016(state) PROVE PadsHold(s') BY <1>3, PadsWritten
<1>4. ASSUME NEW state \in BOOLEAN, Pads!INPUT_Reset(state) PROVE PadsHold(s') BY <1>4, PadsReset
<1>5. ASSUME NEW one \in BOOLEAN, NEW two \in BOOLEAN,
             Pads!Write_WRIO([p \in 0 .. 1 |-> IF p = 0 THEN one ELSE two])
      PROVE PadsHold(s')
  <2> DEFINE bits == [p \in 0 .. 1 |-> IF p = 0 THEN one ELSE two]
  <2>1. bits \in [0 .. 1 -> BOOLEAN] /\ Pads!Write_WRIO(bits) BY <1>5
  <2> HIDE DEF bits
  <2> QED BY <2>1, WrioWritten
<1>6. ASSUME NEW p \in 0 .. 1, Pads!ReadPort(p) PROVE PadsHold(s') BY <1>6, PadsRead
<1>7. CASE Pads!INPUT_AutoRead BY <1>7, PadsAutoRead
<1>8. ASSUME NEW file \in PadSaves, NEW cut \in PadCuts, Pads!INPUT_StateAction(file, cut) PROVE PadsHold(s')
  BY <1>8, PadsLoaded
<1> QED BY <1>1, <1>2, <1>3, <1>4, <1>5, <1>6, <1>7, <1>8 DEF Pads!Next, Pads!Sports

\* A game that was just loaded.
LEMMA PadsStarts ==
  ASSUME PadAssumption, Pads!Init
  PROVE  PadsHold(s)
<1>1. PICK taps \in [0 .. 1 -> BOOLEAN] : s = Pads!Loaded(taps) BY DEF Pads!Init, Pads!Sports
<1> DEFINE pads == [d \in PadActive |-> Pads!NewPad]
           at == [d \in PadActive |-> Pads!Ones]
           pls == [p \in 0 .. 1 |-> FALSE]
           wrio == [p \in 0 .. 1 |-> TRUE]
           heard == Pads!Nothing
           down == FALSE
<1>2. s = [pads |-> pads, on |-> PadActive, taps |-> taps, pls |-> pls, wrio |-> wrio, JoyLS |-> down, at |-> at,
           heard |-> heard, n |-> 0, torn |-> down]
  BY <1>1 DEF Pads!Loaded, Pads!Sports
<1>3. Pads!NewPad \in PadState /\ Pads!NewPad.pls = FALSE /\ Pads!NewPad.latched = <<>>
  <2>1. [i \in 1 .. PadWidth |-> 0] \in Buttons BY DEF Buttons
  <2>2. <<>> \in Seq({0, 1}) OBVIOUS
  <2> QED BY <2>1, <2>2 DEF Pads!NewPad, PadState
<1>4. Pads!Ones \in Buttons /\ 0 \in Nat /\ Rests(<<>>, Pads!Ones, 0) BY RestsPowered
<1>5. pads \in [PadActive -> PadState] /\ \A d \in PadActive : pads[d].pls = FALSE /\ pads[d].latched = <<>> BY <1>3
<1>6. at \in [PadActive -> Buttons] /\ \A d \in PadActive : at[d] = Pads!Ones BY <1>4
<1>7. /\ pls \in [0 .. 1 -> BOOLEAN] /\ wrio \in [0 .. 1 -> BOOLEAN] /\ down \in BOOLEAN
      /\ \A p \in 0 .. 1 : pls[p] = FALSE
  OBVIOUS
<1>8. heard \in Heards /\ \A p \in 0 .. 1, iob \in BOOLEAN, line \in 0 .. 1 : heard[p][iob][line] = <<>>
  BY NothingHeard DEF Unheard
<1> HIDE DEF pads, at, pls, wrio, heard, down
<1>9. s \in PadsState
  <2>1. PadActive \in SUBSET PadActive /\ 0 \in Nat OBVIOUS
  <2> QED BY <2>1, <1>2, <1>5, <1>6, <1>7, <1>8 DEF PadsState, Heards
<1>10. /\ s.pads = pads /\ s.on = PadActive /\ s.taps = taps /\ s.pls = pls /\ s.JoyLS = FALSE /\ s.at = at
       /\ s.heard = heard /\ ~s.torn
  BY <1>2 DEF down
<1>11. PadsOf(s) \subseteq PadActive BY <1>10 DEF PadsOf
<1>12. StrobesGood(s) BY <1>5, <1>7, <1>10, <1>11 DEF StrobesGood
<1>13. ASSUME NEW p \in 0 .. 1, NEW iob \in BOOLEAN, NEW line \in 0 .. 1, IsSlot(s.taps, p, iob, line)
       PROVE  SlotGood(s, Pads!Wired(p, line, iob, s.taps), s.heard[p][iob][line])
  <2> DEFINE d == Pads!Wired(p, line, iob, s.taps)
  <2>1. s.heard[p][iob][line] = <<>> BY <1>8, <1>10
  <2> HIDE DEF d
  <2>2. d \in s.on => Rests(s.pads[d].latched, s.at[d], 0) BY <1>4, <1>5, <1>6, <1>10
  <2>3. SlotGood(s, d, <<>>) BY <2>2, SlotEmpty
  <2> QED BY <2>1, <2>3 DEF d
<1>14. PadsGood(s) BY <1>9, <1>12, <1>13 DEF PadsGood, SlotsGood
<1> QED BY <1>9, <1>10, <1>14 DEF PadsHold

\* What InputPorts promises.
LEMMA PadsSound ==
  ASSUME PadAssumption, PadsHold(s)
  PROVE  Pads!InputSound
<1>0. s \in PadsState /\ s.torn \in BOOLEAN /\ (s.torn => Unheard(s.heard)) /\ (~s.torn => PadsGood(s))
  BY PadsHeldAre
<1>2. s.heard \in Heards /\ PadWidth \in Nat BY <1>0, PadsPresent DEF PadAssumption
<1>3. ASSUME NEW p \in 0 .. 1, NEW iob \in BOOLEAN, NEW line \in 0 .. 1, IsSlot(s.taps, p, iob, line)
      PROVE  Pads!Told(Pads!Wired(p, line, iob, s.taps), s.heard[p][iob][line])
  <2> DEFINE d == Pads!Wired(p, line, iob, s.taps)
             h == s.heard[p][iob][line]
  <2>4. h \in Seq({0, 1})
    <3>1. s.heard[p] \in [BOOLEAN -> [0 .. 1 -> Seq({0, 1})]] BY <1>2 DEF Heards
    <3> QED BY <3>1
  <2>5. s.torn => h = <<>> BY <1>0 DEF Unheard
  <2>6. ~s.torn => SlotGood(s, d, h) BY <1>0, <1>3 DEF PadsGood, SlotsGood
  <2> HIDE DEF d, h
  <2>7. DOMAIN h = 1 .. Len(h) BY <2>4
  <2>8. Pads!Told(d, h)
    <3>1. CASE s.torn
      <4>1. DOMAIN h = {} BY <3>1, <2>5
      <4> QED BY <4>1 DEF Pads!Told
    <3>2. CASE ~s.torn /\ d \notin s.on BY <3>2, <2>6, <2>7 DEF SlotGood, Pads!Told
    <3>3. CASE ~s.torn /\ d \in s.on
      <4>1. \A i \in 1 .. Len(h) : h[i] = Given(s.at[d], i) BY <3>3, <2>6 DEF SlotGood
      <4>2. \A i \in 1 .. Len(h) : h[i] = IF i > PadWidth THEN 1 ELSE s.at[d][i] BY <4>1 DEF Given
      <4> QED BY <4>2, <3>3, <2>7 DEF Pads!Told
    <3> QED BY <1>0, <3>1, <3>2, <3>3
  <2> QED BY <2>8 DEF d, h
<1>4. ASSUME NEW p \in 0 .. 1
      PROVE  \A iob \in IF s.taps[p] THEN BOOLEAN ELSE {TRUE} : \A line \in Pads!Live(p) :
               iob \in BOOLEAN /\ line \in 0 .. 1 /\ IsSlot(s.taps, p, iob, line)
  <2>1. CASE s.taps[p]
    <3>1. Pads!Live(p) = 0 .. 1 BY <2>1 DEF Pads!Live, Pads!Lines
    <3>2. \A iob \in BOOLEAN : \A line \in 0 .. 1 : IsSlot(s.taps, p, iob, line) BY <2>1 DEF IsSlot
    <3>3. (IF s.taps[p] THEN BOOLEAN ELSE {TRUE}) = BOOLEAN BY <2>1
    <3> QED BY <3>1, <3>2, <3>3, Zenon
  <2>2. CASE ~s.taps[p]
    <3>1. Pads!Live(p) = {0} BY <2>2 DEF Pads!Live, Pads!Lines
    <3>2. IsSlot(s.taps, p, TRUE, 0) BY DEF IsSlot
    <3>3. (IF s.taps[p] THEN BOOLEAN ELSE {TRUE}) = {TRUE} BY <2>2
    <3>4. TRUE \in BOOLEAN /\ 0 \in 0 .. 1 OBVIOUS
    <3>5. \A iob \in {TRUE} : iob = TRUE OBVIOUS
    <3>6. \A line \in {0} : line = 0 OBVIOUS
    <3> QED BY <3>1, <3>2, <3>3, <3>4, <3>5, <3>6, Zenon
  <2> QED BY <2>1, <2>2
<1>5. ~s.torn => Pads!Agree(s.pads, s.pls, s.JoyLS)
  <2>1. SUFFICES ASSUME PadsGood(s) PROVE Pads!Agree(s.pads, s.pls, s.JoyLS) BY <1>0
  <2>2. StrobedTo(s.pads, s.JoyLS, s.pls) BY <2>1, PadsAre
  <2> QED BY <2>2 DEF StrobedTo, Pads!Agree, Pads!Sports
<1>6. \A p \in 0 .. 1 : \A iob \in IF s.taps[p] THEN BOOLEAN ELSE {TRUE} : \A line \in Pads!Live(p) :
        Pads!Told(Pads!Wired(p, line, iob, s.taps), s.heard[p][iob][line])
  BY <1>3, <1>4, Zenon
<1> QED BY <1>5, <1>6 DEF Pads!InputSound, Pads!Sports

----------------------------------------------------------------------------
(* The two copies of the PPU.                                              *)

\* What a copy's fields hold; the picture's are all but the palette's.
Cells == [lo : Nat, hi : Nat]
Kind ==
  [blank |-> BOOLEAN, plain |-> Nat, BGOFSPrev |-> Nat, BGHOFS |-> Nat \X Nat, M7Prev |-> Nat,
   M7HOFS |-> Nat \X Nat, M7A |-> Nat \X Nat,
   OAMADDL |-> Nat, OAMADDH |-> Nat, OAM_Addr |-> 0 .. 7, OAM_Buffer |-> Nat,
   OAM |-> [0 .. 3 -> Nat], OAMHI |-> [0 .. 1 -> Nat],
   IncMode |-> BOOLEAN, AddrInc |-> Nat, Trans |-> BOOLEAN, VRAM_Addr |-> 0 .. 3,
   VRAM |-> [0 .. 3 -> Cells],
   CGRAM_Addr |-> 0 .. 1, CGRAM_Toggle |-> BOOLEAN, CGRAM_Buffer |-> Nat, CGRAM |-> [0 .. 1 -> Cells]]
PpuFields == DOMAIN Kind
PaletteFields == {"CGRAM_Addr", "CGRAM_Toggle", "CGRAM_Buffer", "CGRAM"}
PictureFields == PpuFields \ PaletteFields
PpuState == {x \in [PpuFields -> UNION {Kind[f] : f \in PpuFields}] : \A f \in PpuFields : x[f] \in Kind[f]}

\* One field is given a value.
Puts(x, f, e) == [x EXCEPT ![f] = e]
SameOn(F, x, y) == \A f \in F : x[f] = y[f]

LEMMA FieldsAre ==
  PpuFields = {"blank", "plain", "BGOFSPrev", "BGHOFS", "M7Prev", "M7HOFS", "M7A", "OAMADDL", "OAMADDH",
               "OAM_Addr", "OAM_Buffer", "OAM", "OAMHI", "IncMode", "AddrInc", "Trans", "VRAM_Addr", "VRAM",
               "CGRAM_Addr", "CGRAM_Toggle", "CGRAM_Buffer", "CGRAM"}
BY DEF PpuFields, Kind

LEMMA PutsIs ==
  ASSUME NEW x \in PpuState, NEW f \in PpuFields, NEW e \in Kind[f]
  PROVE  /\ Puts(x, f, e) \in PpuState
         /\ Puts(x, f, e)[f] = e
         /\ \A g \in PpuFields \ {f} : Puts(x, f, e)[g] = x[g]
<1> DEFINE All == UNION {Kind[g] : g \in PpuFields}
<1>1. x \in [PpuFields -> All] /\ \A g \in PpuFields : x[g] \in Kind[g] BY DEF PpuState
<1>2. e \in All OBVIOUS
<1> HIDE DEF All
<1>3. Puts(x, f, e) \in [PpuFields -> All] BY <1>1, <1>2 DEF Puts
<1>4. /\ Puts(x, f, e)[f] = e
      /\ \A g \in PpuFields \ {f} : Puts(x, f, e)[g] = x[g]
  BY <1>1 DEF Puts
<1>5. \A g \in PpuFields : Puts(x, f, e)[g] \in Kind[g] BY <1>1, <1>4
<1> QED BY <1>3, <1>4, <1>5 DEF PpuState, All

LEMMA SameState ==
  ASSUME NEW x \in PpuState, NEW y \in PpuState, SameOn(PpuFields, x, y)
  PROVE  x = y
BY DEF PpuState, SameOn

\* Two fields are given values in either order; a field its own value.
LEMMA PutsCommute ==
  ASSUME NEW x \in PpuState, NEW f \in PpuFields, NEW e \in Kind[f], NEW g \in PpuFields, NEW d \in Kind[g], f # g
  PROVE  Puts(Puts(x, f, e), g, d) = Puts(Puts(x, g, d), f, e)
<1> DEFINE one == Puts(x, f, e)
           two == Puts(x, g, d)
<1>1. /\ one \in PpuState /\ one[f] = e /\ \A k \in PpuFields \ {f} : one[k] = x[k]
      /\ two \in PpuState /\ two[g] = d /\ \A k \in PpuFields \ {g} : two[k] = x[k]
  BY PutsIs
<1> HIDE DEF one, two
<1>2. /\ Puts(one, g, d) \in PpuState /\ Puts(one, g, d)[g] = d
      /\ \A k \in PpuFields \ {g} : Puts(one, g, d)[k] = one[k]
  BY <1>1, PutsIs
<1>3. /\ Puts(two, f, e) \in PpuState /\ Puts(two, f, e)[f] = e
      /\ \A k \in PpuFields \ {f} : Puts(two, f, e)[k] = two[k]
  BY <1>1, PutsIs
<1>4. SameOn(PpuFields, Puts(one, g, d), Puts(two, f, e)) BY <1>1, <1>2, <1>3 DEF SameOn
<1>5. Puts(one, g, d) = Puts(two, f, e) BY <1>2, <1>3, <1>4, SameState
<1> QED BY <1>5 DEF one, two

LEMMA PutsAgain ==
  ASSUME NEW x \in PpuState, NEW f \in PpuFields, NEW e \in Kind[f], NEW d \in Kind[f]
  PROVE  Puts(Puts(x, f, e), f, d) = Puts(x, f, d)
<1> DEFINE one == Puts(x, f, e)
           two == Puts(x, f, d)
<1>1. /\ one \in PpuState /\ \A k \in PpuFields \ {f} : one[k] = x[k]
      /\ two \in PpuState /\ two[f] = d /\ \A k \in PpuFields \ {f} : two[k] = x[k]
  BY PutsIs
<1> HIDE DEF one, two
<1>2. /\ Puts(one, f, d) \in PpuState /\ Puts(one, f, d)[f] = d
      /\ \A k \in PpuFields \ {f} : Puts(one, f, d)[k] = one[k]
  BY <1>1, PutsIs
<1>3. SameOn(PpuFields, Puts(one, f, d), two) BY <1>1, <1>2 DEF SameOn
<1>4. Puts(one, f, d) = two BY <1>1, <1>2, <1>3, SameState
<1> QED BY <1>4 DEF one, two

LEMMA PutsNothing ==
  ASSUME NEW x \in PpuState, NEW f \in PpuFields
  PROVE  Puts(x, f, x[f]) = x
BY DEF PpuState, Puts

\* What is put into copies that are alike.
LEMMA PutsAlike ==
  ASSUME NEW F, F \subseteq PpuFields, NEW x \in PpuState, NEW y \in PpuState, SameOn(F, x, y),
         NEW f \in PpuFields, NEW e \in Kind[f], NEW d \in Kind[f], e = d \/ f \notin F
  PROVE  /\ Puts(x, f, e) \in PpuState /\ Puts(y, f, d) \in PpuState
         /\ SameOn(F, Puts(x, f, e), Puts(y, f, d))
<1>1. /\ Puts(x, f, e) \in PpuState
      /\ Puts(x, f, e)[f] = e
      /\ \A g \in PpuFields \ {f} : Puts(x, f, e)[g] = x[g]
  BY PutsIs
<1>2. /\ Puts(y, f, d) \in PpuState
      /\ Puts(y, f, d)[f] = d
      /\ \A g \in PpuFields \ {f} : Puts(y, f, d)[g] = y[g]
  BY PutsIs
<1> QED BY <1>1, <1>2 DEF SameOn

LEMMA FieldsOf ==
  ASSUME NEW x \in PpuState
  PROVE  /\ x.blank \in BOOLEAN /\ x.plain \in Nat /\ x.BGOFSPrev \in Nat /\ x.BGHOFS \in Nat \X Nat
         /\ x.M7Prev \in Nat /\ x.M7HOFS \in Nat \X Nat /\ x.M7A \in Nat \X Nat
         /\ x.OAMADDL \in Nat /\ x.OAMADDH \in Nat /\ x.OAM_Addr \in 0 .. 7 /\ x.OAM_Buffer \in Nat
         /\ x.OAM \in [0 .. 3 -> Nat] /\ x.OAMHI \in [0 .. 1 -> Nat]
         /\ x.IncMode \in BOOLEAN /\ x.AddrInc \in Nat /\ x.Trans \in BOOLEAN /\ x.VRAM_Addr \in 0 .. 3
         /\ x.VRAM \in [0 .. 3 -> Cells]
         /\ x.CGRAM_Addr \in 0 .. 1 /\ x.CGRAM_Toggle \in BOOLEAN /\ x.CGRAM_Buffer \in Nat
         /\ x.CGRAM \in [0 .. 1 -> Cells]
<1>1. \A f \in PpuFields : x[f] \in Kind[f] BY DEF PpuState
<1> QED BY <1>1, FieldsAre DEF Kind

LEMMA SameFields ==
  ASSUME NEW x, NEW y, SameOn(PictureFields, x, y)
  PROVE  /\ x.blank = y.blank /\ x.plain = y.plain /\ x.BGOFSPrev = y.BGOFSPrev /\ x.BGHOFS = y.BGHOFS
         /\ x.M7Prev = y.M7Prev /\ x.M7HOFS = y.M7HOFS /\ x.M7A = y.M7A
         /\ x.OAMADDL = y.OAMADDL /\ x.OAMADDH = y.OAMADDH /\ x.OAM_Addr = y.OAM_Addr
         /\ x.OAM_Buffer = y.OAM_Buffer /\ x.OAM = y.OAM /\ x.OAMHI = y.OAMHI
         /\ x.IncMode = y.IncMode /\ x.AddrInc = y.AddrInc /\ x.Trans = y.Trans
         /\ x.VRAM_Addr = y.VRAM_Addr /\ x.VRAM = y.VRAM
         /\ Mirror!VAddr(x) = Mirror!VAddr(y) /\ Mirror!RReload(x) = Mirror!RReload(y)
<1>1. /\ x.blank = y.blank /\ x.plain = y.plain /\ x.BGOFSPrev = y.BGOFSPrev /\ x.BGHOFS = y.BGHOFS
      /\ x.M7Prev = y.M7Prev /\ x.M7HOFS = y.M7HOFS /\ x.M7A = y.M7A
      /\ x.OAMADDL = y.OAMADDL /\ x.OAMADDH = y.OAMADDH /\ x.OAM_Addr = y.OAM_Addr
      /\ x.OAM_Buffer = y.OAM_Buffer /\ x.OAM = y.OAM /\ x.OAMHI = y.OAMHI
      /\ x.IncMode = y.IncMode /\ x.AddrInc = y.AddrInc /\ x.Trans = y.Trans
      /\ x.VRAM_Addr = y.VRAM_Addr /\ x.VRAM = y.VRAM
  BY FieldsAre DEF SameOn, PictureFields, PaletteFields
<1> QED BY <1>1 DEF Mirror!VAddr, Mirror!RReload

\* Values of commands.
Commands ==
  {"2100", "plain", "BGHOFS", "M7A", "OAMADDL", "OAMADDH", "OAMDATA", "uniracers", "OAMDATAREAD",
   "2115", "VMADDL", "VMADDH", "2118", "2119", "VMDATAREAD", "CGADD", "CGDATA", "line", "vblank"}
Modes == BOOLEAN \X Nat \X BOOLEAN
ValuesOf(a) == IF a = "2100" THEN BOOLEAN ELSE IF a = "2115" THEN Modes ELSE Nat

\* A command makes states of states, alike ones of alike ones.
Steady(a, v) ==
  \A x, y \in PpuState : SameOn(PictureFields, x, y) =>
    /\ Mirror!Executed(x, a, v) \in PpuState /\ Mirror!Executed(y, a, v) \in PpuState
    /\ SameOn(PictureFields, Mirror!Executed(x, a, v), Mirror!Executed(y, a, v))

\* A picture's field is put the same into both, and one of the palette anything.
LEMMA PicturePut ==
  ASSUME NEW x \in PpuState, NEW y \in PpuState, SameOn(PictureFields, x, y),
         NEW f \in PictureFields, NEW e \in Kind[f]
  PROVE  /\ Puts(x, f, e) \in PpuState /\ Puts(y, f, e) \in PpuState
         /\ SameOn(PictureFields, Puts(x, f, e), Puts(y, f, e))
<1>1. f \in PpuFields /\ PictureFields \subseteq PpuFields BY DEF PictureFields
<1> QED BY <1>1, PutsAlike

LEMMA PalettePut ==
  ASSUME NEW x \in PpuState, NEW y \in PpuState, SameOn(PictureFields, x, y),
         NEW f \in PaletteFields, NEW e \in Kind[f], NEW d \in Kind[f]
  PROVE  /\ Puts(x, f, e) \in PpuState /\ Puts(y, f, d) \in PpuState
         /\ SameOn(PictureFields, Puts(x, f, e), Puts(y, f, d))
<1>1. f \in PpuFields /\ PictureFields \subseteq PpuFields /\ f \notin PictureFields
  BY FieldsAre DEF PictureFields, PaletteFields
<1> QED BY <1>1, PutsAlike

LEMMA PictureKinds ==
  /\ PictureFields = {"blank", "plain", "BGOFSPrev", "BGHOFS", "M7Prev", "M7HOFS", "M7A", "OAMADDL", "OAMADDH",
               "OAM_Addr", "OAM_Buffer", "OAM", "OAMHI", "IncMode", "AddrInc", "Trans", "VRAM_Addr", "VRAM"}
  /\ Kind["blank"] = BOOLEAN /\ Kind["plain"] = Nat /\ Kind["BGOFSPrev"] = Nat /\ Kind["BGHOFS"] = Nat \X Nat
  /\ Kind["M7Prev"] = Nat /\ Kind["M7HOFS"] = Nat \X Nat /\ Kind["M7A"] = Nat \X Nat
  /\ Kind["OAMADDL"] = Nat /\ Kind["OAMADDH"] = Nat /\ Kind["OAM_Addr"] = 0 .. 7 /\ Kind["OAM_Buffer"] = Nat
  /\ Kind["OAM"] = [0 .. 3 -> Nat] /\ Kind["OAMHI"] = [0 .. 1 -> Nat]
  /\ Kind["IncMode"] = BOOLEAN /\ Kind["AddrInc"] = Nat /\ Kind["Trans"] = BOOLEAN /\ Kind["VRAM_Addr"] = 0 .. 3
  /\ Kind["VRAM"] = [0 .. 3 -> Cells]
  /\ Kind["CGRAM_Addr"] = 0 .. 1 /\ Kind["CGRAM_Toggle"] = BOOLEAN /\ Kind["CGRAM_Buffer"] = Nat
  /\ Kind["CGRAM"] = [0 .. 1 -> Cells]
BY FieldsAre DEF Kind, PictureFields, PaletteFields

LEMMA SteadyPlain == ASSUME NEW v \in Nat PROVE Steady("plain", v)
<1>1. \A z : Mirror!Executed(z, "plain", v) = Puts(z, "plain", v) BY DEF Mirror!Executed, Puts
<1> QED BY <1>1, PicturePut, PictureKinds DEF Steady


LEMMA Steady2100 == ASSUME NEW v \in BOOLEAN PROVE Steady("2100", v)
<1> DEFINE Address(z) == IF z.blank /\ ~v THEN Mirror!RReload(z) ELSE z.OAM_Addr
<1>1. \A z : Mirror!Executed(z, "2100", v) = Puts(Puts(z, "OAM_Addr", Address(z)), "blank", v)
  BY DEF Mirror!Executed, Puts
<1> SUFFICES ASSUME NEW x \in PpuState, NEW y \in PpuState, SameOn(PictureFields, x, y)
             PROVE  /\ Mirror!Executed(x, "2100", v) \in PpuState /\ Mirror!Executed(y, "2100", v) \in PpuState
                    /\ SameOn(PictureFields, Mirror!Executed(x, "2100", v), Mirror!Executed(y, "2100", v))
  BY DEF Steady
<1>2. Address(x) = Address(y) BY SameFields
<1>3. Address(x) \in 0 .. 7
  <2>1. Mirror!RReload(x) \in 0 .. 7 BY FieldsOf DEF Mirror!RReload, Mirror!OamEnd
  <2> QED BY <2>1, FieldsOf
<1> HIDE DEF Address
<1> DEFINE p1 == Puts(x, "OAM_Addr", Address(x))
           q1 == Puts(y, "OAM_Addr", Address(y))
<1>4. p1 \in PpuState /\ q1 \in PpuState /\ SameOn(PictureFields, p1, q1) BY <1>2, <1>3, PicturePut, PictureKinds
<1> HIDE DEF p1, q1
<1> DEFINE p2 == Puts(p1, "blank", v)
           q2 == Puts(q1, "blank", v)
<1>5. p2 \in PpuState /\ q2 \in PpuState /\ SameOn(PictureFields, p2, q2) BY <1>4, PicturePut, PictureKinds
<1> HIDE DEF p2, q2
<1> QED BY <1>1, <1>5 DEF p1, q1, p2, q2

LEMMA SteadyBGHOFS == ASSUME NEW v \in Nat PROVE Steady("BGHOFS", v)
<1> DEFINE Scroll(z) == <<z.BGOFSPrev, v>>
           Matrix(z) == <<z.M7Prev, v>>
<1>1. \A z : Mirror!Executed(z, "BGHOFS", v) = Puts(Puts(Puts(Puts(z, "BGHOFS", Scroll(z)), "BGOFSPrev", v), "M7HOFS", Matrix(z)), "M7Prev", v)
  BY DEF Mirror!Executed, Puts
<1> SUFFICES ASSUME NEW x \in PpuState, NEW y \in PpuState, SameOn(PictureFields, x, y)
             PROVE  /\ Mirror!Executed(x, "BGHOFS", v) \in PpuState /\ Mirror!Executed(y, "BGHOFS", v) \in PpuState
                    /\ SameOn(PictureFields, Mirror!Executed(x, "BGHOFS", v), Mirror!Executed(y, "BGHOFS", v))
  BY DEF Steady
<1>2. Scroll(x) = Scroll(y) /\ Matrix(x) = Matrix(y) BY SameFields
<1>3. Scroll(x) \in Nat \X Nat /\ Matrix(x) \in Nat \X Nat BY FieldsOf
<1> HIDE DEF Scroll, Matrix
<1> DEFINE p1 == Puts(x, "BGHOFS", Scroll(x))
           q1 == Puts(y, "BGHOFS", Scroll(y))
<1>4. p1 \in PpuState /\ q1 \in PpuState /\ SameOn(PictureFields, p1, q1) BY <1>2, <1>3, PicturePut, PictureKinds
<1> HIDE DEF p1, q1
<1> DEFINE p2 == Puts(p1, "BGOFSPrev", v)
           q2 == Puts(q1, "BGOFSPrev", v)
<1>5. p2 \in PpuState /\ q2 \in PpuState /\ SameOn(PictureFields, p2, q2) BY <1>4, PicturePut, PictureKinds
<1> HIDE DEF p2, q2
<1> DEFINE p3 == Puts(p2, "M7HOFS", Matrix(x))
           q3 == Puts(q2, "M7HOFS", Matrix(y))
<1>6. p3 \in PpuState /\ q3 \in PpuState /\ SameOn(PictureFields, p3, q3) BY <1>2, <1>3, <1>5, PicturePut, PictureKinds
<1> HIDE DEF p3, q3
<1> DEFINE p4 == Puts(p3, "M7Prev", v)
           q4 == Puts(q3, "M7Prev", v)
<1>7. p4 \in PpuState /\ q4 \in PpuState /\ SameOn(PictureFields, p4, q4) BY <1>6, PicturePut, PictureKinds
<1> HIDE DEF p4, q4
<1> QED BY <1>1, <1>7 DEF p1, q1, p2, q2, p3, q3, p4, q4

LEMMA SteadyM7A == ASSUME NEW v \in Nat PROVE Steady("M7A", v)
<1> DEFINE Matrix(z) == <<z.M7Prev, v>>
<1>1. \A z : Mirror!Executed(z, "M7A", v) = Puts(Puts(z, "M7A", Matrix(z)), "M7Prev", v)
  BY DEF Mirror!Executed, Puts
<1> SUFFICES ASSUME NEW x \in PpuState, NEW y \in PpuState, SameOn(PictureFields, x, y)
             PROVE  /\ Mirror!Executed(x, "M7A", v) \in PpuState /\ Mirror!Executed(y, "M7A", v) \in PpuState
                    /\ SameOn(PictureFields, Mirror!Executed(x, "M7A", v), Mirror!Executed(y, "M7A", v))
  BY DEF Steady
<1>2. Matrix(x) = Matrix(y) BY SameFields
<1>3. Matrix(x) \in Nat \X Nat BY FieldsOf
<1> HIDE DEF Matrix
<1> DEFINE p1 == Puts(x, "M7A", Matrix(x))
           q1 == Puts(y, "M7A", Matrix(y))
<1>4. p1 \in PpuState /\ q1 \in PpuState /\ SameOn(PictureFields, p1, q1) BY <1>2, <1>3, PicturePut, PictureKinds
<1> HIDE DEF p1, q1
<1> DEFINE p2 == Puts(p1, "M7Prev", v)
           q2 == Puts(q1, "M7Prev", v)
<1>5. p2 \in PpuState /\ q2 \in PpuState /\ SameOn(PictureFields, p2, q2) BY <1>4, PicturePut, PictureKinds
<1> HIDE DEF p2, q2
<1> QED BY <1>1, <1>5 DEF p1, q1, p2, q2

LEMMA ExecutedOAMADDL ==
  ASSUME NEW v \in Nat, NEW z \in PpuState
  PROVE  Mirror!Executed(z, "OAMADDL", v) = Puts(Puts(z, "OAMADDL", v), "OAM_Addr", ((2 * v) + (4 * z.OAMADDH)) % 8)
<1>1. Mirror!RReload([z EXCEPT !.OAMADDL = v]) = ((2 * v) + (4 * z.OAMADDH)) % 8
  <2>0. "OAMADDL" \in PpuFields /\ "OAMADDH" \in PpuFields \ {"OAMADDL"} /\ v \in Kind["OAMADDL"]
    BY FieldsAre, PictureKinds
  <2>1. Puts(z, "OAMADDL", v)["OAMADDL"] = v /\ Puts(z, "OAMADDL", v)["OAMADDH"] = z["OAMADDH"]
    BY <2>0, PutsIs
  <2> QED BY <2>1 DEF Puts, Mirror!RReload, Mirror!OamEnd
<1>2. Mirror!Executed(z, "OAMADDL", v) = Puts(Puts(z, "OAMADDL", v), "OAM_Addr", Mirror!RReload([z EXCEPT !.OAMADDL = v]))
  BY DEF Mirror!Executed, Puts
<1> QED BY <1>1, <1>2

LEMMA SteadyOAMADDL == ASSUME NEW v \in Nat PROVE Steady("OAMADDL", v)
<1> DEFINE Address(z) == ((2 * v) + (4 * z.OAMADDH)) % 8
<1>1. \A z \in PpuState : Mirror!Executed(z, "OAMADDL", v) = Puts(Puts(z, "OAMADDL", v), "OAM_Addr", Address(z))
  BY ExecutedOAMADDL
<1> SUFFICES ASSUME NEW x \in PpuState, NEW y \in PpuState, SameOn(PictureFields, x, y)
             PROVE  /\ Mirror!Executed(x, "OAMADDL", v) \in PpuState /\ Mirror!Executed(y, "OAMADDL", v) \in PpuState
                    /\ SameOn(PictureFields, Mirror!Executed(x, "OAMADDL", v), Mirror!Executed(y, "OAMADDL", v))
  BY DEF Steady
<1>2. Address(x) = Address(y) BY SameFields
<1>3. Address(x) \in 0 .. 7 BY FieldsOf
<1> HIDE DEF Address
<1> DEFINE p1 == Puts(x, "OAMADDL", v)
           q1 == Puts(y, "OAMADDL", v)
<1>4. p1 \in PpuState /\ q1 \in PpuState /\ SameOn(PictureFields, p1, q1) BY PicturePut, PictureKinds
<1> HIDE DEF p1, q1
<1> DEFINE p2 == Puts(p1, "OAM_Addr", Address(x))
           q2 == Puts(q1, "OAM_Addr", Address(y))
<1>5. p2 \in PpuState /\ q2 \in PpuState /\ SameOn(PictureFields, p2, q2) BY <1>2, <1>3, <1>4, PicturePut, PictureKinds
<1> HIDE DEF p2, q2
<1> QED BY <1>1, <1>5 DEF p1, q1, p2, q2

LEMMA ExecutedOAMADDH ==
  ASSUME NEW v \in Nat, NEW z \in PpuState
  PROVE  Mirror!Executed(z, "OAMADDH", v) = Puts(Puts(z, "OAMADDH", v), "OAM_Addr", ((2 * z.OAMADDL) + (4 * v)) % 8)
<1>1. Mirror!RReload([z EXCEPT !.OAMADDH = v]) = ((2 * z.OAMADDL) + (4 * v)) % 8
  <2>0. "OAMADDH" \in PpuFields /\ "OAMADDL" \in PpuFields \ {"OAMADDH"} /\ v \in Kind["OAMADDH"]
    BY FieldsAre, PictureKinds
  <2>1. Puts(z, "OAMADDH", v)["OAMADDH"] = v /\ Puts(z, "OAMADDH", v)["OAMADDL"] = z["OAMADDL"]
    BY <2>0, PutsIs
  <2> QED BY <2>1 DEF Puts, Mirror!RReload, Mirror!OamEnd
<1>2. Mirror!Executed(z, "OAMADDH", v) = Puts(Puts(z, "OAMADDH", v), "OAM_Addr", Mirror!RReload([z EXCEPT !.OAMADDH = v]))
  BY DEF Mirror!Executed, Puts
<1> QED BY <1>1, <1>2

LEMMA SteadyOAMADDH == ASSUME NEW v \in Nat PROVE Steady("OAMADDH", v)
<1> DEFINE Address(z) == ((2 * z.OAMADDL) + (4 * v)) % 8
<1>1. \A z \in PpuState : Mirror!Executed(z, "OAMADDH", v) = Puts(Puts(z, "OAMADDH", v), "OAM_Addr", Address(z))
  BY ExecutedOAMADDH
<1> SUFFICES ASSUME NEW x \in PpuState, NEW y \in PpuState, SameOn(PictureFields, x, y)
             PROVE  /\ Mirror!Executed(x, "OAMADDH", v) \in PpuState /\ Mirror!Executed(y, "OAMADDH", v) \in PpuState
                    /\ SameOn(PictureFields, Mirror!Executed(x, "OAMADDH", v), Mirror!Executed(y, "OAMADDH", v))
  BY DEF Steady
<1>2. Address(x) = Address(y) BY SameFields
<1>3. Address(x) \in 0 .. 7 BY FieldsOf
<1> HIDE DEF Address
<1> DEFINE p1 == Puts(x, "OAMADDH", v)
           q1 == Puts(y, "OAMADDH", v)
<1>4. p1 \in PpuState /\ q1 \in PpuState /\ SameOn(PictureFields, p1, q1) BY PicturePut, PictureKinds
<1> HIDE DEF p1, q1
<1> DEFINE p2 == Puts(p1, "OAM_Addr", Address(x))
           q2 == Puts(q1, "OAM_Addr", Address(y))
<1>5. p2 \in PpuState /\ q2 \in PpuState /\ SameOn(PictureFields, p2, q2) BY <1>2, <1>3, <1>4, PicturePut, PictureKinds
<1> HIDE DEF p2, q2
<1> QED BY <1>1, <1>5 DEF p1, q1, p2, q2

LEMMA SteadyUniracers == ASSUME NEW v \in Nat PROVE Steady("uniracers", v)
<1> DEFINE High(z) == [z.OAMHI EXCEPT ![0] = v]
<1>1. \A z : Mirror!Executed(z, "uniracers", v) = Puts(z, "OAMHI", High(z))
  BY DEF Mirror!Executed, Puts
<1> SUFFICES ASSUME NEW x \in PpuState, NEW y \in PpuState, SameOn(PictureFields, x, y)
             PROVE  /\ Mirror!Executed(x, "uniracers", v) \in PpuState /\ Mirror!Executed(y, "uniracers", v) \in PpuState
                    /\ SameOn(PictureFields, Mirror!Executed(x, "uniracers", v), Mirror!Executed(y, "uniracers", v))
  BY DEF Steady
<1>2. High(x) = High(y) BY SameFields
<1>3. High(x) \in [0 .. 1 -> Nat] BY FieldsOf
<1> HIDE DEF High
<1> DEFINE p1 == Puts(x, "OAMHI", High(x))
           q1 == Puts(y, "OAMHI", High(y))
<1>4. p1 \in PpuState /\ q1 \in PpuState /\ SameOn(PictureFields, p1, q1) BY <1>2, <1>3, PicturePut, PictureKinds
<1> HIDE DEF p1, q1
<1> QED BY <1>1, <1>4 DEF p1, q1

LEMMA SteadyOAMREAD == ASSUME NEW v \in Nat PROVE Steady("OAMDATAREAD", v)
<1> DEFINE Address(z) == (z.OAM_Addr + 1) % 8
<1>1. \A z : Mirror!Executed(z, "OAMDATAREAD", v) = Puts(z, "OAM_Addr", Address(z))
  BY DEF Mirror!Executed, Puts, Mirror!OamEnd
<1> SUFFICES ASSUME NEW x \in PpuState, NEW y \in PpuState, SameOn(PictureFields, x, y)
             PROVE  /\ Mirror!Executed(x, "OAMDATAREAD", v) \in PpuState /\ Mirror!Executed(y, "OAMDATAREAD", v) \in PpuState
                    /\ SameOn(PictureFields, Mirror!Executed(x, "OAMDATAREAD", v), Mirror!Executed(y, "OAMDATAREAD", v))
  BY DEF Steady
<1>2. Address(x) = Address(y) BY SameFields
<1>3. Address(x) \in 0 .. 7 BY FieldsOf
<1> HIDE DEF Address
<1> DEFINE p1 == Puts(x, "OAM_Addr", Address(x))
           q1 == Puts(y, "OAM_Addr", Address(y))
<1>4. p1 \in PpuState /\ q1 \in PpuState /\ SameOn(PictureFields, p1, q1) BY <1>2, <1>3, PicturePut, PictureKinds
<1> HIDE DEF p1, q1
<1> QED BY <1>1, <1>4 DEF p1, q1

LEMMA SteadyVMADDL == ASSUME NEW v \in Nat PROVE Steady("VMADDL", v)
<1> DEFINE Address(z) == (z.VRAM_Addr - (z.VRAM_Addr % 2)) + (v % 2)
<1>1. \A z : Mirror!Executed(z, "VMADDL", v) = Puts(z, "VRAM_Addr", Address(z))
  BY DEF Mirror!Executed, Puts
<1> SUFFICES ASSUME NEW x \in PpuState, NEW y \in PpuState, SameOn(PictureFields, x, y)
             PROVE  /\ Mirror!Executed(x, "VMADDL", v) \in PpuState /\ Mirror!Executed(y, "VMADDL", v) \in PpuState
                    /\ SameOn(PictureFields, Mirror!Executed(x, "VMADDL", v), Mirror!Executed(y, "VMADDL", v))
  BY DEF Steady
<1>2. Address(x) = Address(y) BY SameFields
<1>3. Address(x) \in 0 .. 3 BY FieldsOf
<1> HIDE DEF Address
<1> DEFINE p1 == Puts(x, "VRAM_Addr", Address(x))
           q1 == Puts(y, "VRAM_Addr", Address(y))
<1>4. p1 \in PpuState /\ q1 \in PpuState /\ SameOn(PictureFields, p1, q1) BY <1>2, <1>3, PicturePut, PictureKinds
<1> HIDE DEF p1, q1
<1> QED BY <1>1, <1>4 DEF p1, q1

LEMMA SteadyVMADDH == ASSUME NEW v \in Nat PROVE Steady("VMADDH", v)
<1> DEFINE Address(z) == (z.VRAM_Addr % 2) + (2 * (v % 2))
<1>1. \A z : Mirror!Executed(z, "VMADDH", v) = Puts(z, "VRAM_Addr", Address(z))
  BY DEF Mirror!Executed, Puts
<1> SUFFICES ASSUME NEW x \in PpuState, NEW y \in PpuState, SameOn(PictureFields, x, y)
             PROVE  /\ Mirror!Executed(x, "VMADDH", v) \in PpuState /\ Mirror!Executed(y, "VMADDH", v) \in PpuState
                    /\ SameOn(PictureFields, Mirror!Executed(x, "VMADDH", v), Mirror!Executed(y, "VMADDH", v))
  BY DEF Steady
<1>2. Address(x) = Address(y) BY SameFields
<1>3. Address(x) \in 0 .. 3 BY FieldsOf
<1> HIDE DEF Address
<1> DEFINE p1 == Puts(x, "VRAM_Addr", Address(x))
           q1 == Puts(y, "VRAM_Addr", Address(y))
<1>4. p1 \in PpuState /\ q1 \in PpuState /\ SameOn(PictureFields, p1, q1) BY <1>2, <1>3, PicturePut, PictureKinds
<1> HIDE DEF p1, q1
<1> QED BY <1>1, <1>4 DEF p1, q1

LEMMA SteadyVMREAD == ASSUME NEW v \in Nat PROVE Steady("VMDATAREAD", v)
<1> DEFINE Address(z) == (z.VRAM_Addr + z.AddrInc) % 4
<1>1. \A z : Mirror!Executed(z, "VMDATAREAD", v) = Puts(z, "VRAM_Addr", Address(z))
  BY DEF Mirror!Executed, Puts
<1> SUFFICES ASSUME NEW x \in PpuState, NEW y \in PpuState, SameOn(PictureFields, x, y)
             PROVE  /\ Mirror!Executed(x, "VMDATAREAD", v) \in PpuState /\ Mirror!Executed(y, "VMDATAREAD", v) \in PpuState
                    /\ SameOn(PictureFields, Mirror!Executed(x, "VMDATAREAD", v), Mirror!Executed(y, "VMDATAREAD", v))
  BY DEF Steady
<1>2. Address(x) = Address(y) BY SameFields
<1>3. Address(x) \in 0 .. 3 BY FieldsOf
<1> HIDE DEF Address
<1> DEFINE p1 == Puts(x, "VRAM_Addr", Address(x))
           q1 == Puts(y, "VRAM_Addr", Address(y))
<1>4. p1 \in PpuState /\ q1 \in PpuState /\ SameOn(PictureFields, p1, q1) BY <1>2, <1>3, PicturePut, PictureKinds
<1> HIDE DEF p1, q1
<1> QED BY <1>1, <1>4 DEF p1, q1

LEMMA SteadyVblank == ASSUME NEW v \in Nat PROVE Steady("vblank", v)
<1> DEFINE Address(z) == IF z.blank THEN z.OAM_Addr ELSE Mirror!RReload(z)
<1>1. \A z : Mirror!Executed(z, "vblank", v) = Puts(z, "OAM_Addr", Address(z))
  BY DEF Mirror!Executed, Puts
<1> SUFFICES ASSUME NEW x \in PpuState, NEW y \in PpuState, SameOn(PictureFields, x, y)
             PROVE  /\ Mirror!Executed(x, "vblank", v) \in PpuState /\ Mirror!Executed(y, "vblank", v) \in PpuState
                    /\ SameOn(PictureFields, Mirror!Executed(x, "vblank", v), Mirror!Executed(y, "vblank", v))
  BY DEF Steady
<1>2. Address(x) = Address(y) BY SameFields
<1>3. Address(x) \in 0 .. 7
  <2>1. Mirror!RReload(x) \in 0 .. 7 BY FieldsOf DEF Mirror!RReload, Mirror!OamEnd
  <2> QED BY <2>1, FieldsOf
<1> HIDE DEF Address
<1> DEFINE p1 == Puts(x, "OAM_Addr", Address(x))
           q1 == Puts(y, "OAM_Addr", Address(y))
<1>4. p1 \in PpuState /\ q1 \in PpuState /\ SameOn(PictureFields, p1, q1) BY <1>2, <1>3, PicturePut, PictureKinds
<1> HIDE DEF p1, q1
<1> QED BY <1>1, <1>4 DEF p1, q1

LEMMA SteadyLine == ASSUME NEW v \in Nat PROVE Steady("line", v)
<1>1. \A z : Mirror!Executed(z, "line", v) = z BY DEF Mirror!Executed
<1> QED BY <1>1 DEF Steady

LEMMA Steady2115 == ASSUME NEW v \in Modes PROVE Steady("2115", v)
<1> DEFINE Mode(z) == v[1]
           Inc(z) == v[2]
           Trans(z) == v[3]
<1>3. ASSUME NEW x \in PpuState PROVE Mode(x) \in BOOLEAN /\ Inc(x) \in Nat /\ Trans(x) \in BOOLEAN
  BY DEF Modes
<1>1. \A z : Mirror!Executed(z, "2115", v) = Puts(Puts(Puts(z, "IncMode", Mode(z)), "AddrInc", Inc(z)), "Trans", Trans(z))
  BY DEF Mirror!Executed, Puts
<1> SUFFICES ASSUME NEW x \in PpuState, NEW y \in PpuState, SameOn(PictureFields, x, y)
             PROVE  /\ Mirror!Executed(x, "2115", v) \in PpuState /\ Mirror!Executed(y, "2115", v) \in PpuState
                    /\ SameOn(PictureFields, Mirror!Executed(x, "2115", v), Mirror!Executed(y, "2115", v))
  BY DEF Steady
<1>2. Mode(x) = Mode(y) /\ Inc(x) = Inc(y) /\ Trans(x) = Trans(y) BY SameFields
<1> HIDE DEF Mode, Inc, Trans
<1> DEFINE p1 == Puts(x, "IncMode", Mode(x))
           q1 == Puts(y, "IncMode", Mode(y))
<1>4. p1 \in PpuState /\ q1 \in PpuState /\ SameOn(PictureFields, p1, q1) BY <1>2, <1>3, PicturePut, PictureKinds
<1> HIDE DEF p1, q1
<1> DEFINE p2 == Puts(p1, "AddrInc", Inc(x))
           q2 == Puts(q1, "AddrInc", Inc(y))
<1>5. p2 \in PpuState /\ q2 \in PpuState /\ SameOn(PictureFields, p2, q2) BY <1>2, <1>3, <1>4, PicturePut, PictureKinds
<1> HIDE DEF p2, q2
<1> DEFINE p3 == Puts(p2, "Trans", Trans(x))
           q3 == Puts(q2, "Trans", Trans(y))
<1>6. p3 \in PpuState /\ q3 \in PpuState /\ SameOn(PictureFields, p3, q3) BY <1>2, <1>3, <1>5, PicturePut, PictureKinds
<1> HIDE DEF p3, q3
<1> QED BY <1>1, <1>6 DEF p1, q1, p2, q2, p3, q3

LEMMA Steady2118 == ASSUME NEW v \in Nat PROVE Steady("2118", v)
<1> DEFINE Stored(z) == [z.VRAM EXCEPT ![Mirror!VAddr(z)].lo = v]
           Address(z) == IF ~z.IncMode THEN (z.VRAM_Addr + z.AddrInc) % 4 ELSE z.VRAM_Addr
<1>3. ASSUME NEW x \in PpuState PROVE Stored(x) \in [0 .. 3 -> Cells] /\ Address(x) \in 0 .. 3
  <2>1. Mirror!VAddr(x) \in 0 .. 3 BY FieldsOf DEF Mirror!VAddr
  <2>2. x.VRAM \in [0 .. 3 -> Cells] BY FieldsOf
  <2>3. Stored(x) \in [0 .. 3 -> Cells] BY <2>1, <2>2 DEF Cells
  <2>4. Address(x) \in 0 .. 3 BY FieldsOf
  <2> QED BY <2>3, <2>4
<1>1. \A z \in PpuState : Mirror!Executed(z, "2118", v) = Puts(Puts(z, "VRAM", Stored(z)), "VRAM_Addr", Address(z))
  <2> SUFFICES ASSUME NEW z \in PpuState
               PROVE  Mirror!Executed(z, "2118", v) = Puts(Puts(z, "VRAM", Stored(z)), "VRAM_Addr", Address(z))
    OBVIOUS
  <2> DEFINE w == Puts(z, "VRAM", Stored(z))
  <2>1. Mirror!Executed(z, "2118", v) = IF ~z.IncMode THEN Puts(w, "VRAM_Addr", (w["VRAM_Addr"] + z.AddrInc) % 4) ELSE w
    BY DEF Mirror!Executed, Mirror!RVram, Puts
  <2>2. "VRAM" \in PpuFields /\ "VRAM_Addr" \in PpuFields \ {"VRAM"} /\ Stored(z) \in Kind["VRAM"]
    BY <1>3, FieldsAre, PictureKinds
  <2>3. w \in PpuState /\ w["VRAM_Addr"] = z.VRAM_Addr
    <3> HIDE DEF Stored
    <3> QED BY <2>2, PutsIs
  <2> HIDE DEF w
  <2>4. Puts(w, "VRAM_Addr", w["VRAM_Addr"]) = w BY <2>2, <2>3, PutsNothing
  <2> QED BY <2>1, <2>3, <2>4 DEF w
<1> SUFFICES ASSUME NEW x \in PpuState, NEW y \in PpuState, SameOn(PictureFields, x, y)
             PROVE  /\ Mirror!Executed(x, "2118", v) \in PpuState /\ Mirror!Executed(y, "2118", v) \in PpuState
                    /\ SameOn(PictureFields, Mirror!Executed(x, "2118", v), Mirror!Executed(y, "2118", v))
  BY DEF Steady
<1>2. Stored(x) = Stored(y) /\ Address(x) = Address(y) BY SameFields
<1> HIDE DEF Stored, Address
<1> DEFINE p1 == Puts(x, "VRAM", Stored(x))
           q1 == Puts(y, "VRAM", Stored(y))
<1>4. p1 \in PpuState /\ q1 \in PpuState /\ SameOn(PictureFields, p1, q1) BY <1>2, <1>3, PicturePut, PictureKinds
<1> HIDE DEF p1, q1
<1> DEFINE p2 == Puts(p1, "VRAM_Addr", Address(x))
           q2 == Puts(q1, "VRAM_Addr", Address(y))
<1>5. p2 \in PpuState /\ q2 \in PpuState /\ SameOn(PictureFields, p2, q2) BY <1>2, <1>3, <1>4, PicturePut, PictureKinds
<1> HIDE DEF p2, q2
<1> QED BY <1>1, <1>5 DEF p1, q1, p2, q2

LEMMA Steady2119 == ASSUME NEW v \in Nat PROVE Steady("2119", v)
<1> DEFINE Stored(z) == [z.VRAM EXCEPT ![Mirror!VAddr(z)].hi = v]
           Address(z) == IF z.IncMode THEN (z.VRAM_Addr + z.AddrInc) % 4 ELSE z.VRAM_Addr
<1>3. ASSUME NEW x \in PpuState PROVE Stored(x) \in [0 .. 3 -> Cells] /\ Address(x) \in 0 .. 3
  <2>1. Mirror!VAddr(x) \in 0 .. 3 BY FieldsOf DEF Mirror!VAddr
  <2>2. x.VRAM \in [0 .. 3 -> Cells] BY FieldsOf
  <2>3. Stored(x) \in [0 .. 3 -> Cells] BY <2>1, <2>2 DEF Cells
  <2>4. Address(x) \in 0 .. 3 BY FieldsOf
  <2> QED BY <2>3, <2>4
<1>1. \A z \in PpuState : Mirror!Executed(z, "2119", v) = Puts(Puts(z, "VRAM", Stored(z)), "VRAM_Addr", Address(z))
  <2> SUFFICES ASSUME NEW z \in PpuState
               PROVE  Mirror!Executed(z, "2119", v) = Puts(Puts(z, "VRAM", Stored(z)), "VRAM_Addr", Address(z))
    OBVIOUS
  <2> DEFINE w == Puts(z, "VRAM", Stored(z))
  <2>1. Mirror!Executed(z, "2119", v) = IF z.IncMode THEN Puts(w, "VRAM_Addr", (w["VRAM_Addr"] + z.AddrInc) % 4) ELSE w
    BY DEF Mirror!Executed, Mirror!RVram, Puts
  <2>2. "VRAM" \in PpuFields /\ "VRAM_Addr" \in PpuFields \ {"VRAM"} /\ Stored(z) \in Kind["VRAM"]
    BY <1>3, FieldsAre, PictureKinds
  <2>3. w \in PpuState /\ w["VRAM_Addr"] = z.VRAM_Addr
    <3> HIDE DEF Stored
    <3> QED BY <2>2, PutsIs
  <2> HIDE DEF w
  <2>4. Puts(w, "VRAM_Addr", w["VRAM_Addr"]) = w BY <2>2, <2>3, PutsNothing
  <2> QED BY <2>1, <2>3, <2>4 DEF w
<1> SUFFICES ASSUME NEW x \in PpuState, NEW y \in PpuState, SameOn(PictureFields, x, y)
             PROVE  /\ Mirror!Executed(x, "2119", v) \in PpuState /\ Mirror!Executed(y, "2119", v) \in PpuState
                    /\ SameOn(PictureFields, Mirror!Executed(x, "2119", v), Mirror!Executed(y, "2119", v))
  BY DEF Steady
<1>2. Stored(x) = Stored(y) /\ Address(x) = Address(y) BY SameFields
<1> HIDE DEF Stored, Address
<1> DEFINE p1 == Puts(x, "VRAM", Stored(x))
           q1 == Puts(y, "VRAM", Stored(y))
<1>4. p1 \in PpuState /\ q1 \in PpuState /\ SameOn(PictureFields, p1, q1) BY <1>2, <1>3, PicturePut, PictureKinds
<1> HIDE DEF p1, q1
<1> DEFINE p2 == Puts(p1, "VRAM_Addr", Address(x))
           q2 == Puts(q1, "VRAM_Addr", Address(y))
<1>5. p2 \in PpuState /\ q2 \in PpuState /\ SameOn(PictureFields, p2, q2) BY <1>2, <1>3, <1>4, PicturePut, PictureKinds
<1> HIDE DEF p2, q2
<1> QED BY <1>1, <1>5 DEF p1, q1, p2, q2


\* What the renderer stores of a byte for OAM.
StoredLow(z, v) == IF z.OAM_Addr \in {1, 3}
                   THEN [z.OAM EXCEPT ![z.OAM_Addr - 1] = z.OAM_Buffer, ![z.OAM_Addr] = v] ELSE z.OAM
StoredHigh(z, v) == IF z.OAM_Addr >= 4 THEN [z.OAMHI EXCEPT ![z.OAM_Addr % 2] = v] ELSE z.OAMHI

LEMMA StoredKinds ==
  ASSUME NEW v \in Nat, NEW z \in PpuState
  PROVE  StoredLow(z, v) \in [0 .. 3 -> Nat] /\ StoredHigh(z, v) \in [0 .. 1 -> Nat]
<1>1. z.OAM_Addr \in 0 .. 7 /\ z.OAM \in [0 .. 3 -> Nat] /\ z.OAMHI \in [0 .. 1 -> Nat] /\ z.OAM_Buffer \in Nat
  BY FieldsOf
<1>2. StoredLow(z, v) \in [0 .. 3 -> Nat] BY <1>1 DEF StoredLow
<1>3. StoredHigh(z, v) \in [0 .. 1 -> Nat] BY <1>1 DEF StoredHigh
<1> QED BY <1>2, <1>3

LEMMA StoredIs ==
  ASSUME NEW v \in Nat, NEW z \in PpuState
  PROVE  /\ Mirror!RStored(z, v) = Puts(Puts(z, "OAM", StoredLow(z, v)), "OAMHI", StoredHigh(z, v))
         /\ Mirror!RStored(z, v) \in PpuState
         /\ Mirror!RStored(z, v)["OAM_Buffer"] = z["OAM_Buffer"]
         /\ Mirror!RStored(z, v)["OAM_Addr"] = z["OAM_Addr"]
<1>f. /\ "OAM" \in PpuFields /\ "OAMHI" \in PpuFields /\ "OAM_Buffer" \in PpuFields /\ "OAM_Addr" \in PpuFields
      /\ StoredLow(z, v) \in Kind["OAM"] /\ StoredHigh(z, v) \in Kind["OAMHI"]
      /\ "OAMHI" # "OAM" /\ "OAM_Buffer" # "OAM" /\ "OAM_Addr" # "OAM"
      /\ "OAM_Buffer" # "OAMHI" /\ "OAM_Addr" # "OAMHI"
  BY StoredKinds, FieldsAre, PictureKinds
<1> DEFINE low == Puts(z, "OAM", StoredLow(z, v))
           w == Puts(low, "OAMHI", StoredHigh(z, v))
           r == Mirror!RStored(z, v)
<1>1. low \in PpuState /\ (\A g \in PpuFields \ {"OAM"} : low[g] = z[g]) /\ low["OAM"] = StoredLow(z, v)
  BY <1>f, PutsIs
<1>2. w \in PpuState /\ w["OAM_Buffer"] = z["OAM_Buffer"] /\ w["OAM_Addr"] = z["OAM_Addr"]
  <2> HIDE DEF low
  <2> QED BY <1>1, <1>f, PutsIs
<1>3. r = w
  <2>0. z.OAM_Addr \in 0 .. 7 BY FieldsOf
  <2>n. Puts(z, "OAM", z["OAM"]) = z /\ Puts(z, "OAMHI", z["OAMHI"]) = z BY <1>f, PutsNothing
  <2>m. Puts(low, "OAMHI", low["OAMHI"]) = low /\ low["OAMHI"] = z["OAMHI"]
    <3> HIDE DEF low
    <3> QED BY <1>f, <1>1, PutsNothing
  <2>1. CASE z.OAM_Addr >= 4
    <3>1. StoredLow(z, v) = z["OAM"] /\ r = Puts(z, "OAMHI", StoredHigh(z, v)) BY <2>0, <2>1 DEF Mirror!RStored, Puts, StoredLow, StoredHigh
    <3> QED BY <3>1, <2>n
  <2>2. CASE z.OAM_Addr \in {1, 3}
    <3> DEFINE one == [z.OAM EXCEPT ![z.OAM_Addr - 1] = z.OAM_Buffer]
               half == Puts(z, "OAM", one)
               both == [one EXCEPT ![z.OAM_Addr] = v]
    <3>1. StoredHigh(z, v) = z["OAMHI"] /\ StoredLow(z, v) = both BY <2>0, <2>2 DEF StoredLow, StoredHigh
    <3>2. r = [half EXCEPT !.OAM[z.OAM_Addr] = v]
      <4>1. ~(z.OAM_Addr >= 4) BY <2>2
      <4>2. r = [z EXCEPT !.OAM[z.OAM_Addr - 1] = z.OAM_Buffer, !.OAM[z.OAM_Addr] = v]
        BY <4>1, <2>2, Zenon DEF Mirror!RStored
      <4>3. half = [z EXCEPT !.OAM[z.OAM_Addr - 1] = z.OAM_Buffer] BY DEF Puts
      <4> HIDE DEF half, r
      <4>4. [z EXCEPT !.OAM[z.OAM_Addr - 1] = z.OAM_Buffer, !.OAM[z.OAM_Addr] = v]
              = [[z EXCEPT !.OAM[z.OAM_Addr - 1] = z.OAM_Buffer] EXCEPT !.OAM[z.OAM_Addr] = v]
        OBVIOUS
      <4> QED BY <4>2, <4>3, <4>4
    <3>3. [half EXCEPT !.OAM[z.OAM_Addr] = v] = Puts(half, "OAM", [half["OAM"] EXCEPT ![z.OAM_Addr] = v])
      <4> HIDE DEF half
      <4> QED BY DEF Puts
    <3>4. one \in Kind["OAM"] /\ both \in Kind["OAM"]
      <4>1. z.OAM \in [0 .. 3 -> Nat] /\ z.OAM_Buffer \in Nat BY FieldsOf
      <4>2. one \in [0 .. 3 -> Nat] BY <4>1
      <4> HIDE DEF one
      <4> QED BY <4>2, PictureKinds
    <3>5. half["OAM"] = one /\ Puts(half, "OAM", both) = Puts(z, "OAM", both)
      <4> HIDE DEF one, both
      <4> QED BY <3>4, <1>f, PutsIs, PutsAgain
    <3> HIDE DEF half, one
    <3>6. r = Puts(z, "OAM", StoredLow(z, v)) BY <3>1, <3>2, <3>3, <3>5
    <3> QED BY <3>1, <3>6, <2>m
  <2>3. CASE ~(z.OAM_Addr >= 4) /\ z.OAM_Addr \notin {1, 3}
    <3>1. StoredHigh(z, v) = z["OAMHI"] /\ StoredLow(z, v) = z["OAM"] /\ r = z BY <2>0, <2>3 DEF Mirror!RStored, StoredLow, StoredHigh
    <3> QED BY <3>1, <2>m, <2>n
  <2> QED BY <2>1, <2>2, <2>3
<1> QED BY <1>2, <1>3 DEF w, low

LEMMA ExecutedOAMDATA ==
  ASSUME NEW v \in Nat, NEW z \in PpuState
  PROVE  Mirror!Executed(z, "OAMDATA", v)
           = Puts(Puts(Mirror!RStored(z, v), "OAM_Buffer", IF z.OAM_Addr % 2 = 0 THEN v ELSE z.OAM_Buffer),
                  "OAM_Addr", (z.OAM_Addr + 1) % 8)
<1> DEFINE r == Mirror!RStored(z, v)
<1>1. Mirror!Executed(z, "OAMDATA", v)
        = [r EXCEPT !.OAM_Buffer = IF z.OAM_Addr % 2 = 0 THEN v ELSE r.OAM_Buffer, !.OAM_Addr = (r.OAM_Addr + 1) % 8]
  BY DEF Mirror!Executed, Mirror!OamEnd
<1>2. r.OAM_Buffer = z.OAM_Buffer /\ r.OAM_Addr = z.OAM_Addr BY StoredIs
<1> HIDE DEF r
<1>3. Mirror!Executed(z, "OAMDATA", v)
        = Puts(Puts(r, "OAM_Buffer", IF z.OAM_Addr % 2 = 0 THEN v ELSE z.OAM_Buffer), "OAM_Addr", (z.OAM_Addr + 1) % 8)
  BY <1>1, <1>2 DEF Puts
<1> QED BY <1>3 DEF r

LEMMA SteadyOAMDATA == ASSUME NEW v \in Nat PROVE Steady("OAMDATA", v)
<1> DEFINE Low(z) == StoredLow(z, v)
           High(z) == StoredHigh(z, v)
           Buffer(z) == IF z.OAM_Addr % 2 = 0 THEN v ELSE z.OAM_Buffer
           Address(z) == (z.OAM_Addr + 1) % 8
<1>3. ASSUME NEW x \in PpuState
      PROVE  Low(x) \in [0 .. 3 -> Nat] /\ High(x) \in [0 .. 1 -> Nat] /\ Buffer(x) \in Nat /\ Address(x) \in 0 .. 7
  <2>1. Low(x) \in [0 .. 3 -> Nat] /\ High(x) \in [0 .. 1 -> Nat] BY StoredKinds
  <2>2. Buffer(x) \in Nat /\ Address(x) \in 0 .. 7 BY FieldsOf
  <2> QED BY <2>1, <2>2
<1>1. \A z \in PpuState : Mirror!Executed(z, "OAMDATA", v)
        = Puts(Puts(Puts(Puts(z, "OAM", Low(z)), "OAMHI", High(z)), "OAM_Buffer", Buffer(z)), "OAM_Addr", Address(z))
  BY StoredIs, ExecutedOAMDATA
<1> SUFFICES ASSUME NEW x \in PpuState, NEW y \in PpuState, SameOn(PictureFields, x, y)
             PROVE  /\ Mirror!Executed(x, "OAMDATA", v) \in PpuState /\ Mirror!Executed(y, "OAMDATA", v) \in PpuState
                    /\ SameOn(PictureFields, Mirror!Executed(x, "OAMDATA", v), Mirror!Executed(y, "OAMDATA", v))
  BY DEF Steady
<1>2. Low(x) = Low(y) /\ High(x) = High(y) /\ Buffer(x) = Buffer(y) /\ Address(x) = Address(y)
  BY SameFields DEF StoredLow, StoredHigh
<1> HIDE DEF Low, High, Buffer, Address
<1> DEFINE p1 == Puts(x, "OAM", Low(x))
           q1 == Puts(y, "OAM", Low(y))
<1>4. p1 \in PpuState /\ q1 \in PpuState /\ SameOn(PictureFields, p1, q1) BY <1>2, <1>3, PicturePut, PictureKinds
<1> HIDE DEF p1, q1
<1> DEFINE p2 == Puts(p1, "OAMHI", High(x))
           q2 == Puts(q1, "OAMHI", High(y))
<1>5. p2 \in PpuState /\ q2 \in PpuState /\ SameOn(PictureFields, p2, q2) BY <1>2, <1>3, <1>4, PicturePut, PictureKinds
<1> HIDE DEF p2, q2
<1> DEFINE p3 == Puts(p2, "OAM_Buffer", Buffer(x))
           q3 == Puts(q2, "OAM_Buffer", Buffer(y))
<1>6. p3 \in PpuState /\ q3 \in PpuState /\ SameOn(PictureFields, p3, q3) BY <1>2, <1>3, <1>5, PicturePut, PictureKinds
<1> HIDE DEF p3, q3
<1> DEFINE p4 == Puts(p3, "OAM_Addr", Address(x))
           q4 == Puts(q3, "OAM_Addr", Address(y))
<1>7. p4 \in PpuState /\ q4 \in PpuState /\ SameOn(PictureFields, p4, q4) BY <1>2, <1>3, <1>6, PicturePut, PictureKinds
<1> HIDE DEF p4, q4
<1> QED BY <1>1, <1>7 DEF p1, q1, p2, q2, p3, q3, p4, q4

\* What changes the palette alone.
LEMMA SteadyPalette ==
  ASSUME NEW a, NEW v,
         \A z \in PpuState : /\ Mirror!Executed(z, a, v) \in PpuState
                             /\ SameOn(PictureFields, Mirror!Executed(z, a, v), z)
  PROVE  Steady(a, v)
BY DEF Steady, SameOn

LEMMA PaletteKept ==
  ASSUME NEW z \in PpuState, NEW f \in PaletteFields, NEW e \in Kind[f]
  PROVE  Puts(z, f, e) \in PpuState /\ SameOn(PictureFields, Puts(z, f, e), z)
<1>1. f \in PpuFields /\ PictureFields \subseteq PpuFields \ {f} BY FieldsAre DEF PictureFields, PaletteFields
<1>2. Puts(z, f, e) \in PpuState /\ \A g \in PpuFields \ {f} : Puts(z, f, e)[g] = z[g] BY <1>1, PutsIs
<1> QED BY <1>1, <1>2 DEF SameOn

LEMMA PaletteTwo ==
  ASSUME NEW z \in PpuState, NEW f \in PaletteFields, NEW e \in Kind[f], NEW g \in PaletteFields, NEW d \in Kind[g]
  PROVE  Puts(Puts(z, f, e), g, d) \in PpuState /\ SameOn(PictureFields, Puts(Puts(z, f, e), g, d), z)
<1> DEFINE p == Puts(z, f, e)
<1>1. p \in PpuState /\ SameOn(PictureFields, p, z) BY PaletteKept
<1> HIDE DEF p
<1>2. Puts(p, g, d) \in PpuState /\ SameOn(PictureFields, Puts(p, g, d), p) BY <1>1, PaletteKept
<1>3. SameOn(PictureFields, Puts(p, g, d), z) BY <1>1, <1>2 DEF SameOn
<1> QED BY <1>2, <1>3 DEF p

LEMMA PaletteKinds ==
  /\ PaletteFields \subseteq PpuFields
  /\ "CGRAM_Addr" \in PaletteFields /\ "CGRAM_Toggle" \in PaletteFields
  /\ "CGRAM_Buffer" \in PaletteFields /\ "CGRAM" \in PaletteFields
  /\ Kind["CGRAM_Addr"] = 0 .. 1 /\ Kind["CGRAM_Toggle"] = BOOLEAN /\ Kind["CGRAM_Buffer"] = Nat
  /\ Kind["CGRAM"] = [0 .. 1 -> Cells]
BY FieldsAre, PictureKinds DEF PaletteFields

LEMMA SteadyCGADD == ASSUME NEW v \in Nat PROVE Steady("CGADD", v)
<1> DEFINE a == v % 2
<1>1. \A z : Mirror!Executed(z, "CGADD", v) = Puts(Puts(z, "CGRAM_Addr", a), "CGRAM_Toggle", FALSE)
  BY DEF Mirror!Executed, Puts
<1>2. a \in Kind["CGRAM_Addr"] /\ FALSE \in Kind["CGRAM_Toggle"] BY PaletteKinds
<1> HIDE DEF a
<1>3. ASSUME NEW z \in PpuState
      PROVE  /\ Mirror!Executed(z, "CGADD", v) \in PpuState
             /\ SameOn(PictureFields, Mirror!Executed(z, "CGADD", v), z)
  <2>1. "CGRAM_Addr" \in PaletteFields /\ "CGRAM_Toggle" \in PaletteFields BY PaletteKinds
  <2>2. /\ Puts(Puts(z, "CGRAM_Addr", a), "CGRAM_Toggle", FALSE) \in PpuState
        /\ SameOn(PictureFields, Puts(Puts(z, "CGRAM_Addr", a), "CGRAM_Toggle", FALSE), z)
    BY <1>2, <2>1, PaletteTwo
  <2> QED BY <1>1, <2>2
<1> QED BY <1>3, SteadyPalette

LEMMA SteadyCGDATA == ASSUME NEW v \in Nat PROVE Steady("CGDATA", v)
<1>3. ASSUME NEW z \in PpuState
      PROVE  /\ Mirror!Executed(z, "CGDATA", v) \in PpuState
             /\ SameOn(PictureFields, Mirror!Executed(z, "CGDATA", v), z)
  <2>0. /\ z.CGRAM_Toggle \in BOOLEAN /\ z.CGRAM_Addr \in 0 .. 1 /\ z.CGRAM_Buffer \in Nat
        /\ z.CGRAM \in [0 .. 1 -> Cells]
    BY FieldsOf
  <2>1. CASE ~z.CGRAM_Toggle
    <3>1. Mirror!Executed(z, "CGDATA", v) = Puts(Puts(z, "CGRAM_Buffer", v), "CGRAM_Toggle", TRUE)
      BY <2>1 DEF Mirror!Executed, Puts
    <3>2. v \in Kind["CGRAM_Buffer"] /\ TRUE \in Kind["CGRAM_Toggle"]
          /\ "CGRAM_Buffer" \in PaletteFields /\ "CGRAM_Toggle" \in PaletteFields
      BY PaletteKinds
    <3>3. /\ Puts(Puts(z, "CGRAM_Buffer", v), "CGRAM_Toggle", TRUE) \in PpuState
          /\ SameOn(PictureFields, Puts(Puts(z, "CGRAM_Buffer", v), "CGRAM_Toggle", TRUE), z)
      BY <3>2, PaletteTwo
    <3> QED BY <3>1, <3>3
  <2>2. CASE z.CGRAM_Toggle
    <3> DEFINE m == [z.CGRAM EXCEPT ![z.CGRAM_Addr] = [lo |-> z.CGRAM_Buffer, hi |-> v]]
               n == (z.CGRAM_Addr + 1) % 2
               w == Puts(Puts(z, "CGRAM", m), "CGRAM_Addr", n)
    <3>1. Mirror!Executed(z, "CGDATA", v)
            = [z EXCEPT !.CGRAM[z.CGRAM_Addr] = [lo |-> z.CGRAM_Buffer, hi |-> v],
                   !.CGRAM_Addr = (@ + 1) % 2, !.CGRAM_Toggle = FALSE]
      BY <2>2 DEF Mirror!Executed
    <3>2. m \in Kind["CGRAM"] /\ n \in Kind["CGRAM_Addr"] /\ FALSE \in Kind["CGRAM_Toggle"]
      <4>1. m \in [0 .. 1 -> Cells] BY <2>0 DEF Cells
      <4>2. n \in 0 .. 1 BY <2>0
      <4> HIDE DEF m, n
      <4> QED BY <4>1, <4>2, PaletteKinds
    <3>3. Mirror!Executed(z, "CGDATA", v) = Puts(w, "CGRAM_Toggle", FALSE)
      <4>1. Puts(z, "CGRAM", m)["CGRAM_Addr"] = z["CGRAM_Addr"]
        <5> HIDE DEF m
        <5>1. "CGRAM" \in PpuFields /\ "CGRAM_Addr" \in PpuFields \ {"CGRAM"} BY FieldsAre
        <5> QED BY <5>1, <3>2, PutsIs
      <4> QED BY <3>1, <4>1 DEF Puts
    <3> HIDE DEF m, n
    <3>4. "CGRAM" \in PaletteFields /\ "CGRAM_Addr" \in PaletteFields /\ "CGRAM_Toggle" \in PaletteFields
      BY PaletteKinds
    <3>5. w \in PpuState /\ SameOn(PictureFields, w, z) BY <3>2, <3>4, PaletteTwo
    <3> HIDE DEF w
    <3>6. Puts(w, "CGRAM_Toggle", FALSE) \in PpuState /\ SameOn(PictureFields, Puts(w, "CGRAM_Toggle", FALSE), w)
      BY <3>2, <3>4, <3>5, PaletteKept
    <3> QED BY <3>3, <3>5, <3>6 DEF SameOn
  <2> QED BY <2>0, <2>1, <2>2
<1> QED BY <1>3, SteadyPalette

LEMMA SteadyAll == ASSUME NEW a \in Commands, NEW v \in ValuesOf(a) PROVE Steady(a, v)
<1>1. CASE a = "2100" BY <1>1, Steady2100 DEF ValuesOf
<1>2. CASE a = "2115" BY <1>2, Steady2115 DEF ValuesOf
<1>3. CASE a \notin {"2100", "2115"}
  <2>1. v \in Nat BY <1>3 DEF ValuesOf
  <2> QED BY <1>3, <2>1, SteadyPlain, SteadyBGHOFS, SteadyM7A, SteadyOAMADDL, SteadyOAMADDH, SteadyUniracers,
          SteadyOAMREAD, SteadyVMADDL, SteadyVMADDH, SteadyVMREAD, SteadyVblank, SteadyLine, Steady2118, Steady2119,
          SteadyOAMDATA, SteadyCGADD, SteadyCGDATA DEF Commands
<1> QED BY <1>1, <1>2, <1>3


----------------------------------------------------------------------------
(* What is under way leads from the renderer's copy to the other one.      *)

\* Copies agree, once the palette was read only in the rest.
Agreed(x, y, read) == SameOn(PictureFields, x, y) /\ (~read => x = y)
Entries == {e \in [a : Commands, v : BOOLEAN \cup Modes \cup Nat, after : PpuState] : e.v \in ValuesOf(e.a)}
Before(r, q, i) == IF i = 1 THEN r ELSE q[i - 1].after
Reached(r, q) == IF q = <<>> THEN r ELSE q[Len(q)].after
ComesTo(r, q, i, read) == Agreed(Mirror!Executed(Before(r, q, i), q[i].a, q[i].v), q[i].after, read)
LeadsOn(r, q, p, read) == /\ \A i \in 1 .. Len(q) : ComesTo(r, q, i, read)
                          /\ Agreed(Reached(r, q), p, read)
MirrorGood ==
  /\ s \in PpuState /\ s2 \in PpuState /\ s5 \in PpuState /\ s3 \in Seq(Entries) /\ s6 \in BOOLEAN
  /\ s4 => s3 = <<>>
  /\ LeadsOn(s2, s3, s, s6)

LEMMA AgreedThen ==
  ASSUME NEW x \in PpuState, NEW y \in PpuState, NEW read, Agreed(x, y, read), NEW a \in Commands, NEW v \in ValuesOf(a)
  PROVE  /\ Mirror!Executed(x, a, v) \in PpuState /\ Mirror!Executed(y, a, v) \in PpuState
         /\ Agreed(Mirror!Executed(x, a, v), Mirror!Executed(y, a, v), read)
<1>1. Steady(a, v) BY SteadyAll
<1>2. SameOn(PictureFields, x, y) /\ (~read => x = y) BY DEF Agreed
<1>3. /\ Mirror!Executed(x, a, v) \in PpuState /\ Mirror!Executed(y, a, v) \in PpuState
      /\ SameOn(PictureFields, Mirror!Executed(x, a, v), Mirror!Executed(y, a, v))
  BY <1>1, <1>2 DEF Steady
<1> QED BY <1>2, <1>3 DEF Agreed

LEMMA AgreedChain ==
  ASSUME NEW x, NEW y, NEW z, NEW read, Agreed(x, y, read), Agreed(y, z, read)
  PROVE  Agreed(x, z, read)
BY DEF Agreed, SameOn

LEMMA AgreedSelf == ASSUME NEW x, NEW read PROVE Agreed(x, x, read)
BY DEF Agreed, SameOn

LEMMA AgreedLater ==
  ASSUME NEW x, NEW y, NEW read, NEW later, Agreed(x, y, read), read => later
  PROVE  Agreed(x, y, later)
BY DEF Agreed

LEMMA EntryIs ==
  ASSUME NEW q \in Seq(Entries), NEW i \in 1 .. Len(q)
  PROVE  q[i].a \in Commands /\ q[i].v \in ValuesOf(q[i].a) /\ q[i].after \in PpuState
<1>1. q[i] \in Entries OBVIOUS
<1> QED BY <1>1 DEF Entries

LEMMA StatesReached ==
  ASSUME NEW r \in PpuState, NEW q \in Seq(Entries)
  PROVE  /\ Reached(r, q) \in PpuState
         /\ \A i \in 1 .. Len(q) : Before(r, q, i) \in PpuState
<1>1. CASE q = <<>> BY <1>1 DEF Reached
<1>2. CASE q # <<>>
  <2>1. Len(q) \in 1 .. Len(q) BY <1>2
  <2>2. q[Len(q)].after \in PpuState BY <2>1, EntryIs
  <2>3. ASSUME NEW i \in 1 .. Len(q) PROVE Before(r, q, i) \in PpuState
    <3>1. i # 1 => i - 1 \in 1 .. Len(q) OBVIOUS
    <3> QED BY <3>1, EntryIs DEF Before
  <2> QED BY <1>2, <2>2, <2>3 DEF Reached
<1> QED BY <1>1, <1>2

\* A command is sent.
LEMMA LeadsSent ==
  ASSUME NEW r \in PpuState, NEW q \in Seq(Entries), NEW p \in PpuState, NEW read, LeadsOn(r, q, p, read),
         NEW a \in Commands, NEW v \in ValuesOf(a), NEW e, e = [a |-> a, v |-> v, after |-> Mirror!Executed(p, a, v)]
  PROVE  /\ Append(q, e) \in Seq(Entries)
         /\ LeadsOn(r, Append(q, e), Mirror!Executed(p, a, v), read)
<1> DEFINE n == Mirror!Executed(p, a, v)
           last == Reached(r, q)
           long == Append(q, e)
<1>1. last \in PpuState /\ Agreed(last, p, read) BY StatesReached DEF LeadsOn
<1> HIDE DEF last
<1>2. n \in PpuState /\ Agreed(Mirror!Executed(last, a, v), n, read) BY <1>1, AgreedThen
<1> HIDE DEF n
<1>3. e = [a |-> a, v |-> v, after |-> n] BY DEF n
<1>4. e \in Entries
  <2>1. v \in BOOLEAN \cup Modes \cup Nat BY DEF ValuesOf
  <2> QED BY <1>2, <1>3, <2>1 DEF Entries
<1> HIDE DEF long
<1>5. /\ long \in Seq(Entries) /\ Len(long) = Len(q) + 1 /\ long[Len(q) + 1] = e
      /\ \A i \in 1 .. Len(q) : long[i] = q[i]
  BY <1>4 DEF long
<1>6. Before(r, long, Len(q) + 1) = last
  <2>1. CASE q = <<>> BY <2>1 DEF Before, Reached, last
  <2>2. CASE q # <<>>
    <3>1. Len(q) \in 1 .. Len(q) /\ Len(q) + 1 # 1 BY <2>2
    <3> QED BY <3>1, <2>2, <1>5 DEF Before, Reached, last
  <2> QED BY <2>1, <2>2
<1>7. ComesTo(r, long, Len(q) + 1, read)
  <2>1. long[Len(q) + 1].a = a /\ long[Len(q) + 1].v = v /\ long[Len(q) + 1].after = n BY <1>3, <1>5
  <2> QED BY <1>2, <1>6, <2>1 DEF ComesTo
<1>8. ASSUME NEW i \in 1 .. Len(q) PROVE ComesTo(r, long, i, read)
  <2>1. long[i] = q[i] /\ (i # 1 => long[i - 1] = q[i - 1]) BY <1>5
  <2>2. Before(r, long, i) = Before(r, q, i) BY <2>1 DEF Before
  <2>3. ComesTo(r, q, i, read) BY DEF LeadsOn
  <2> QED BY <2>1, <2>2, <2>3 DEF ComesTo
<1>9. Reached(r, long) = n
  <2>1. long # <<>> /\ long[Len(long)].after = n BY <1>3, <1>5
  <2> QED BY <2>1 DEF Reached
<1>10. LeadsOn(r, long, n, read)
  <2>1. \A i \in 1 .. Len(long) : i \in 1 .. Len(q) \/ i = Len(q) + 1 BY <1>5
  <2> QED BY <2>1, <1>7, <1>8, <1>9, AgreedSelf DEF LeadsOn
<1> QED BY <1>5, <1>10 DEF long, n

\* The copy changes in what no command says.
LEMMA LeadsSilent ==
  ASSUME NEW r, NEW q, NEW p, NEW n, NEW read, NEW later, LeadsOn(r, q, p, read), read => later,
         Agreed(p, n, later)
  PROVE  LeadsOn(r, q, n, later)
<1>1. \A i \in 1 .. Len(q) : ComesTo(r, q, i, later) BY AgreedLater DEF LeadsOn, ComesTo
<1>2. Agreed(Reached(r, q), p, later) BY AgreedLater DEF LeadsOn
<1> QED BY <1>1, <1>2, AgreedChain DEF LeadsOn

\* A command is executed.
LEMMA LeadsTaken ==
  ASSUME NEW r \in PpuState, NEW q \in Seq(Entries), q # <<>>, NEW p, NEW read, LeadsOn(r, q, p, read)
  PROVE  /\ Mirror!Executed(r, Head(q).a, Head(q).v) \in PpuState
         /\ LeadsOn(Mirror!Executed(r, Head(q).a, Head(q).v), Tail(q), p, read)
<1> DEFINE n == Mirror!Executed(r, Head(q).a, Head(q).v)
           rest == Tail(q)
<1>1. 1 \in 1 .. Len(q) /\ Head(q) = q[1] OBVIOUS
<1>2. /\ q[1].a \in Commands /\ q[1].v \in ValuesOf(q[1].a) /\ q[1].after \in PpuState BY <1>1, EntryIs
<1>3. n \in PpuState BY <1>1, <1>2, AgreedSelf, AgreedThen
<1>4. Agreed(n, q[1].after, read)
  <2>1. ComesTo(r, q, 1, read) BY <1>1 DEF LeadsOn
  <2> QED BY <2>1, <1>1 DEF ComesTo, Before
<1> HIDE DEF n
<1>5. /\ rest \in Seq(Entries) /\ Len(rest) = Len(q) - 1
      /\ \A i \in 1 .. Len(rest) : i + 1 \in 1 .. Len(q) /\ rest[i] = q[i + 1]
  OBVIOUS
<1> HIDE DEF rest
<1>6. ASSUME NEW i \in 1 .. Len(rest) PROVE ComesTo(n, rest, i, read)
  <2>0. i + 1 \in 1 .. Len(q) /\ rest[i] = q[i + 1] BY <1>5
  <2>1. ComesTo(r, q, i + 1, read) BY <2>0 DEF LeadsOn
  <2>2. Before(r, q, i + 1) = q[i].after BY DEF Before
  <2>3. CASE i # 1
    <3>1. rest[i - 1] = q[i] /\ Before(n, rest, i) = rest[i - 1].after BY <1>5, <2>3 DEF Before
    <3> QED BY <2>0, <2>1, <2>2, <3>1 DEF ComesTo
  <2>4. CASE i = 1
    <3> DEFINE a == q[2].a
               v == q[2].v
    <3>1. 2 \in 1 .. Len(q) /\ rest[1] = q[2] BY <2>0, <2>4
    <3>2. a \in Commands /\ v \in ValuesOf(a) BY <3>1, EntryIs
    <3> HIDE DEF a, v
    <3>3. Agreed(Mirror!Executed(n, a, v), Mirror!Executed(q[1].after, a, v), read)
      BY <1>2, <1>3, <1>4, <3>2, AgreedThen
    <3>4. Agreed(Mirror!Executed(q[1].after, a, v), q[2].after, read)
      BY <2>1, <2>2, <2>4 DEF ComesTo, a, v
    <3>5. Agreed(Mirror!Executed(n, a, v), q[2].after, read) BY <3>3, <3>4, AgreedChain
    <3>6. Before(n, rest, 1) = n BY DEF Before
    <3> QED BY <2>4, <3>1, <3>5, <3>6 DEF ComesTo, a, v
  <2> QED BY <2>3, <2>4
<1>7. Agreed(Reached(n, rest), p, read)
  <2>1. Agreed(q[Len(q)].after, p, read) BY DEF LeadsOn, Reached
  <2>2. CASE rest = <<>>
    <3>1. Len(q) = 1 /\ Reached(n, rest) = n BY <2>2, <1>5 DEF Reached
    <3> QED BY <3>1, <2>1, <1>4, AgreedChain
  <2>3. CASE rest # <<>>
    <3>1. Len(rest) \in 1 .. Len(rest) BY <2>3, <1>5
    <3>2. rest[Len(rest)] = q[Len(q)] BY <3>1, <1>5
    <3> QED BY <3>2, <2>1, <2>3 DEF Reached
  <2> QED BY <2>2, <2>3
<1>8. LeadsOn(n, rest, p, read) BY <1>6, <1>7 DEF LeadsOn
<1> QED BY <1>3, <1>8 DEF n, rest


----------------------------------------------------------------------------
(* Accesses of registers: each makes of the emulation thread's copy what   *)
(* the command it sends makes of any.                                      *)

LEMMA Sent ==
  ASSUME MirrorGood, NEW a \in Commands, NEW v \in ValuesOf(a), NEW n, n = Mirror!Executed(s, a, v),
         Mirror!Access(n, Mirror!Cmd(a, v)), UNCHANGED s6
  PROVE  MirrorGood'
<1> DEFINE e == [a |-> a, v |-> v, after |-> n]
<1>1. s \in PpuState /\ s2 \in PpuState /\ s5 \in PpuState /\ s3 \in Seq(Entries) /\ s6 \in BOOLEAN /\ LeadsOn(s2, s3, s, s6)
  BY DEF MirrorGood
<1>2. ~s4 /\ s' = n /\ s2' = s2 /\ s4' = s4 /\ s5' = s5 BY DEF Mirror!Access
<1>3. s3' = Append(s3, e)
  <2> DEFINE old == [a |-> a, v |-> v, after |-> s]
             sent == [i \in 1 .. Len(<<old>>) |-> [<<old>>[i] EXCEPT !.after = n]]
  <2>1. s3' = s3 \o sent BY DEF Mirror!Access, Mirror!Cmd
  <2>2. sent = <<[old EXCEPT !.after = n]>> OBVIOUS
  <2>3. [old EXCEPT !.after = n] = e OBVIOUS
  <2>4. sent = <<e>> BY <2>2, <2>3
  <2> HIDE DEF sent, e
  <2> QED BY <1>1, <2>1, <2>4
<1>4. Append(s3, e) \in Seq(Entries) /\ LeadsOn(s2, Append(s3, e), n, s6)
  BY <1>1, LeadsSent
<1>5. n \in PpuState BY <1>1, AgreedSelf, AgreedThen
<1> HIDE DEF e
<1> QED BY <1>1, <1>2, <1>3, <1>4, <1>5 DEF MirrorGood

LEMMA Unsent ==
  ASSUME MirrorGood, NEW n \in PpuState, Mirror!Access(n, <<>>), s6' \in BOOLEAN, s6 => s6', Agreed(s, n, s6')
  PROVE  MirrorGood'
<1>1. s \in PpuState /\ s2 \in PpuState /\ s5 \in PpuState /\ s3 \in Seq(Entries) /\ s6 \in BOOLEAN /\ LeadsOn(s2, s3, s, s6)
  BY DEF MirrorGood
<1>2. ~s4 /\ s' = n /\ s2' = s2 /\ s4' = s4 /\ s5' = s5 BY DEF Mirror!Access
<1>3. s3' = s3
  <2> DEFINE sent == [i \in 1 .. Len(<<>>) |-> [<<>>[i] EXCEPT !.after = n]]
  <2>1. s3' = s3 \o sent BY DEF Mirror!Access
  <2>2. sent = <<>> OBVIOUS
  <2> HIDE DEF sent
  <2> QED BY <1>1, <2>1, <2>2
<1>4. LeadsOn(s2, s3, n, s6') BY <1>1, LeadsSilent
<1> QED BY <1>1, <1>2, <1>3, <1>4 DEF MirrorGood

LEMMA Blanked ==
  ASSUME MirrorGood, NEW b \in BOOLEAN, Mirror!Write_2100(b)
  PROVE  MirrorGood'
<1> DEFINE n == [s EXCEPT !.blank = b, !.OAM_Addr = IF s.blank /\ ~b THEN Mirror!Reload ELSE @]
           at == IF s.blank /\ ~b THEN Mirror!RReload(s) ELSE s.OAM_Addr
<1>1. s \in PpuState BY DEF MirrorGood
<1>2. Mirror!Reload = Mirror!RReload(s) /\ Mirror!RReload(s) \in 0 .. 7
  BY <1>1, FieldsOf DEF Mirror!Reload, Mirror!RReload, Mirror!OamEnd
<1>3. at \in Kind["OAM_Addr"] /\ b \in Kind["blank"] /\ "OAM_Addr" \in PpuFields /\ "blank" \in PpuFields /\ "blank" # "OAM_Addr"
  <2>1. at \in 0 .. 7 BY <1>1, <1>2, FieldsOf
  <2> HIDE DEF at
  <2> QED BY <2>1, FieldsAre, PictureKinds
<1>4. n = Puts(Puts(s, "blank", b), "OAM_Addr", at)
  <2>1. Puts(s, "blank", b)["OAM_Addr"] = s["OAM_Addr"] BY <1>1, <1>3, PutsIs
  <2> QED BY <1>2, <2>1 DEF Puts
<1>5. Mirror!Executed(s, "2100", b) = Puts(Puts(s, "OAM_Addr", at), "blank", b)
  BY DEF Mirror!Executed, Puts
<1>6. n = Mirror!Executed(s, "2100", b)
  <2> HIDE DEF at, n
  <2> QED BY <1>1, <1>3, <1>4, <1>5, PutsCommute
<1>7. Mirror!Access(n, Mirror!Cmd("2100", b)) /\ UNCHANGED s6 BY DEF Mirror!Write_2100
<1>8. "2100" \in Commands /\ b \in ValuesOf("2100") BY DEF Commands, ValuesOf
<1> HIDE DEF n
<1> QED BY <1>6, <1>7, <1>8, Sent

LEMMA PlainWritten ==
  ASSUME MirrorGood, NEW v \in Nat, Mirror!Write_plain(v) \/ Mirror!Write_BGHOFS(v) \/ Mirror!Write_M7Matrix(v)
  PROVE  MirrorGood'
<1>1. CASE Mirror!Write_plain(v)
  <2> DEFINE n == [s EXCEPT !.plain = v]
  <2>1. Mirror!Access(n, Mirror!Cmd("plain", v)) /\ UNCHANGED s6 BY <1>1 DEF Mirror!Write_plain
  <2>2. n = Mirror!Executed(s, "plain", v) BY DEF Mirror!Executed
  <2>3. "plain" \in Commands /\ v \in ValuesOf("plain") BY DEF Commands, ValuesOf
  <2> HIDE DEF n
  <2> QED BY <2>1, <2>2, <2>3, Sent
<1>2. CASE Mirror!Write_BGHOFS(v)
  <2> DEFINE n == [s EXCEPT !.BGHOFS = <<s.BGOFSPrev, v>>, !.BGOFSPrev = v,
                            !.M7HOFS = <<s.M7Prev, v>>, !.M7Prev = v]
  <2>1. Mirror!Access(n, Mirror!Cmd("BGHOFS", v)) /\ UNCHANGED s6 BY <1>2 DEF Mirror!Write_BGHOFS
  <2>2. n = Mirror!Executed(s, "BGHOFS", v) BY DEF Mirror!Executed
  <2>3. "BGHOFS" \in Commands /\ v \in ValuesOf("BGHOFS") BY DEF Commands, ValuesOf
  <2> HIDE DEF n
  <2> QED BY <2>1, <2>2, <2>3, Sent
<1>3. CASE Mirror!Write_M7Matrix(v)
  <2> DEFINE n == [s EXCEPT !.M7A = <<s.M7Prev, v>>, !.M7Prev = v]
  <2>1. Mirror!Access(n, Mirror!Cmd("M7A", v)) /\ UNCHANGED s6 BY <1>3 DEF Mirror!Write_M7Matrix
  <2>2. n = Mirror!Executed(s, "M7A", v) BY DEF Mirror!Executed
  <2>3. "M7A" \in Commands /\ v \in ValuesOf("M7A") BY DEF Commands, ValuesOf
  <2> HIDE DEF n
  <2> QED BY <2>1, <2>2, <2>3, Sent
<1> QED BY <1>1, <1>2, <1>3

LEMMA AddressWritten ==
  ASSUME MirrorGood, NEW v \in Nat, Mirror!Write_OAMADD("L", v) \/ Mirror!Write_OAMADD("H", v)
  PROVE  MirrorGood'
<1>0. s \in PpuState BY DEF MirrorGood
<1>o. s.OAMADDL \in Nat /\ s.OAMADDH \in Nat BY <1>0, FieldsOf
<1>1. CASE Mirror!Write_OAMADD("L", v)
  <2> DEFINE n == [s EXCEPT !.OAMADDL = v, !.OAM_Addr = ((v + 2 * s.OAMADDH) * 2) % 8]
  <2>1. Mirror!Access(n, Mirror!Cmd("OAMADDL", v)) /\ UNCHANGED s6
    BY <1>1 DEF Mirror!Write_OAMADD, Mirror!OamEnd
  <2>2. (v + 2 * s.OAMADDH) * 2 = (2 * v) + (4 * s.OAMADDH) BY <1>o
  <2>3. n = Mirror!Executed(s, "OAMADDL", v) BY <1>0, <2>2, ExecutedOAMADDL DEF Puts
  <2>4. "OAMADDL" \in Commands /\ v \in ValuesOf("OAMADDL") BY DEF Commands, ValuesOf
  <2> HIDE DEF n
  <2> QED BY <2>1, <2>3, <2>4, Sent
<1>2. CASE Mirror!Write_OAMADD("H", v)
  <2> DEFINE n == [s EXCEPT !.OAMADDH = v, !.OAM_Addr = ((s.OAMADDL + 2 * v) * 2) % 8]
  <2>1. Mirror!Access(n, Mirror!Cmd("OAMADDH", v)) /\ UNCHANGED s6
    BY <1>2 DEF Mirror!Write_OAMADD, Mirror!OamEnd
  <2>2. (s.OAMADDL + 2 * v) * 2 = (2 * s.OAMADDL) + (4 * v) BY <1>o
  <2>3. n = Mirror!Executed(s, "OAMADDH", v) BY <1>0, <2>2, ExecutedOAMADDH DEF Puts
  <2>4. "OAMADDH" \in Commands /\ v \in ValuesOf("OAMADDH") BY DEF Commands, ValuesOf
  <2> HIDE DEF n
  <2> QED BY <2>1, <2>3, <2>4, Sent
<1> QED BY <1>1, <1>2

LEMMA OamWritten ==
  ASSUME MirrorGood, NEW v \in Nat, NEW b \in BOOLEAN, Mirror!Write_OAMDATA(v, b)
  PROVE  MirrorGood'
<1>0. s \in PpuState /\ s.OAM_Addr \in 0 .. 7 BY FieldsOf DEF MirrorGood
<1>1. CASE b /\ ~s.blank
  <2> DEFINE n == [s EXCEPT !.OAMHI[0] = v]
  <2>1. Mirror!Access(n, Mirror!Cmd("uniracers", v)) /\ UNCHANGED s6 BY <1>1 DEF Mirror!Write_OAMDATA
  <2>2. n = Mirror!Executed(s, "uniracers", v) BY DEF Mirror!Executed
  <2>3. "uniracers" \in Commands /\ v \in ValuesOf("uniracers") BY DEF Commands, ValuesOf
  <2> HIDE DEF n
  <2> QED BY <2>1, <2>2, <2>3, Sent
<1>2. CASE ~(b /\ ~s.blank)
  <2> DEFINE a == s.OAM_Addr
             stored == IF a \notin 0 .. 3 THEN [s EXCEPT !.OAMHI[a % 2] = v]
                       ELSE IF a % 2 = 1 THEN [s EXCEPT !.OAM[a - 1] = s.OAM_Buffer, !.OAM[a] = v]
                       ELSE s
             buffered == IF a % 2 = 0 THEN [stored EXCEPT !.OAM_Buffer = v] ELSE stored
             n == [buffered EXCEPT !.OAM_Addr = (a + 1) % 8]
             r == Mirror!RStored(s, v)
  <2>1. Mirror!Access(n, Mirror!Cmd("OAMDATA", v)) /\ UNCHANGED s6
    BY <1>2 DEF Mirror!Write_OAMDATA, Mirror!OamEnd, Mirror!OamLow
  <2>2. stored = r
    <3>1. (a \notin 0 .. 3 <=> a >= 4) /\ (a < 4 => (a % 2 = 1 <=> a \in {1, 3})) BY <1>0
    <3>2. CASE a \notin 0 .. 3 BY <3>1, <3>2 DEF Mirror!RStored
    <3>3. CASE a \in 0 .. 3 /\ a % 2 = 1
      <4>1. a \in {1, 3} /\ ~(a >= 4) BY <1>0, <3>1, <3>3
      <4>2. stored = [s EXCEPT !.OAM[a - 1] = s.OAM_Buffer, !.OAM[a] = v] BY <3>3
      <4>3. r = [s EXCEPT !.OAM[a - 1] = s.OAM_Buffer, !.OAM[a] = v]
        BY <4>1, Zenon DEF Mirror!RStored
      <4> HIDE DEF stored, r
      <4> QED BY <4>2, <4>3
    <3>4. CASE a \in 0 .. 3 /\ a % 2 # 1
      <4>1. a \notin {1, 3} /\ ~(a >= 4) BY <1>0, <3>1, <3>4
      <4> QED BY <4>1, <3>4 DEF Mirror!RStored
    <3> QED BY <3>2, <3>3, <3>4
  <2>3. r \in PpuState /\ r["OAM_Buffer"] = s["OAM_Buffer"] BY <1>0, StoredIs
  <2>4. Mirror!Executed(s, "OAMDATA", v)
          = Puts(Puts(r, "OAM_Buffer", IF a % 2 = 0 THEN v ELSE s.OAM_Buffer), "OAM_Addr", (a + 1) % 8)
    BY <1>0, ExecutedOAMDATA
  <2>5. buffered = Puts(r, "OAM_Buffer", IF a % 2 = 0 THEN v ELSE s.OAM_Buffer)
    <3> HIDE DEF stored, r, a
    <3>1. "OAM_Buffer" \in PpuFields BY FieldsAre
    <3>2. Puts(r, "OAM_Buffer", r["OAM_Buffer"]) = r BY <2>3, <3>1, PutsNothing
    <3>3. buffered = IF a % 2 = 0 THEN Puts(r, "OAM_Buffer", v) ELSE r BY <2>2 DEF Puts
    <3> QED BY <2>3, <3>2, <3>3
  <2>6. n = Mirror!Executed(s, "OAMDATA", v)
    <3> HIDE DEF buffered, r, a
    <3> QED BY Zenon, <2>4, <2>5 DEF Puts
  <2>7. "OAMDATA" \in Commands /\ v \in ValuesOf("OAMDATA") BY DEF Commands, ValuesOf
  <2> HIDE DEF n
  <2> QED BY <2>1, <2>6, <2>7, Sent
<1> QED BY <1>1, <1>2

LEMMA OamRead ==
  ASSUME MirrorGood, Mirror!Read_OAMDATAREAD
  PROVE  MirrorGood'
<1> DEFINE n == [s EXCEPT !.OAM_Addr = (@ + 1) % Mirror!OamEnd]
<1>1. Mirror!Access(n, Mirror!Cmd("OAMDATAREAD", 0)) /\ UNCHANGED s6 BY DEF Mirror!Read_OAMDATAREAD
<1>2. n = Mirror!Executed(s, "OAMDATAREAD", 0) BY Zenon DEF Mirror!Executed
<1>3. "OAMDATAREAD" \in Commands /\ 0 \in ValuesOf("OAMDATAREAD") BY DEF Commands, ValuesOf
<1> HIDE DEF n
<1> QED BY <1>1, <1>2, <1>3, Sent

LEMMA ModeWritten ==
  ASSUME MirrorGood, NEW mode \in BOOLEAN, NEW trans \in BOOLEAN, NEW inc \in {1, 2}, Mirror!Write_2115(mode, inc, trans)
  PROVE  MirrorGood'
<1> DEFINE n == [s EXCEPT !.IncMode = mode, !.AddrInc = inc, !.Trans = trans]
           v == <<mode, inc, trans>>
<1>1. Mirror!Access(n, Mirror!Cmd("2115", v)) /\ UNCHANGED s6 BY DEF Mirror!Write_2115
<1>2. n = Mirror!Executed(s, "2115", v) BY Zenon DEF Mirror!Executed
<1>3. "2115" \in Commands /\ v \in ValuesOf("2115") BY DEF Commands, ValuesOf, Modes
<1> HIDE DEF n, v
<1> QED BY <1>1, <1>2, <1>3, Sent

LEMMA VramAddressWritten ==
  ASSUME MirrorGood, NEW v \in Nat, Mirror!Write_VMADD("L", v) \/ Mirror!Write_VMADD("H", v)
  PROVE  MirrorGood'
<1>0. s \in PpuState /\ s.VRAM_Addr \in 0 .. 3 BY FieldsOf DEF MirrorGood
<1>1. CASE Mirror!Write_VMADD("L", v)
  <2> DEFINE n == [s EXCEPT !.VRAM_Addr = (@ \div 2) * 2 + (v % 2)]
  <2>1. Mirror!Access(n, Mirror!Cmd("VMADDL", v)) /\ UNCHANGED s6 BY <1>1 DEF Mirror!Write_VMADD
  <2>2. (s.VRAM_Addr \div 2) * 2 + (v % 2) = (s.VRAM_Addr - (s.VRAM_Addr % 2)) + (v % 2) BY <1>0
  <2>3. n = Mirror!Executed(s, "VMADDL", v) BY <2>2 DEF Mirror!Executed
  <2>4. "VMADDL" \in Commands /\ v \in ValuesOf("VMADDL") BY DEF Commands, ValuesOf
  <2> HIDE DEF n
  <2> QED BY <2>1, <2>3, <2>4, Sent
<1>2. CASE Mirror!Write_VMADD("H", v)
  <2> DEFINE n == [s EXCEPT !.VRAM_Addr = (@ % 2) + 2 * (v % 2)]
  <2>1. Mirror!Access(n, Mirror!Cmd("VMADDH", v)) /\ UNCHANGED s6 BY <1>2 DEF Mirror!Write_VMADD
  <2>3. n = Mirror!Executed(s, "VMADDH", v) BY DEF Mirror!Executed
  <2>4. "VMADDH" \in Commands /\ v \in ValuesOf("VMADDH") BY DEF Commands, ValuesOf
  <2> HIDE DEF n
  <2> QED BY <2>1, <2>3, <2>4, Sent
<1> QED BY <1>1, <1>2

LEMMA Vram2118Written ==
  ASSUME MirrorGood, NEW v \in Nat, NEW b \in BOOLEAN, Mirror!Write_2118(v, b)
  PROVE  MirrorGood'
<1>0. s \in PpuState /\ s6 \in BOOLEAN BY DEF MirrorGood
<1>1. CASE b /\ ~s.blank
  <2>1. Mirror!Access(s, <<>>) /\ UNCHANGED s6 BY <1>1 DEF Mirror!Write_2118
  <2> QED BY <1>0, <2>1, AgreedSelf, Unsent
<1>2. CASE ~(b /\ ~s.blank)
  <2> DEFINE stored == [s EXCEPT !.VRAM[Mirror!VAddr(s)].lo = v]
             n == IF s.IncMode THEN stored ELSE Mirror!Bumped(stored)
             e == [s.VRAM EXCEPT ![Mirror!VAddr(s)].lo = v]
  <2>1. Mirror!Access(n, Mirror!Cmd("2118", v)) /\ UNCHANGED s6 BY <1>2 DEF Mirror!Write_2118
  <2>2. stored.AddrInc = s.AddrInc
    <3>1. e \in [0 .. 3 -> Cells]
      <4>1. s.VRAM \in [0 .. 3 -> Cells] /\ Mirror!VAddr(s) \in 0 .. 3 BY <1>0, FieldsOf DEF Mirror!VAddr
      <4> QED BY <4>1 DEF Cells
    <3>2. stored = Puts(s, "VRAM", e) BY DEF Puts
    <3> HIDE DEF e, stored
    <3>3. "VRAM" \in PpuFields /\ "AddrInc" \in PpuFields \ {"VRAM"} /\ e \in Kind["VRAM"] BY <3>1, FieldsAre, PictureKinds
    <3> QED BY <1>0, <3>2, <3>3, PutsIs
  <2>3. Mirror!Executed(s, "2118", v) = IF ~s.IncMode THEN [stored EXCEPT !.VRAM_Addr = (@ + s.AddrInc) % 4] ELSE stored
    BY DEF Mirror!Executed, Mirror!RVram
  <2> HIDE DEF stored
  <2>4. n = Mirror!Executed(s, "2118", v) BY <2>2, <2>3 DEF Mirror!Bumped
  <2>5. "2118" \in Commands /\ v \in ValuesOf("2118") BY DEF Commands, ValuesOf
  <2> HIDE DEF n
  <2> QED BY <2>1, <2>4, <2>5, Sent
<1> QED BY <1>1, <1>2

LEMMA Vram2119Written ==
  ASSUME MirrorGood, NEW v \in Nat, NEW b \in BOOLEAN, Mirror!Write_2119(v, b)
  PROVE  MirrorGood'
<1>0. s \in PpuState /\ s6 \in BOOLEAN BY DEF MirrorGood
<1>1. CASE b /\ ~s.blank
  <2>1. Mirror!Access(s, <<>>) /\ UNCHANGED s6 BY <1>1 DEF Mirror!Write_2119
  <2> QED BY <1>0, <2>1, AgreedSelf, Unsent
<1>2. CASE ~(b /\ ~s.blank)
  <2> DEFINE stored == [s EXCEPT !.VRAM[Mirror!VAddr(s)].hi = v]
             n == IF s.IncMode THEN Mirror!Bumped(stored) ELSE stored
             e == [s.VRAM EXCEPT ![Mirror!VAddr(s)].hi = v]
  <2>1. Mirror!Access(n, Mirror!Cmd("2119", v)) /\ UNCHANGED s6 BY <1>2 DEF Mirror!Write_2119
  <2>2. stored.AddrInc = s.AddrInc
    <3>1. e \in [0 .. 3 -> Cells]
      <4>1. s.VRAM \in [0 .. 3 -> Cells] /\ Mirror!VAddr(s) \in 0 .. 3 BY <1>0, FieldsOf DEF Mirror!VAddr
      <4> QED BY <4>1 DEF Cells
    <3>2. stored = Puts(s, "VRAM", e) BY DEF Puts
    <3> HIDE DEF e, stored
    <3>3. "VRAM" \in PpuFields /\ "AddrInc" \in PpuFields \ {"VRAM"} /\ e \in Kind["VRAM"] BY <3>1, FieldsAre, PictureKinds
    <3> QED BY <1>0, <3>2, <3>3, PutsIs
  <2>3. Mirror!Executed(s, "2119", v) = IF s.IncMode THEN [stored EXCEPT !.VRAM_Addr = (@ + s.AddrInc) % 4] ELSE stored
    BY DEF Mirror!Executed, Mirror!RVram
  <2> HIDE DEF stored
  <2>4. n = Mirror!Executed(s, "2119", v) BY <2>2, <2>3 DEF Mirror!Bumped
  <2>5. "2119" \in Commands /\ v \in ValuesOf("2119") BY DEF Commands, ValuesOf
  <2> HIDE DEF n
  <2> QED BY <2>1, <2>4, <2>5, Sent
<1> QED BY <1>1, <1>2

LEMMA VramRead ==
  ASSUME MirrorGood, NEW high \in BOOLEAN, Mirror!Read_VRAM(high)
  PROVE  MirrorGood'
<1>0. s \in PpuState /\ s6 \in BOOLEAN BY DEF MirrorGood
<1>1. CASE s.IncMode = high
  <2> DEFINE n == Mirror!Bumped(s)
  <2>1. Mirror!Access(n, Mirror!Cmd("VMDATAREAD", 0)) /\ UNCHANGED s6 BY <1>1 DEF Mirror!Read_VRAM
  <2>2. n = Mirror!Executed(s, "VMDATAREAD", 0) BY Zenon DEF Mirror!Executed, Mirror!Bumped
  <2>3. "VMDATAREAD" \in Commands /\ 0 \in ValuesOf("VMDATAREAD") BY DEF Commands, ValuesOf
  <2> HIDE DEF n
  <2> QED BY <2>1, <2>2, <2>3, Sent
<1>2. CASE s.IncMode # high
  <2>1. Mirror!Access(s, <<>>) /\ UNCHANGED s6 BY <1>2 DEF Mirror!Read_VRAM
  <2> QED BY <1>0, <2>1, AgreedSelf, Unsent
<1> QED BY <1>1, <1>2

LEMMA ColorWritten ==
  ASSUME MirrorGood, NEW v \in Nat, Mirror!Write_CGADD(v) \/ Mirror!Write_CGDATA(v)
  PROVE  MirrorGood'
<1>0. s \in PpuState /\ s.CGRAM_Toggle \in BOOLEAN BY FieldsOf DEF MirrorGood
<1>1. CASE Mirror!Write_CGADD(v)
  <2> DEFINE n == [s EXCEPT !.CGRAM_Addr = v % 2, !.CGRAM_Toggle = FALSE]
  <2>1. Mirror!Access(n, Mirror!Cmd("CGADD", v)) /\ UNCHANGED s6 BY <1>1 DEF Mirror!Write_CGADD
  <2>2. n = Mirror!Executed(s, "CGADD", v) BY DEF Mirror!Executed
  <2>3. "CGADD" \in Commands /\ v \in ValuesOf("CGADD") BY DEF Commands, ValuesOf
  <2> HIDE DEF n
  <2> QED BY <2>1, <2>2, <2>3, Sent
<1>2. CASE Mirror!Write_CGDATA(v)
  <2> DEFINE whole == [s EXCEPT !.CGRAM[s.CGRAM_Addr] = [lo |-> s.CGRAM_Buffer, hi |-> v],
                                !.CGRAM_Addr = (@ + 1) % 2, !.CGRAM_Toggle = FALSE]
             half == [s EXCEPT !.CGRAM_Buffer = v, !.CGRAM_Toggle = TRUE]
             n == IF s.CGRAM_Toggle THEN whole ELSE half
  <2>1. Mirror!Access(n, Mirror!Cmd("CGDATA", v)) /\ UNCHANGED s6 BY <1>2 DEF Mirror!Write_CGDATA
  <2>2. CASE s.CGRAM_Toggle
    <3>1. Mirror!Executed(s, "CGDATA", v) = whole BY <2>2 DEF Mirror!Executed
    <3>2. "CGDATA" \in Commands /\ v \in ValuesOf("CGDATA") BY DEF Commands, ValuesOf
    <3> HIDE DEF whole, half
    <3>3. n = Mirror!Executed(s, "CGDATA", v) BY <2>2, <3>1
    <3> HIDE DEF n
    <3> QED BY <2>1, <3>2, <3>3, Sent
  <2>3. CASE ~s.CGRAM_Toggle
    <3>1. Mirror!Executed(s, "CGDATA", v) = half BY <2>3 DEF Mirror!Executed
    <3>2. "CGDATA" \in Commands /\ v \in ValuesOf("CGDATA") BY DEF Commands, ValuesOf
    <3> HIDE DEF whole, half
    <3>3. n = Mirror!Executed(s, "CGDATA", v) BY <2>3, <3>1
    <3> HIDE DEF n
    <3> QED BY <2>1, <3>2, <3>3, Sent
  <2> QED BY <1>0, <2>2, <2>3
<1> QED BY <1>1, <1>2

\* The port's address and its flip-flop move, which no command says.
LEMMA ColorRead ==
  ASSUME MirrorGood, Mirror!Read_CGDATAREAD
  PROVE  MirrorGood'
<1>0. s \in PpuState /\ s.CGRAM_Toggle \in BOOLEAN /\ s.CGRAM_Addr \in 0 .. 1 BY FieldsOf DEF MirrorGood
<1> DEFINE a == IF s.CGRAM_Toggle THEN (s.CGRAM_Addr + 1) % 2 ELSE s.CGRAM_Addr
           t == ~s.CGRAM_Toggle
           n == [s EXCEPT !.CGRAM_Addr = IF s.CGRAM_Toggle THEN (@ + 1) % 2 ELSE @, !.CGRAM_Toggle = ~@]
<1>1. a \in Kind["CGRAM_Addr"] /\ t \in Kind["CGRAM_Toggle"]
      /\ "CGRAM_Addr" \in PaletteFields /\ "CGRAM_Toggle" \in PaletteFields
  <2>1. a \in 0 .. 1 /\ t \in BOOLEAN BY <1>0
  <2> HIDE DEF a, t
  <2> QED BY <2>1, PaletteKinds
<1>2. n = Puts(Puts(s, "CGRAM_Addr", a), "CGRAM_Toggle", t)
  <2>1. Puts(s, "CGRAM_Addr", a)["CGRAM_Toggle"] = s["CGRAM_Toggle"]
    <3> HIDE DEF a, t
    <3>1. "CGRAM_Addr" \in PpuFields /\ "CGRAM_Toggle" \in PpuFields \ {"CGRAM_Addr"} BY FieldsAre
    <3> QED BY <1>0, <1>1, <3>1, PutsIs
  <2> QED BY <2>1 DEF Puts
<1>3. Mirror!Access(n, <<>>) /\ s6' = TRUE BY DEF Mirror!Read_CGDATAREAD
<1> HIDE DEF a, t, n
<1>4. n \in PpuState /\ SameOn(PictureFields, n, s) BY <1>0, <1>1, <1>2, PaletteTwo
<1>5. Agreed(s, n, s6') BY <1>3, <1>4 DEF Agreed, SameOn
<1>6. s6' \in BOOLEAN /\ (s6 => s6') BY <1>3
<1> QED BY <1>3, <1>4, <1>5, <1>6, Unsent

LEMMA LineDrawn ==
  ASSUME MirrorGood, Mirror!DrawLine
  PROVE  MirrorGood'
<1>1. Mirror!Access(s, Mirror!Cmd("line", 0)) /\ UNCHANGED s6 BY DEF Mirror!DrawLine
<1>2. s = Mirror!Executed(s, "line", 0) BY Zenon DEF Mirror!Executed
<1>3. "line" \in Commands /\ 0 \in ValuesOf("line") BY DEF Commands, ValuesOf
<1> QED BY <1>1, <1>2, <1>3, Sent

LEMMA BlankBegins ==
  ASSUME MirrorGood, Mirror!VBlank
  PROVE  MirrorGood'
<1>0. s \in PpuState BY DEF MirrorGood
<1> DEFINE n == [s EXCEPT !.OAM_Addr = IF s.blank THEN @ ELSE Mirror!Reload]
<1>1. Mirror!Access(n, Mirror!Cmd("vblank", 0)) /\ UNCHANGED s6 BY DEF Mirror!VBlank
<1>2. Mirror!Reload = Mirror!RReload(s)
  BY <1>0, FieldsOf DEF Mirror!Reload, Mirror!RReload, Mirror!OamEnd
<1>3. n = Mirror!Executed(s, "vblank", 0) BY Zenon, <1>2 DEF Mirror!Executed
<1>4. "vblank" \in Commands /\ 0 \in ValuesOf("vblank") BY DEF Commands, ValuesOf
<1> HIDE DEF n
<1> QED BY <1>1, <1>3, <1>4, Sent

----------------------------------------------------------------------------
(* Frames, the renderer, states.                                           *)

LEMMA PowerState == Mirror!PowerOn \in PpuState
<1> DEFINE p == Mirror!PowerOn
<1>1. /\ p.blank \in BOOLEAN /\ p.plain \in Nat /\ p.BGOFSPrev \in Nat /\ p.BGHOFS \in Nat \X Nat
      /\ p.M7Prev \in Nat /\ p.M7HOFS \in Nat \X Nat /\ p.M7A \in Nat \X Nat
      /\ p.OAMADDL \in Nat /\ p.OAMADDH \in Nat /\ p.OAM_Addr \in 0 .. 7 /\ p.OAM_Buffer \in Nat
      /\ p.OAM \in [0 .. 3 -> Nat] /\ p.OAMHI \in [0 .. 1 -> Nat]
      /\ p.IncMode \in BOOLEAN /\ p.AddrInc \in Nat /\ p.Trans \in BOOLEAN /\ p.VRAM_Addr \in 0 .. 3
      /\ p.VRAM \in [0 .. 3 -> Cells]
      /\ p.CGRAM_Addr \in 0 .. 1 /\ p.CGRAM_Toggle \in BOOLEAN /\ p.CGRAM_Buffer \in Nat
      /\ p.CGRAM \in [0 .. 1 -> Cells]
  BY DEF Mirror!PowerOn, Mirror!OamLow, Mirror!Words, Mirror!Colors, Cells
<1>2. DOMAIN p = PpuFields /\ p = [f \in PpuFields |-> p[f]]
  BY FieldsAre DEF Mirror!PowerOn
<1> HIDE DEF p
<1>3. \A f \in PpuFields : p[f] \in Kind[f]
  BY <1>1, FieldsAre, PictureKinds
<1>4. \A f \in PpuFields : p[f] \in UNION {Kind[g] : g \in PpuFields}
  BY <1>3
<1>5. p \in [PpuFields -> UNION {Kind[g] : g \in PpuFields}]
  BY <1>2, <1>4
<1> QED BY <1>3, <1>5 DEF PpuState, p

LEMMA ResetState ==
  ASSUME NEW x \in PpuState
  PROVE  [Mirror!PowerOn EXCEPT !.OAM = x.OAM, !.OAMHI = x.OAMHI, !.VRAM = x.VRAM, !.CGRAM = x.CGRAM] \in PpuState
<1> DEFINE p0 == Mirror!PowerOn
           p1 == Puts(p0, "OAM", x.OAM)
           p2 == Puts(p1, "OAMHI", x.OAMHI)
           p3 == Puts(p2, "VRAM", x.VRAM)
           p4 == Puts(p3, "CGRAM", x.CGRAM)
<1> HIDE DEF p0
<1>1. [p0 EXCEPT !.OAM = x.OAM, !.OAMHI = x.OAMHI, !.VRAM = x.VRAM, !.CGRAM = x.CGRAM] = p4
  BY DEF Puts
<1>2. /\ x.OAM \in Kind["OAM"] /\ x.OAMHI \in Kind["OAMHI"] /\ x.VRAM \in Kind["VRAM"] /\ x.CGRAM \in Kind["CGRAM"]
      /\ "OAM" \in PpuFields /\ "OAMHI" \in PpuFields /\ "VRAM" \in PpuFields /\ "CGRAM" \in PpuFields
  BY FieldsOf, FieldsAre, PictureKinds
<1>3. p0 \in PpuState BY PowerState DEF p0
<1> HIDE DEF p1, p2, p3, p4
<1>4. p1 \in PpuState BY <1>2, <1>3, PutsIs DEF p1
<1>5. p2 \in PpuState BY <1>2, <1>4, PutsIs DEF p2
<1>6. p3 \in PpuState BY <1>2, <1>5, PutsIs DEF p3
<1>7. p4 \in PpuState BY <1>2, <1>6, PutsIs DEF p4
<1> QED BY <1>1, <1>7 DEF p0

LEMMA NothingSent == ASSUME NEW x PROVE LeadsOn(x, <<>>, x, FALSE)
<1>1. Len(<<>>) = 0 OBVIOUS
<1>2. \A i \in 1 .. Len(<<>>) : ComesTo(x, <<>>, i, FALSE) BY <1>1
<1>3. Reached(x, <<>>) = x BY DEF Reached
<1>4. Agreed(x, x, FALSE) BY Zenon, AgreedSelf
<1> QED BY <1>2, <1>3, <1>4 DEF LeadsOn

LEMMA Copied ==
  ASSUME MirrorGood, NEW x \in PpuState, Mirror!CopyStateToRenderer(x)
  PROVE  MirrorGood'
<1>1. s3 = <<>> /\ s' = x /\ s2' = x /\ s3' = s3 /\ s5' = s5 /\ s6' = FALSE BY DEF MirrorGood, Mirror!CopyStateToRenderer
<1>2. s5 \in PpuState /\ s3 \in Seq(Entries) BY DEF MirrorGood
<1>3. LeadsOn(x, <<>>, x, FALSE) BY NothingSent
<1> QED BY <1>1, <1>2, <1>3 DEF MirrorGood

LEMMA Executes ==
  ASSUME MirrorGood, Mirror!Exec
  PROVE  MirrorGood'
<1>1. s \in PpuState /\ s2 \in PpuState /\ s5 \in PpuState /\ s3 \in Seq(Entries) /\ s6 \in BOOLEAN /\ LeadsOn(s2, s3, s, s6)
  BY DEF MirrorGood
<1> DEFINE n == Mirror!Executed(s2, Head(s3).a, Head(s3).v)
<1>2. /\ s3 # <<>> /\ ~s4 /\ s' = s /\ s2' = n /\ s3' = Tail(s3)
      /\ s4' = s4 /\ s5' = s5 /\ s6' = s6
  BY DEF MirrorGood, Mirror!Exec
<1>3. n \in PpuState /\ LeadsOn(n, Tail(s3), s, s6) BY <1>1, <1>2, LeadsTaken
<1> HIDE DEF n
<1>4. Tail(s3) \in Seq(Entries) BY <1>1, <1>2
<1> QED BY <1>1, <1>2, <1>3, <1>4 DEF MirrorGood

LEMMA MirrorNext ==
  ASSUME RegValues \subseteq Nat, MirrorGood, Mirror!Next
  PROVE  MirrorGood'
<1>1. CASE Mirror!RegisterAccess
  <2>1. ASSUME NEW b \in BOOLEAN, Mirror!Write_2100(b) PROVE MirrorGood'
    BY <2>1, Blanked
  <2>2. ASSUME NEW v \in RegValues,
               Mirror!Write_plain(v) \/ Mirror!Write_BGHOFS(v) \/ Mirror!Write_M7Matrix(v) PROVE MirrorGood'
    BY <2>2, PlainWritten
  <2>3. ASSUME NEW v \in RegValues, Mirror!Write_CGADD(v) \/ Mirror!Write_CGDATA(v) PROVE MirrorGood'
    BY <2>3, ColorWritten
  <2>4. ASSUME NEW v \in RegValues, NEW half \in {"L", "H"}, Mirror!Write_OAMADD(half, v) PROVE MirrorGood'
    BY <2>4, AddressWritten
  <2>5. ASSUME NEW v \in RegValues, NEW half \in {"L", "H"}, Mirror!Write_VMADD(half, v) PROVE MirrorGood'
    BY <2>5, VramAddressWritten
  <2>6. ASSUME NEW v \in RegValues, NEW b \in BOOLEAN, Mirror!Write_OAMDATA(v, b) PROVE MirrorGood'
    BY <2>6, OamWritten
  <2>7. ASSUME NEW v \in RegValues, NEW b \in BOOLEAN, Mirror!Write_2118(v, b) \/ Mirror!Write_2119(v, b) PROVE MirrorGood'
    BY <2>7, Vram2118Written, Vram2119Written
  <2>8. ASSUME NEW mode \in BOOLEAN, NEW trans \in BOOLEAN, NEW inc \in {1, 2}, Mirror!Write_2115(mode, inc, trans)
        PROVE  MirrorGood'
    BY <2>8, ModeWritten
  <2>9. ASSUME NEW high \in BOOLEAN, Mirror!Read_VRAM(high) PROVE MirrorGood'
    BY <2>9, VramRead
  <2> QED BY <1>1, <2>1, <2>2, <2>3, <2>4, <2>5, <2>6, <2>7, <2>8, <2>9, OamRead, ColorRead DEF Mirror!RegisterAccess
<1>2. CASE Mirror!DrawLine \/ Mirror!VBlank
  BY <1>2, LineDrawn, BlankBegins
<1>3. CASE Mirror!StartFrame
  BY <1>3 DEF Mirror!StartFrame, MirrorGood
<1>4. CASE Mirror!SyncMT
  BY <1>4 DEF Mirror!SyncMT, MirrorGood
<1>5. CASE Mirror!Exec
  BY <1>5, Executes
<1>6. CASE Mirror!SaveState
  BY <1>6 DEF Mirror!SaveState, MirrorGood
<1>7. CASE Mirror!LoadState
  <2>1. s5 \in PpuState BY DEF MirrorGood
  <2> QED BY <1>7, <2>1, Copied DEF Mirror!LoadState
<1>8. ASSUME NEW power \in BOOLEAN, Mirror!Reset(power) PROVE MirrorGood'
  <2> DEFINE n == IF power THEN Mirror!PowerOn
                  ELSE [Mirror!PowerOn EXCEPT !.OAM = s.OAM, !.OAMHI = s.OAMHI, !.VRAM = s.VRAM, !.CGRAM = s.CGRAM]
  <2>1. s \in PpuState BY DEF MirrorGood
  <2>2. n \in PpuState BY Zenon, <2>1, PowerState, ResetState
  <2>3. Mirror!CopyStateToRenderer(n) BY <1>8 DEF Mirror!Reset
  <2> HIDE DEF n
  <2> QED BY <2>2, <2>3, Copied
<1> QED BY <1>1, <1>2, <1>3, <1>4, <1>5, <1>6, <1>7, <1>8 DEF Mirror!Next

LEMMA MirrorStarts == ASSUME Mirror!Init PROVE MirrorGood
<1>1. s = Mirror!PowerOn /\ s2 = Mirror!PowerOn /\ s5 = Mirror!PowerOn /\ s3 = <<>> /\ s6 = FALSE BY DEF Mirror!Init
<1>2. LeadsOn(Mirror!PowerOn, <<>>, Mirror!PowerOn, FALSE) BY NothingSent
<1>3. <<>> \in Seq(Entries) OBVIOUS
<1> QED BY <1>1, <1>2, <1>3, PowerState DEF MirrorGood

\* Copies whose picture's fields agree show the same picture.
LEMMA AlikeWith ==
  ASSUME NEW F, F \subseteq PpuFields, NEW x \in PpuState, NEW y \in PpuState, SameOn(F, x, y),
         NEW f \in PpuFields, NEW e \in Kind[f]
  PROVE  /\ Puts(x, f, e) \in PpuState /\ Puts(y, f, e) \in PpuState /\ F \cup {f} \subseteq PpuFields
         /\ SameOn(F \cup {f}, Puts(x, f, e), Puts(y, f, e))
<1>1. /\ Puts(x, f, e) \in PpuState /\ Puts(y, f, e) \in PpuState
      /\ SameOn(F, Puts(x, f, e), Puts(y, f, e))
  BY PutsAlike
<1>2. Puts(x, f, e)[f] = e /\ Puts(y, f, e)[f] = e BY PutsIs
<1> QED BY <1>1, <1>2 DEF SameOn

LEMMA PictureSame ==
  ASSUME NEW x \in PpuState, NEW y \in PpuState, SameOn(PictureFields, x, y)
  PROVE  Mirror!Picture(x) = Mirror!Picture(y)
<1> DEFINE dark == [a \in 0 .. 1 |-> [lo |-> 0, hi |-> 0]]
           F1 == PictureFields \cup {"CGRAM_Addr"}
           F2 == F1 \cup {"CGRAM_Toggle"}
           F3 == F2 \cup {"CGRAM_Buffer"}
           F4 == F3 \cup {"CGRAM"}
           Shown(z) == Puts(Puts(Puts(Puts(z, "CGRAM_Addr", 0), "CGRAM_Toggle", FALSE), "CGRAM_Buffer", 0), "CGRAM", dark)
<1>1. \A z : Mirror!Picture(z) = Shown(z) BY DEF Mirror!Picture, Mirror!Colors, Puts
<1>2. /\ "CGRAM_Addr" \in PpuFields /\ "CGRAM_Toggle" \in PpuFields /\ "CGRAM_Buffer" \in PpuFields /\ "CGRAM" \in PpuFields
      /\ PictureFields \subseteq PpuFields /\ PpuFields = F4
  BY FieldsAre DEF PictureFields, PaletteFields
<1>3. dark \in Kind["CGRAM"] /\ 0 \in Kind["CGRAM_Addr"] /\ FALSE \in Kind["CGRAM_Toggle"] /\ 0 \in Kind["CGRAM_Buffer"]
  <2>1. dark \in [0 .. 1 -> Cells] BY DEF Cells
  <2> HIDE DEF dark
  <2> QED BY <2>1, PaletteKinds
<1> HIDE DEF dark, F1, F2, F3, F4
<1> DEFINE p1 == Puts(x, "CGRAM_Addr", 0)
           q1 == Puts(y, "CGRAM_Addr", 0)
<1>4. p1 \in PpuState /\ q1 \in PpuState /\ F1 \subseteq PpuFields /\ SameOn(F1, p1, q1)
  BY <1>2, <1>3, AlikeWith DEF F1
<1> HIDE DEF p1, q1
<1> DEFINE p2 == Puts(p1, "CGRAM_Toggle", FALSE)
           q2 == Puts(q1, "CGRAM_Toggle", FALSE)
<1>5. p2 \in PpuState /\ q2 \in PpuState /\ F2 \subseteq PpuFields /\ SameOn(F2, p2, q2)
  BY <1>2, <1>3, <1>4, AlikeWith DEF F2
<1> HIDE DEF p2, q2
<1> DEFINE p3 == Puts(p2, "CGRAM_Buffer", 0)
           q3 == Puts(q2, "CGRAM_Buffer", 0)
<1>6. p3 \in PpuState /\ q3 \in PpuState /\ F3 \subseteq PpuFields /\ SameOn(F3, p3, q3)
  BY <1>2, <1>3, <1>5, AlikeWith DEF F3
<1> HIDE DEF p3, q3
<1> DEFINE p4 == Puts(p3, "CGRAM", dark)
           q4 == Puts(q3, "CGRAM", dark)
<1>7. p4 \in PpuState /\ q4 \in PpuState /\ SameOn(F4, p4, q4)
  BY <1>2, <1>3, <1>6, AlikeWith DEF F4
<1> HIDE DEF p4, q4
<1>8. p4 = q4 BY <1>2, <1>7, SameState
<1> QED BY <1>1, <1>8 DEF p1, q1, p2, q2, p3, q3, p4, q4

LEMMA MirrorSound ==
  ASSUME MirrorGood
  PROVE  Mirror!DrawnAsWritten /\ Mirror!Agree /\ Mirror!PalettesAgree
<1>1. s \in PpuState /\ s2 \in PpuState /\ s3 \in Seq(Entries) /\ s6 \in BOOLEAN /\ LeadsOn(s2, s3, s, s6)
  BY DEF MirrorGood
<1>2. ASSUME s3 # <<>>, Head(s3).a = "line" PROVE Mirror!Picture(s2) = Mirror!Picture(Head(s3).after)
  <2>1. 1 \in 1 .. Len(s3) /\ Head(s3) = s3[1] BY <1>1, <1>2
  <2>2. s3[1].after \in PpuState BY <1>1, <2>1, EntryIs
  <2>3. ComesTo(s2, s3, 1, s6) BY <1>1, <2>1 DEF LeadsOn
  <2>4. Mirror!Executed(s2, s3[1].a, s3[1].v) = s2 BY <1>2, <2>1 DEF Mirror!Executed
  <2>5. SameOn(PictureFields, s2, s3[1].after) BY <2>3, <2>4 DEF ComesTo, Before, Agreed
  <2> QED BY <1>1, <2>1, <2>2, <2>5, PictureSame
<1>3. ASSUME s3 = <<>> PROVE Mirror!Picture(s2) = Mirror!Picture(s) /\ (~s6 => s2 = s)
  <2>1. Agreed(s2, s, s6) BY <1>1, <1>3 DEF LeadsOn, Reached
  <2> QED BY <1>1, <2>1, PictureSame DEF Agreed
<1> QED BY <1>2, <1>3 DEF Mirror!DrawnAsWritten, Mirror!Agree, Mirror!PalettesAgree

----------------------------------------------------------------------------
(* The deinterlacers.                                                      *)

\* The buffer's lines; what a field left in its rows, as old as it then is.
Pixels == SUBSET (Int \X Int)
Buffers == [0 .. Screen!MostRows - 1 -> [w : Nat, pix : [1 .. Screen!Width -> Pixels]]]
Fields == {f \in [rows : ScreenRows, field : 0 .. 1, ws : UNION {[0 .. h - 1 -> ScreenWidths] : h \in ScreenRows}] :
             f.ws \in [0 .. f.rows - 1 -> ScreenWidths]}
Keeps(buf, f, age) ==
  \A y \in 0 .. f.rows - 1 :
    buf[y].w = f.ws[y] /\ \A k \in 1 .. f.ws[y] : buf[y].pix[k] = {<<age, y>>}
TwoFields(type) == type \in {"weave", "blend"}

\* When the frame before was a field it is what is kept, and only then.
FieldKept ==
  /\ s.now \in Fields /\ s.now.rows = s.rows
  /\ s.d.height = s.rows /\ s.d.valid = TwoFields(s.d.type)
  /\ TwoFields(s.d.type) => Keeps(s.d.buf, s.now, 0)
ScreenGood ==
  /\ s = [d |-> s.d, rows |-> s.rows, PrevInterlaced |-> s.PrevInterlaced, last |-> s.last, now |-> s.now, out |-> s.out]
  /\ s.d = [type |-> s.d.type, valid |-> s.d.valid, height |-> s.d.height, buf |-> s.d.buf]
  /\ s.rows \in ScreenRows /\ s.d.buf \in Buffers
  /\ s.PrevInterlaced \in BOOLEAN
  /\ IF s.PrevInterlaced THEN FieldKept ELSE s.now.rows = 0
  /\ Screen!PictureSound

LEMMA Greatest ==
  /\ Screen!Width \in ScreenWidths /\ \A x \in ScreenWidths : x <= Screen!Width
  /\ Screen!MostRows \in ScreenRows /\ \A x \in ScreenRows : x <= Screen!MostRows
  /\ Screen!Width \in Nat /\ Screen!MostRows \in Nat
  /\ \A w \in ScreenWidths : w \in Nat \ {0} /\ 1 .. w \subseteq 1 .. Screen!Width
  /\ \A h \in ScreenRows : h \in Nat \ {0} /\ 0 .. h - 1 \subseteq 0 .. Screen!MostRows - 1
<1>1. Screen!Width \in ScreenWidths /\ \A x \in ScreenWidths : x <= Screen!Width
  BY ScreenAssumption DEF Screen!Width
<1>2. Screen!MostRows \in ScreenRows /\ \A x \in ScreenRows : x <= Screen!MostRows
  BY ScreenAssumption DEF Screen!MostRows
<1> QED BY <1>1, <1>2, ScreenAssumption

\* As time passes.
LEMMA AgedKeeps ==
  ASSUME NEW buf \in Buffers
  PROVE  /\ Screen!Aged(buf) \in Buffers
         /\ \A f \in Fields : Keeps(buf, f, 0) => Keeps(Screen!Aged(buf), f, 1)
<1> DEFINE OldLine(y) == [buf[y] EXCEPT !.pix = [k \in 1 .. Screen!Width |-> Screen!Older(buf[y].pix[k])]]
           old == Screen!Aged(buf)
<1>1. old = [y \in 0 .. Screen!MostRows - 1 |-> OldLine(y)] BY DEF Screen!Aged, Buffers
<1>2. ASSUME NEW p \in Pixels PROVE Screen!Older(p) \in Pixels
  <2>1. \A x \in p : x \in Int \X Int /\ <<x[1] + 1, x[2]>> \in Int \X Int BY DEF Pixels
  <2> QED BY <2>1 DEF Pixels, Screen!Older
<1>3. ASSUME NEW y \in 0 .. Screen!MostRows - 1
      PROVE  /\ OldLine(y) \in [w : Nat, pix : [1 .. Screen!Width -> Pixels]]
             /\ OldLine(y).w = buf[y].w
             /\ \A k \in 1 .. Screen!Width : OldLine(y).pix[k] = Screen!Older(buf[y].pix[k])
  <2>1. buf[y] \in [w : Nat, pix : [1 .. Screen!Width -> Pixels]] BY DEF Buffers
  <2> DEFINE pix == [k \in 1 .. Screen!Width |-> Screen!Older(buf[y].pix[k])]
  <2>2. pix \in [1 .. Screen!Width -> Pixels] BY <1>2, <2>1
  <2>3. OldLine(y) = [buf[y] EXCEPT !.pix = pix] OBVIOUS
  <2>4. \A k \in 1 .. Screen!Width : pix[k] = Screen!Older(buf[y].pix[k]) OBVIOUS
  <2> HIDE DEF pix
  <2> QED BY <2>1, <2>2, <2>3, <2>4
<1> HIDE DEF OldLine, old
<1>4. old \in Buffers BY <1>1, <1>3 DEF Buffers
<1>5. ASSUME NEW f \in Fields, Keeps(buf, f, 0) PROVE Keeps(old, f, 1)
  <2> SUFFICES ASSUME NEW y \in 0 .. f.rows - 1
               PROVE  old[y].w = f.ws[y] /\ \A k \in 1 .. f.ws[y] : old[y].pix[k] = {<<1, y>>}
    BY DEF Keeps
  <2>1. y \in 0 .. Screen!MostRows - 1 /\ f.ws[y] \in ScreenWidths BY Greatest DEF Fields
  <2>2. old[y] = OldLine(y) BY <1>1, <2>1
  <2>3. buf[y].w = f.ws[y] /\ \A k \in 1 .. f.ws[y] : buf[y].pix[k] = {<<0, y>>} BY <1>5 DEF Keeps
  <2>4. Screen!Older({<<0, y>>}) = {<<1, y>>} BY DEF Screen!Older
  <2>5. 1 .. f.ws[y] \subseteq 1 .. Screen!Width BY <2>1, Greatest
  <2> QED BY <1>3, <2>1, <2>2, <2>3, <2>4, <2>5
<1> QED BY <1>4, <1>5 DEF old

\* A field is kept.
LEMMA KeptKeeps ==
  ASSUME NEW buf \in Buffers, NEW f \in Fields
  PROVE  Screen!Kept(buf, f.ws, f.rows) \in Buffers /\ Keeps(Screen!Kept(buf, f.ws, f.rows), f, 0)
<1> DEFINE NewPix(y) == [k \in 1 .. Screen!Width |-> IF k <= f.ws[y] THEN Screen!Pixel(0, y) ELSE buf[y].pix[k]]
           NewLine(y) == IF y >= f.rows THEN buf[y] ELSE [w |-> f.ws[y], pix |-> NewPix(y)]
           new == Screen!Kept(buf, f.ws, f.rows)
<1>1. new = [y \in 0 .. Screen!MostRows - 1 |-> NewLine(y)] BY DEF Screen!Kept, Buffers
<1>2. f.rows \in ScreenRows /\ f.rows \in Nat /\ f.ws \in [0 .. f.rows - 1 -> ScreenWidths] BY Greatest DEF Fields
<1>3. ASSUME NEW y \in 0 .. Screen!MostRows - 1
      PROVE  NewLine(y) \in [w : Nat, pix : [1 .. Screen!Width -> Pixels]]
  <2>1. buf[y] \in [w : Nat, pix : [1 .. Screen!Width -> Pixels]] BY DEF Buffers
  <2>2. CASE y >= f.rows BY <2>1, <2>2
  <2>3. CASE ~(y >= f.rows)
    <3>0. y \in 0 .. f.rows - 1 BY <1>2, <2>3, Greatest
    <3>1. f.ws[y] \in ScreenWidths /\ f.ws[y] \in Nat BY <1>2, <3>0, Greatest
    <3>2. Screen!Pixel(0, y) \in Pixels BY DEF Screen!Pixel, Pixels
    <3>3. NewPix(y) \in [1 .. Screen!Width -> Pixels] BY <2>1, <3>2
    <3> HIDE DEF NewPix
    <3> QED BY <2>3, <3>1, <3>3
  <2> QED BY <2>2, <2>3
<1>4. ASSUME NEW y \in 0 .. f.rows - 1
      PROVE  /\ y \in 0 .. Screen!MostRows - 1 /\ NewLine(y).w = f.ws[y]
             /\ \A k \in 1 .. f.ws[y] : NewLine(y).pix[k] = {<<0, y>>}
  <2>1. y \in 0 .. Screen!MostRows - 1 /\ f.ws[y] \in ScreenWidths /\ ~(y >= f.rows) BY <1>2, Greatest
  <2>2. 1 .. f.ws[y] \subseteq 1 .. Screen!Width /\ f.ws[y] \in Nat BY <2>1, Greatest
  <2>3. \A k \in 1 .. f.ws[y] : NewPix(y)[k] = {<<0, y>>} BY <2>2 DEF Screen!Pixel
  <2> HIDE DEF NewPix
  <2> QED BY <2>1, <2>3
<1> HIDE DEF NewLine, new
<1>5. new \in Buffers BY <1>1, <1>3 DEF Buffers
<1>6. Keeps(new, f, 0) BY <1>1, <1>4 DEF Keeps
<1> QED BY <1>5, <1>6 DEF new

\* What is said of a line of the picture.
Rightly(x, n, f, last, type) ==
  \/ x[1] = 0 /\ x[2] \in {(n \div 2) - 1, n \div 2}
  \/ x[1] = 1 /\ last.rows = f.rows /\ x[2] \in {(n \div 2) - 1, n \div 2, (n \div 2) + 1}
  \/ x \in Screen!Black /\ n = 0
  \/ type = "blend" /\ f.field = 0 /\ n \div 2 > 0 /\ last.rows = f.rows /\ last.ws[(n \div 2) - 1] < f.ws[n \div 2]
Weaves(f, last, type) == type = "weave" /\ last.rows = f.rows
LineSound(line, n, f, last, type) ==
  /\ \A k \in 1 .. line.w : \A x \in line.pix[k] : Rightly(x, n, f, last, type)
  /\ n = Screen!Own(n \div 2, f.field) =>
       line.w = f.ws[n \div 2] /\ \A k \in 1 .. line.w : <<0, n \div 2>> \in line.pix[k]
  /\ Weaves(f, last, type) => \A k \in 1 .. line.w : \E x \in line.pix[k] : line.pix[k] = {x}
  /\ Weaves(f, last, type) /\ n = Screen!Other(n \div 2, f.field) => line.w = last.ws[n \div 2]

LEMMA LineIs ==
  ASSUME NEW w \in Nat, NEW pix
  PROVE  Screen!Line(w, pix).w = w /\ \A k \in 1 .. w : Screen!Line(w, pix).pix[k] = pix[k]
BY DEF Screen!Line

LEMMA RowIs ==
  ASSUME NEW y, NEW w \in Nat, w <= Screen!Width
  PROVE  Screen!Row(y, w).w = w /\ \A k \in 1 .. w : Screen!Row(y, w).pix[k] = {<<0, y>>}
<1> DEFINE pix == [k \in 1 .. Screen!Width |-> Screen!Pixel(0, y)]
<1>1. Screen!Row(y, w) = Screen!Line(w, pix) BY DEF Screen!Row
<1>2. \A k \in 1 .. w : pix[k] = {<<0, y>>} BY Greatest DEF Screen!Pixel
<1> HIDE DEF pix
<1> QED BY <1>1, <1>2, LineIs

LEMMA BlackIs ==
  ASSUME NEW w \in Nat, w <= Screen!Width
  PROVE  Screen!BlackLine(w).w = w /\ \A k \in 1 .. w : Screen!BlackLine(w).pix[k] = Screen!Black
<1> DEFINE pix == [k \in 1 .. Screen!Width |-> Screen!Black]
<1>1. Screen!BlackLine(w) = Screen!Line(w, pix) BY DEF Screen!BlackLine
<1>2. \A k \in 1 .. w : pix[k] = Screen!Black BY Greatest
<1> HIDE DEF pix
<1> QED BY <1>1, <1>2, LineIs

LEMMA FieldIs ==
  ASSUME NEW f \in Fields
  PROVE  /\ f.rows \in Nat \ {0} /\ f.rows \in ScreenRows /\ f.field \in 0 .. 1 /\ f.ws \in [0 .. f.rows - 1 -> ScreenWidths]
         /\ \A y \in 0 .. f.rows - 1 : f.ws[y] \in Nat \ {0} /\ f.ws[y] <= Screen!Width
<1>1. f.rows \in ScreenRows /\ f.field \in 0 .. 1 /\ f.ws \in [0 .. f.rows - 1 -> ScreenWidths] BY DEF Fields
<1> QED BY <1>1, Greatest

\* A row of the field on its line, or on the one below it.
LEMMA RowSound ==
  ASSUME NEW f \in Fields, NEW n \in 0 .. (2 * f.rows) - 1, NEW last, NEW type, NEW y \in 0 .. f.rows - 1,
         y \in {(n \div 2) - 1, n \div 2}, n = Screen!Own(n \div 2, f.field) => y = n \div 2,
         Weaves(f, last, type) => n = Screen!Own(n \div 2, f.field)
  PROVE  LineSound(Screen!Row(y, f.ws[y]), n, f, last, type)
<1> DEFINE line == Screen!Row(y, f.ws[y])
<1>1. f.ws[y] \in Nat /\ f.ws[y] <= Screen!Width /\ f.field \in 0 .. 1 BY FieldIs
<1>2. line.w = f.ws[y] /\ \A k \in 1 .. f.ws[y] : line.pix[k] = {<<0, y>>} BY <1>1, RowIs
<1> HIDE DEF line
<1>3. \A k \in 1 .. line.w : \A x \in line.pix[k] : Rightly(x, n, f, last, type) BY <1>2 DEF Rightly
<1>4. \A k \in 1 .. line.w : \E x \in line.pix[k] : line.pix[k] = {x} BY <1>2
<1>5. n = Screen!Own(n \div 2, f.field) => n # Screen!Other(n \div 2, f.field)
  BY <1>1, FieldIs DEF Screen!Own, Screen!Other
<1> QED BY <1>2, <1>3, <1>4, <1>5 DEF LineSound, line

LEMMA BlackSound ==
  ASSUME NEW f \in Fields, NEW last, NEW type, f.field = 1, NEW w \in Nat, w <= Screen!Width, ~Weaves(f, last, type)
  PROVE  LineSound(Screen!BlackLine(w), 0, f, last, type)
<1> DEFINE line == Screen!BlackLine(w)
<1>1. line.w = w /\ \A k \in 1 .. w : line.pix[k] = Screen!Black BY BlackIs
<1> HIDE DEF line
<1>2. \A k \in 1 .. line.w : \A x \in line.pix[k] : Rightly(x, 0, f, last, type) BY <1>1 DEF Rightly
<1>3. 0 # Screen!Own(0 \div 2, f.field) BY DEF Screen!Own
<1> QED BY <1>2, <1>3 DEF LineSound, line

LEMMA WeaveSound ==
  ASSUME NEW f \in Fields, NEW n \in 0 .. (2 * f.rows) - 1, NEW last \in Fields, last.rows = f.rows,
         NEW d, Keeps(d.buf, last, 1)
  PROVE  LineSound(Screen!Weave(d, f.ws, f.rows, f.field)[n], n, f, last, "weave")
<1> DEFINE y == n \div 2
           line == Screen!Weave(d, f.ws, f.rows, f.field)[n]
           old == Screen!Line(d.buf[y].w, d.buf[y].pix)
<1>1. f.rows \in Nat \ {0} /\ y \in 0 .. f.rows - 1 /\ f.field \in 0 .. 1 BY FieldIs
<1>2. line = IF n = Screen!Own(y, f.field) THEN Screen!Row(y, f.ws[y]) ELSE old BY DEF Screen!Weave
<1>3. CASE n = Screen!Own(y, f.field)
  <2>1. LineSound(Screen!Row(y, f.ws[y]), n, f, last, "weave") BY <1>1, <1>3, RowSound
  <2> QED BY <1>2, <1>3, <2>1
<1>4. CASE n # Screen!Own(y, f.field)
  <2>1. d.buf[y].w = last.ws[y] /\ last.ws[y] \in Nat /\ \A k \in 1 .. last.ws[y] : d.buf[y].pix[k] = {<<1, y>>}
    BY <1>1, FieldIs DEF Keeps
  <2>2. old.w = last.ws[y] /\ \A k \in 1 .. last.ws[y] : old.pix[k] = {<<1, y>>} BY <2>1, LineIs
  <2> HIDE DEF old
  <2>3. \A k \in 1 .. old.w : \A x \in old.pix[k] : Rightly(x, n, f, last, "weave") BY <2>2 DEF Rightly
  <2>4. \A k \in 1 .. old.w : \E x \in old.pix[k] : old.pix[k] = {x} BY <2>2
  <2>5. LineSound(old, n, f, last, "weave") BY <1>4, <2>2, <2>3, <2>4 DEF LineSound
  <2> QED BY <1>2, <1>4, <2>5
<1> QED BY <1>3, <1>4

LEMMA BobSound ==
  ASSUME NEW f \in Fields, NEW n \in 0 .. (2 * f.rows) - 1, NEW last, NEW type, type # "weave"
  PROVE  LineSound(Screen!Bob(f.ws, f.rows)[n], n, f, last, type)
<1>1. f.rows \in Nat \ {0} /\ n \div 2 \in 0 .. f.rows - 1 BY FieldIs
<1>2. Screen!Bob(f.ws, f.rows)[n] = Screen!Row(n \div 2, f.ws[n \div 2]) BY DEF Screen!Bob
<1> QED BY <1>1, <1>2, RowSound DEF Weaves

\* Where the lines of an offset field lie.
LEMMA OffsetRow ==
  ASSUME NEW f \in Fields, NEW n \in 0 .. (2 * f.rows) - 1, ~(n < f.field), NEW y, y = (n - f.field) \div 2
  PROVE  /\ y \in 0 .. f.rows - 1 /\ y \in {(n \div 2) - 1, n \div 2}
         /\ n = Screen!Own(n \div 2, f.field) => y = n \div 2
         /\ n = Screen!Own(y, f.field) <=> n = Screen!Own(n \div 2, f.field)
         /\ n # Screen!Own(y, f.field) => n \div 2 = y + f.field /\ y + f.field \in 0 .. f.rows - 1
<1>1. f.rows \in Nat \ {0} /\ f.field \in 0 .. 1 BY FieldIs
<1>2. CASE f.field = 0 BY <1>1, <1>2 DEF Screen!Own
<1>3. CASE f.field = 1 BY <1>1, <1>3 DEF Screen!Own
<1> QED BY <1>1, <1>2, <1>3

LEMMA OffsetSound ==
  ASSUME NEW f \in Fields, NEW n \in 0 .. (2 * f.rows) - 1, NEW last, NEW type, ~Weaves(f, last, type)
  PROVE  LineSound(Screen!Offset(f.ws, f.rows, f.field)[n], n, f, last, type)
<1> DEFINE y == (n - f.field) \div 2
           line == Screen!Offset(f.ws, f.rows, f.field)[n]
<1>1. line = IF n < f.field THEN Screen!BlackLine(f.ws[0]) ELSE Screen!Row(y, f.ws[y]) BY DEF Screen!Offset
<1>2. CASE n < f.field
  <2>1. n = 0 /\ f.field = 1 /\ f.ws[0] \in Nat /\ f.ws[0] <= Screen!Width BY <1>2, FieldIs
  <2> QED BY <1>1, <1>2, <2>1, BlackSound
<1>3. CASE ~(n < f.field)
  <2> HIDE DEF y
  <2>1. y = (n - f.field) \div 2 BY DEF y
  <2>2. LineSound(Screen!Row(y, f.ws[y]), n, f, last, type) BY <1>3, <2>1, OffsetRow, RowSound
  <2> QED BY <1>1, <1>3, <2>2
<1> QED BY <1>2, <1>3

\* A line mixed of two, each of which may be on it.
LEMMA MixSound ==
  ASSUME NEW f \in Fields, NEW n, NEW last, NEW w \in Nat, NEW a, NEW b,
         \A k \in 1 .. w : /\ \A x \in a[k] : Rightly(x, n, f, last, "blend")
                           /\ \A x \in b[k] : Rightly(x, n, f, last, "blend"),
         n = Screen!Own(n \div 2, f.field) => w = f.ws[n \div 2] /\ \A k \in 1 .. w : <<0, n \div 2>> \in a[k]
  PROVE  LineSound(Screen!Mix(a, b, w), n, f, last, "blend")
<1> DEFINE line == Screen!Mix(a, b, w)
<1>1. line.w = w /\ \A k \in 1 .. w : line.pix[k] = a[k] \cup b[k] BY DEF Screen!Mix
<1> HIDE DEF line
<1>2. \A k \in 1 .. line.w : \A x \in line.pix[k] : Rightly(x, n, f, last, "blend") BY <1>1
<1> QED BY <1>1, <1>2 DEF LineSound, Weaves, line

LEMMA BlendedSound ==
  ASSUME NEW f \in Fields, NEW n \in 0 .. (2 * f.rows) - 1, NEW last \in Fields, last.rows = f.rows,
         NEW d, Keeps(d.buf, last, 1), NEW y, y = IF n < f.field THEN 0 ELSE (n - f.field) \div 2,
         Screen!Blends(d, f.ws, f.rows, f.field, y)
  PROVE  LineSound(Screen!Blend(d, f.ws, f.rows, f.field)[n], n, f, last, "blend")
<1> DEFINE line == Screen!Blend(d, f.ws, f.rows, f.field)[n]
           row == Screen!Row(y, f.ws[y])
           above == Screen!Above(d, f.field, y)
           below == d.buf[y + f.field].pix
<1>1. line = IF n < f.field THEN Screen!Mix(d.buf[0].pix, Screen!Blacks, f.ws[0])
             ELSE IF n = Screen!Own(y, f.field) THEN Screen!Mix(row.pix, above, f.ws[y])
             ELSE Screen!Mix(row.pix, below, f.ws[y])
  BY DEF Screen!Blend
<1>2. /\ f.rows \in Nat \ {0} /\ f.field \in 0 .. 1 /\ y \in 0 .. f.rows - 1 /\ n \in Nat
      /\ f.ws[y] \in Nat /\ f.ws[0] \in Nat /\ f.ws[y] <= Screen!Width /\ f.ws[0] <= Screen!Width
      /\ Screen!Width \in Nat
  <2>1. f.rows \in Nat \ {0} /\ f.field \in 0 .. 1 BY FieldIs
  <2>2. y \in 0 .. f.rows - 1
    <3>1. CASE n < f.field BY <2>1, <3>1
    <3>2. CASE ~(n < f.field) BY <3>2, OffsetRow
    <3> QED BY <3>1, <3>2
  <2>3. 0 \in 0 .. f.rows - 1 /\ n \in Nat BY <2>1
  <2>4. \A z \in 0 .. f.rows - 1 : f.ws[z] \in Nat \ {0} /\ f.ws[z] <= Screen!Width BY FieldIs
  <2>5. Screen!Width \in Nat BY Greatest
  <2> QED BY <2>1, <2>2, <2>3, <2>4, <2>5
<1>3. \A z \in 0 .. f.rows - 1 : d.buf[z].w = last.ws[z] /\ \A k \in 1 .. last.ws[z] : d.buf[z].pix[k] = {<<1, z>>}
  BY DEF Keeps
<1>4. f.ws[y] = last.ws[y] BY <1>2, <1>3 DEF Screen!Blends
<1>5. \A k \in 1 .. f.ws[y] : row.pix[k] = {<<0, y>>} BY <1>2, RowIs
<1>6. \A k \in 1 .. Screen!Width : Screen!Blacks[k] = Screen!Black BY DEF Screen!Blacks
<1> HIDE DEF row, above, below, line
<1>7. CASE n < f.field
  <2>1. n = 0 /\ f.field = 1 /\ y = 0 BY <1>2, <1>7
  <2>2. \A k \in 1 .. f.ws[0] : d.buf[0].pix[k] = {<<1, 0>>} /\ Screen!Blacks[k] = Screen!Black
    BY <1>2, <1>3, <1>4, <1>6, <2>1
  <2>3. \A k \in 1 .. f.ws[0] : /\ \A x \in d.buf[0].pix[k] : Rightly(x, n, f, last, "blend")
                                /\ \A x \in Screen!Blacks[k] : Rightly(x, n, f, last, "blend")
    BY <2>1, <2>2 DEF Rightly
  <2>4. n # Screen!Own(n \div 2, f.field) BY <2>1 DEF Screen!Own
  <2>5. LineSound(Screen!Mix(d.buf[0].pix, Screen!Blacks, f.ws[0]), n, f, last, "blend")
    BY <1>2, <2>3, <2>4, MixSound
  <2> QED BY <1>1, <1>7, <2>5 DEF line
<1>8. CASE ~(n < f.field)
  <2>0. /\ y \in {(n \div 2) - 1, n \div 2}
        /\ n = Screen!Own(n \div 2, f.field) => y = n \div 2
        /\ n = Screen!Own(y, f.field) <=> n = Screen!Own(n \div 2, f.field)
        /\ n # Screen!Own(y, f.field) => n \div 2 = y + f.field /\ y + f.field \in 0 .. f.rows - 1
    BY <1>8, OffsetRow
  <2>1. \A k \in 1 .. f.ws[y] : \A x \in row.pix[k] : Rightly(x, n, f, last, "blend") BY <1>5, <2>0 DEF Rightly
  <2>2. n = Screen!Own(n \div 2, f.field) => \A k \in 1 .. f.ws[y] : <<0, n \div 2>> \in row.pix[k] BY <1>5, <2>0
  <2>3. CASE n = Screen!Own(y, f.field)
    <3>1. y = n \div 2 BY <2>0, <2>3
    <3>2. \A k \in 1 .. f.ws[y] : \A x \in above[k] : Rightly(x, n, f, last, "blend")
      <4>1. CASE f.field = 1
        <5>1. above = d.buf[y].pix BY <4>1 DEF above, Screen!Above
        <5>2. \A k \in 1 .. f.ws[y] : above[k] = {<<1, y>>} BY <1>2, <1>3, <1>4, <5>1
        <5> QED BY <3>1, <5>2 DEF Rightly
      <4>2. CASE f.field = 0 /\ y > 0
        <5>1. above = d.buf[y - 1].pix BY <4>2 DEF above, Screen!Above
        <5>2. y - 1 \in 0 .. f.rows - 1 /\ last.ws[y - 1] \in Nat BY <1>2, <4>2, FieldIs
        <5>3. CASE last.ws[y - 1] < f.ws[y] BY <3>1, <4>2, <5>3 DEF Rightly
        <5>4. CASE ~(last.ws[y - 1] < f.ws[y])
          <6>1. \A k \in 1 .. f.ws[y] : above[k] = {<<1, y - 1>>} BY <1>2, <1>3, <5>1, <5>2, <5>4
          <6> QED BY <3>1, <6>1 DEF Rightly
        <5> QED BY <5>3, <5>4
      <4>3. CASE f.field = 0 /\ ~(y > 0)
        <5>1. above = Screen!Blacks /\ n = 0 BY <1>2, <2>3, <4>3 DEF above, Screen!Above, Screen!Own
        <5>2. \A k \in 1 .. f.ws[y] : above[k] = Screen!Black BY <1>2, <1>6, <5>1
        <5> QED BY <5>1, <5>2 DEF Rightly
      <4> QED BY <1>2, <4>1, <4>2, <4>3
    <3>3. LineSound(Screen!Mix(row.pix, above, f.ws[y]), n, f, last, "blend")
      <4> HIDE DEF Rightly
      <4>1. n = Screen!Own(n \div 2, f.field) =>
              f.ws[y] = f.ws[n \div 2] /\ \A k \in 1 .. f.ws[y] : <<0, n \div 2>> \in row.pix[k]
        BY <2>2, <3>1
      <4> QED BY <1>2, <2>1, <3>2, <4>1, MixSound
    <3> QED BY <1>1, <1>8, <2>3, <3>3 DEF line
  <2>4. CASE n # Screen!Own(y, f.field)
    <3>1. n \div 2 = y + f.field /\ y + f.field \in 0 .. f.rows - 1 BY <2>0, <2>4
    <3>2. last.ws[y + f.field] = f.ws[y]
      <4>1. CASE f.field = 0 BY <1>2, <1>4, <4>1
      <4>2. CASE f.field = 1
        <5>1. y + 1 < f.rows BY <1>2, <3>1, <4>2
        <5>2. f.ws[y] = d.buf[y + 1].w BY <4>2, <5>1 DEF Screen!Blends
        <5> QED BY <1>3, <3>1, <4>2, <5>2
      <4> QED BY <1>2, <4>1, <4>2
    <3>3. \A k \in 1 .. f.ws[y] : below[k] = {<<1, y + f.field>>} BY <1>3, <3>1, <3>2 DEF below
    <3>4. \A k \in 1 .. f.ws[y] : \A x \in below[k] : Rightly(x, n, f, last, "blend") BY <3>1, <3>3 DEF Rightly
    <3>5. LineSound(Screen!Mix(row.pix, below, f.ws[y]), n, f, last, "blend")
      <4>1. n # Screen!Own(n \div 2, f.field) BY <2>0, <2>4
      <4> QED BY <1>2, <2>1, <3>4, <4>1, MixSound
    <3> QED BY <1>1, <1>8, <2>4, <3>5 DEF line
  <2> QED BY <2>3, <2>4
<1> QED BY <1>7, <1>8 DEF line

LEMMA UnblendedSound ==
  ASSUME NEW f \in Fields, NEW n \in 0 .. (2 * f.rows) - 1, NEW last, NEW d, NEW y,
         y = IF n < f.field THEN 0 ELSE (n - f.field) \div 2, ~Screen!Blends(d, f.ws, f.rows, f.field, y)
  PROVE  LineSound(Screen!Blend(d, f.ws, f.rows, f.field)[n], n, f, last, "blend")
<1>1. Screen!Blend(d, f.ws, f.rows, f.field)[n]
        = IF n < f.field THEN Screen!BlackLine(f.ws[0]) ELSE Screen!Row(y, f.ws[y])
  BY DEF Screen!Blend
<1>2. Screen!Offset(f.ws, f.rows, f.field)[n]
        = IF n < f.field THEN Screen!BlackLine(f.ws[0]) ELSE Screen!Row((n - f.field) \div 2, f.ws[(n - f.field) \div 2])
  BY DEF Screen!Offset
<1>3. Screen!Blend(d, f.ws, f.rows, f.field)[n] = Screen!Offset(f.ws, f.rows, f.field)[n] BY <1>1, <1>2
<1> QED BY <1>3, OffsetSound DEF Weaves

\* The deinterlacer a field goes through: as it was left, older by a frame, and
\* without what it kept if no field was the frame before.
LEMMA FieldGiven ==
  ASSUME ScreenGood, NEW d,
         d = Screen!Fits(IF s.PrevInterlaced THEN [s.d EXCEPT !.buf = Screen!Aged(@)]
                         ELSE Screen!ClearState([s.d EXCEPT !.buf = Screen!Aged(@)]), s.rows)
  PROVE  /\ d = [type |-> d.type, valid |-> d.valid, height |-> d.height, buf |-> d.buf]
         /\ d.type = s.d.type /\ d.buf \in Buffers
         /\ s.PrevInterlaced => /\ d.valid = TwoFields(s.d.type) /\ d.height = s.rows
                                /\ TwoFields(s.d.type) => Keeps(d.buf, s.now, 1)
         /\ ~s.PrevInterlaced => d.valid = FALSE
<1> DEFINE aged == Screen!Aged(s.d.buf)
           old == [s.d EXCEPT !.buf = aged]
<1>1. /\ s.d = [type |-> s.d.type, valid |-> s.d.valid, height |-> s.d.height, buf |-> s.d.buf]
      /\ s.d.buf \in Buffers /\ s.PrevInterlaced \in BOOLEAN
      /\ s.PrevInterlaced => FieldKept
  BY DEF ScreenGood
<1>2. aged \in Buffers /\ \A f \in Fields : Keeps(s.d.buf, f, 0) => Keeps(aged, f, 1) BY <1>1, AgedKeeps
<1>3. d = Screen!Fits(IF s.PrevInterlaced THEN old ELSE Screen!ClearState(old), s.rows) OBVIOUS
<1> HIDE DEF aged
<1>4. old = [type |-> s.d.type, valid |-> s.d.valid, height |-> s.d.height, buf |-> aged] BY <1>1
<1> HIDE DEF old
<1>5. CASE s.PrevInterlaced
  <2>1. FieldKept BY <1>1, <1>5
  <2>2. d = old BY <1>3, <1>4, <1>5, <2>1 DEF Screen!Fits, FieldKept
  <2>3. TwoFields(s.d.type) => Keeps(aged, s.now, 1) BY <1>2, <2>1 DEF FieldKept
  <2> QED BY <1>2, <1>4, <1>5, <2>1, <2>2, <2>3 DEF FieldKept
<1>6. CASE ~s.PrevInterlaced
  <2> DEFINE clear == Screen!ClearState(old)
             height == IF s.d.type = "blend" THEN s.d.height ELSE 0
  <2>0. clear = [old EXCEPT !.valid = FALSE, !.height = IF old.type = "blend" THEN old.height ELSE 0]
    BY DEF Screen!ClearState
  <2>1. clear = [type |-> s.d.type, valid |-> FALSE, height |-> height, buf |-> aged] BY <1>4, <2>0
  <2> HIDE DEF clear, height
  <2>2. d = clear \/ d = [clear EXCEPT !.valid = FALSE] BY <1>3, <1>6 DEF Screen!Fits, clear
  <2>3. d = [type |-> s.d.type, valid |-> FALSE, height |-> height, buf |-> aged] BY <2>1, <2>2
  <2> QED BY <1>2, <1>6, <2>3
<1> QED BY <1>1, <1>5, <1>6

LEMMA PictureLines ==
  ASSUME ScreenGood, NEW f \in Fields, f.rows = s.rows, NEW d,
         d = Screen!Fits(IF s.PrevInterlaced THEN [s.d EXCEPT !.buf = Screen!Aged(@)]
                         ELSE Screen!ClearState([s.d EXCEPT !.buf = Screen!Aged(@)]), s.rows)
  PROVE  /\ DOMAIN Screen!Picture(d, f.ws, f.rows, f.field) = 0 .. (2 * f.rows) - 1
         /\ \A n \in 0 .. (2 * f.rows) - 1 :
              LineSound(Screen!Picture(d, f.ws, f.rows, f.field)[n], n, f, s.now, s.d.type)
<1>1. /\ d.type = s.d.type
      /\ s.PrevInterlaced => /\ d.valid = TwoFields(s.d.type) /\ d.height = s.rows
                             /\ TwoFields(s.d.type) => Keeps(d.buf, s.now, 1)
      /\ ~s.PrevInterlaced => d.valid = FALSE
  BY FieldGiven
<1>2. /\ f.rows \in Nat \ {0} /\ s.PrevInterlaced \in BOOLEAN
      /\ s.PrevInterlaced => s.now \in Fields /\ s.now.rows = f.rows
      /\ ~s.PrevInterlaced => s.now.rows = 0
  BY FieldIs DEF ScreenGood, FieldKept
<1> DEFINE out == Screen!Picture(d, f.ws, f.rows, f.field)
<1>3. CASE Screen!WeaveGood(d, f.rows)
  <2>1. s.d.type = "weave" /\ s.PrevInterlaced BY <1>1, <1>2, <1>3 DEF Screen!WeaveGood
  <2>2. Keeps(d.buf, s.now, 1) BY <1>1, <2>1 DEF TwoFields
  <2>3. out = Screen!Weave(d, f.ws, f.rows, f.field) BY <1>1, <1>3, <2>1 DEF Screen!Picture
  <2>4. DOMAIN out = 0 .. (2 * f.rows) - 1 BY <2>3 DEF Screen!Weave
  <2>5. ASSUME NEW n \in 0 .. (2 * f.rows) - 1 PROVE LineSound(out[n], n, f, s.now, s.d.type)
    BY <1>2, <2>1, <2>2, <2>3, WeaveSound
  <2> QED BY <2>4, <2>5
<1>4. CASE ~Screen!WeaveGood(d, f.rows) /\ d.type = "bob"
  <2>1. out = Screen!Bob(f.ws, f.rows) BY <1>4 DEF Screen!Picture
  <2>2. DOMAIN out = 0 .. (2 * f.rows) - 1 BY <2>1 DEF Screen!Bob
  <2>3. ASSUME NEW n \in 0 .. (2 * f.rows) - 1 PROVE LineSound(out[n], n, f, s.now, s.d.type)
    BY <1>1, <1>4, <2>1, BobSound
  <2> QED BY <2>2, <2>3
<1>5. CASE ~Screen!WeaveGood(d, f.rows) /\ d.type = "blend"
  <2>1. out = Screen!Blend(d, f.ws, f.rows, f.field) BY <1>5 DEF Screen!Picture
  <2>2. DOMAIN out = 0 .. (2 * f.rows) - 1 BY Zenon, <2>1 DEF Screen!Blend
  <2>3. ASSUME NEW n \in 0 .. (2 * f.rows) - 1 PROVE LineSound(out[n], n, f, s.now, "blend")
    <3> DEFINE y == IF n < f.field THEN 0 ELSE (n - f.field) \div 2
    <3>0. y = IF n < f.field THEN 0 ELSE (n - f.field) \div 2 OBVIOUS
    <3> HIDE DEF y, out
    <3>1. CASE Screen!Blends(d, f.ws, f.rows, f.field, y)
      <4>1. d.valid BY <3>1 DEF Screen!Blends
      <4>2. s.PrevInterlaced BY <1>1, <1>2, <4>1
      <4>3. Keeps(d.buf, s.now, 1) BY <1>1, <1>5, <4>2 DEF TwoFields
      <4> QED BY <1>2, <2>1, <3>0, <3>1, <4>2, <4>3, BlendedSound
    <3>2. CASE ~Screen!Blends(d, f.ws, f.rows, f.field, y)
      BY <2>1, <3>0, <3>2, UnblendedSound
    <3> QED BY <3>1, <3>2
  <2> QED BY <1>1, <1>5, <2>2, <2>3
<1>6. CASE ~Screen!WeaveGood(d, f.rows) /\ d.type \notin {"bob", "blend"}
  <2>1. out = Screen!Offset(f.ws, f.rows, f.field) BY <1>6 DEF Screen!Picture
  <2>2. DOMAIN out = 0 .. (2 * f.rows) - 1 BY <2>1 DEF Screen!Offset
  <2>3. ~Weaves(f, s.now, s.d.type)
    <3> SUFFICES ASSUME s.d.type = "weave", s.now.rows = f.rows PROVE FALSE BY DEF Weaves
    <3>1. s.PrevInterlaced BY <1>2
    <3> QED BY <1>1, <1>6, <3>1 DEF TwoFields, Screen!WeaveGood
  <2>4. ASSUME NEW n \in 0 .. (2 * f.rows) - 1 PROVE LineSound(out[n], n, f, s.now, s.d.type)
    BY <2>1, <2>3, OffsetSound
  <2> QED BY <2>2, <2>4
<1> QED BY <1>3, <1>4, <1>5, <1>6

\* A game is loaded; no field is kept.
NoFieldYet(x) ==
  /\ x = [d |-> x.d, rows |-> x.rows, PrevInterlaced |-> x.PrevInterlaced, last |-> x.last, now |-> x.now, out |-> x.out]
  /\ x.d = [type |-> x.d.type, valid |-> x.d.valid, height |-> x.d.height, buf |-> x.d.buf]
  /\ x.rows \in ScreenRows /\ x.d.buf \in Buffers /\ x.PrevInterlaced = FALSE /\ x.now.rows = 0

LEMMA GameLoads ==
  ASSUME NEW type, NEW rows \in ScreenRows
  PROVE  NoFieldYet(Screen!LoadCommonPost(type, rows))
<1> DEFINE buf == [y \in 0 .. Screen!MostRows - 1 |-> Screen!Empty]
           d == [type |-> type, valid |-> FALSE, height |-> 0, buf |-> buf]
<1>1. buf \in Buffers
  <2> DEFINE pix == [k \in 1 .. Screen!Width |-> Screen!Garbage]
  <2>1. pix \in [1 .. Screen!Width -> Pixels] BY DEF Screen!Garbage, Pixels
  <2>2. Screen!Empty = [w |-> 0, pix |-> pix] BY DEF Screen!Empty
  <2> HIDE DEF pix
  <2>3. Screen!Empty \in [w : Nat, pix : [1 .. Screen!Width -> Pixels]] BY <2>1, <2>2
  <2> QED BY <2>3 DEF Buffers
<1> DEFINE x == Screen!LoadCommonPost(type, rows)
<1>2. x = [d |-> d, rows |-> rows, PrevInterlaced |-> FALSE, last |-> Screen!NoField,
           now |-> Screen!NoField, out |-> <<>>]
  BY DEF Screen!LoadCommonPost, Screen!Create
<1>3. Screen!NoField.rows = 0 BY DEF Screen!NoField
<1> HIDE DEF buf, x
<1>4. NoFieldYet(x) BY <1>1, <1>2, <1>3 DEF NoFieldYet
<1> QED BY <1>4 DEF x

LEMMA Progresses ==
  ASSUME ScreenGood, Screen!Progressive
  PROVE  ScreenGood'
<1> DEFINE buf == Screen!Aged(s.d.buf)
           d == [type |-> s.d.type, valid |-> s.d.valid, height |-> s.d.height, buf |-> buf]
<1>1. /\ s = [d |-> s.d, rows |-> s.rows, PrevInterlaced |-> s.PrevInterlaced, last |-> s.last, now |-> s.now, out |-> s.out]
      /\ s.d = [type |-> s.d.type, valid |-> s.d.valid, height |-> s.d.height, buf |-> s.d.buf]
      /\ s.rows \in ScreenRows /\ s.d.buf \in Buffers
  BY DEF ScreenGood
<1>2. buf \in Buffers BY <1>1, AgedKeeps
<1>3. s' = [s EXCEPT !.d.buf = buf, !.PrevInterlaced = FALSE, !.last = Screen!NoField, !.now = Screen!NoField, !.out = <<>>]
  BY DEF Screen!Progressive
<1> HIDE DEF buf
<1>4. s' = [d |-> d, rows |-> s.rows, PrevInterlaced |-> FALSE, last |-> Screen!NoField,
            now |-> Screen!NoField, out |-> <<>>]
  <2>1. [s.d EXCEPT !.buf = buf] = d BY <1>1
  <2>2. [s EXCEPT !.d.buf = buf] = [s EXCEPT !.d = [s.d EXCEPT !.buf = buf]] OBVIOUS
  <2> HIDE DEF d
  <2> QED BY <1>1, <1>3, <2>1, <2>2
<1>5. Screen!NoField.rows = 0 BY DEF Screen!NoField
<1> QED BY <1>1, <1>2, <1>4, <1>5 DEF ScreenGood, Screen!PictureSound

LEMMA FieldShown ==
  ASSUME ScreenGood, NEW field \in 0 .. 1, NEW ws \in [0 .. s.rows - 1 -> ScreenWidths],
         Screen!Interlaced(s.rows, field, ws)
  PROVE  ScreenGood'
<1> DEFINE d == Screen!Fits(IF s.PrevInterlaced THEN [s.d EXCEPT !.buf = Screen!Aged(@)]
                            ELSE Screen!ClearState([s.d EXCEPT !.buf = Screen!Aged(@)]), s.rows)
           f == [rows |-> s.rows, field |-> field, ws |-> ws]
           buf == IF TwoFields(s.d.type) THEN Screen!Kept(d.buf, ws, s.rows) ELSE d.buf
           kept == [type |-> s.d.type, valid |-> TwoFields(s.d.type), height |-> s.rows, buf |-> buf]
           out == Screen!Picture(d, ws, s.rows, field)
<1>1. s.rows \in ScreenRows BY DEF ScreenGood
<1>2. /\ f \in Fields /\ f.rows = s.rows /\ f.field = field /\ f.ws = ws
  <2>1. ws \in UNION {[0 .. h - 1 -> ScreenWidths] : h \in ScreenRows} BY <1>1
  <2> QED BY <1>1, <2>1 DEF Fields
<1>3. d.type = s.d.type /\ d.buf \in Buffers BY FieldGiven
<1>4. Screen!Process(d, ws, s.rows, field) = kept BY <1>3 DEF Screen!Process, TwoFields
<1>5. s' = [d |-> kept, rows |-> s.rows, PrevInterlaced |-> TRUE, last |-> s.now, now |-> f, out |-> out]
  <2>1. s' = [d |-> Screen!Process(d, ws, s.rows, field), rows |-> s.rows, PrevInterlaced |-> TRUE,
              last |-> s.now, now |-> f, out |-> out]
    BY DEF Screen!Interlaced
  <2> HIDE DEF kept, d, f, out
  <2> QED BY <1>4, <2>1
<1>6. buf \in Buffers /\ (TwoFields(s.d.type) => Keeps(buf, f, 0))
  <2>1. Screen!Kept(d.buf, f.ws, f.rows) \in Buffers /\ Keeps(Screen!Kept(d.buf, f.ws, f.rows), f, 0)
    <3> HIDE DEF d, f
    <3> QED BY <1>2, <1>3, KeptKeeps
  <2> HIDE DEF d, f
  <2> QED BY <1>2, <1>3, <2>1
<1>7. /\ DOMAIN out = 0 .. (2 * f.rows) - 1
      /\ \A n \in 0 .. (2 * f.rows) - 1 : LineSound(out[n], n, f, s.now, s.d.type)
  <2>1. d = Screen!Fits(IF s.PrevInterlaced THEN [s.d EXCEPT !.buf = Screen!Aged(@)]
                         ELSE Screen!ClearState([s.d EXCEPT !.buf = Screen!Aged(@)]), s.rows)
    OBVIOUS
  <2> HIDE DEF d, f
  <2> QED BY <1>2, <2>1, PictureLines
<1> HIDE DEF d, buf, f, out
<1>8. /\ s'.d.type = s.d.type /\ s'.d.valid = TwoFields(s.d.type) /\ s'.d.height = s.rows /\ s'.d.buf = buf
      /\ s'.rows = s.rows /\ s'.PrevInterlaced = TRUE /\ s'.last = s.now /\ s'.now = f /\ s'.out = out
      /\ s' = [d |-> s'.d, rows |-> s'.rows, PrevInterlaced |-> s'.PrevInterlaced, last |-> s'.last, now |-> s'.now, out |-> s'.out]
      /\ s'.d = [type |-> s'.d.type, valid |-> s'.d.valid, height |-> s'.d.height, buf |-> s'.d.buf]
  BY <1>5
<1> HIDE DEF kept
<1>9. Screen!PictureSound'
  <2>1. ASSUME NEW n \in DOMAIN s'.out PROVE LineSound(s'.out[n], n, s'.now, s'.last, s'.d.type)
    BY <1>7, <1>8, <2>1
  <2> SUFFICES ASSUME NEW n \in DOMAIN s'.out
               PROVE  LET y == n \div 2 IN
                 /\ \A k \in 1 .. s'.out[n].w : \A x \in s'.out[n].pix[k] :
                      \/ x[1] = 0 /\ x[2] \in {y - 1, y}
                      \/ x[1] = 1 /\ s'.last.rows = s'.now.rows /\ x[2] \in {y - 1, y, y + 1}
                      \/ x \in Screen!Black /\ n = 0
                      \/ (s'.d.type = "blend" /\ s'.now.field = 0 /\ y > 0 /\ s'.last.rows = s'.now.rows /\ s'.last.ws[y - 1] < s'.now.ws[y])
                 /\ n = Screen!Own(y, s'.now.field) =>
                      s'.out[n].w = s'.now.ws[y] /\ \A k \in 1 .. s'.out[n].w : <<0, y>> \in s'.out[n].pix[k]
                 /\ (s'.d.type = "weave" /\ s'.last.rows = s'.now.rows) => \A k \in 1 .. s'.out[n].w : \E x \in s'.out[n].pix[k] : s'.out[n].pix[k] = {x}
                 /\ (s'.d.type = "weave" /\ s'.last.rows = s'.now.rows /\ n = Screen!Other(y, s'.now.field)) => s'.out[n].w = s'.last.ws[y]
    BY DEF Screen!PictureSound, Screen!Usable, Screen!Ragged
  <2>2. LineSound(s'.out[n], n, s'.now, s'.last, s'.d.type) BY <2>1
  <2> DEFINE y == n \div 2
             line == s'.out[n]
  <2>4. \A k \in 1 .. line.w : \A x \in line.pix[k] : Rightly(x, n, s'.now, s'.last, s'.d.type)
    BY <2>2 DEF LineSound
  <2>5. \A k \in 1 .. line.w : \A x \in line.pix[k] :
          \/ x[1] = 0 /\ x[2] \in {y - 1, y}
          \/ x[1] = 1 /\ s'.last.rows = s'.now.rows /\ x[2] \in {y - 1, y, y + 1}
          \/ x \in Screen!Black /\ n = 0
          \/ (s'.d.type = "blend" /\ s'.now.field = 0 /\ y > 0 /\ s'.last.rows = s'.now.rows /\ s'.last.ws[y - 1] < s'.now.ws[y])
    <3> HIDE DEF line
    <3> QED BY <2>4 DEF Rightly
  <2>6. /\ n = Screen!Own(y, s'.now.field) =>
             line.w = s'.now.ws[y] /\ \A k \in 1 .. line.w : <<0, y>> \in line.pix[k]
        /\ (s'.d.type = "weave" /\ s'.last.rows = s'.now.rows) => \A k \in 1 .. line.w : \E x \in line.pix[k] : line.pix[k] = {x}
        /\ (s'.d.type = "weave" /\ s'.last.rows = s'.now.rows /\ n = Screen!Other(y, s'.now.field)) => line.w = s'.last.ws[y]
    BY <2>2 DEF LineSound, Weaves
  <2> HIDE DEF line
  <2> QED BY <2>5, <2>6 DEF line
<1>10. FieldKept' BY <1>2, <1>6, <1>8 DEF FieldKept
<1> QED BY <1>1, <1>6, <1>8, <1>9, <1>10 DEF ScreenGood

LEMMA ScreenStarts == ASSUME Screen!Init PROVE ScreenGood
<1>1. PICK type \in ScreenTypes, rows \in ScreenRows : s = Screen!LoadCommonPost(type, rows) BY DEF Screen!Init
<1>2. NoFieldYet(s) BY <1>1, GameLoads
<1>3. Screen!PictureSound BY <1>2 DEF Screen!PictureSound, NoFieldYet
<1> QED BY <1>2, <1>3 DEF ScreenGood, NoFieldYet

LEMMA ScreenNext ==
  ASSUME ScreenGood, Screen!Next
  PROVE  ScreenGood'
<1>1. CASE Screen!Progressive BY <1>1, Progresses
<1>2. ASSUME NEW type \in ScreenTypes, NEW rows \in ScreenRows, s' = Screen!LoadCommonPost(type, rows)
      PROVE  ScreenGood'
  <2>1. NoFieldYet(s') BY <1>2, GameLoads
  <2>2. Screen!PictureSound' BY <2>1 DEF Screen!PictureSound, NoFieldYet
  <2> QED BY <2>1, <2>2 DEF ScreenGood, NoFieldYet
<1>3. ASSUME NEW field \in 0 .. 1, NEW ws \in [0 .. s.rows - 1 -> ScreenWidths], Screen!Interlaced(s.rows, field, ws)
      PROVE  ScreenGood'
  BY <1>3, FieldShown
<1> QED BY <1>1, <1>2, <1>3 DEF Screen!Next

----------------------------------------------------------------------------
(* The parts together.                                                     *)

\* Each part keeps to its own invariant.
ThreadsInv == part = "threads" => SyncGood(s)
AheadInv == part = "ahead" => AheadGood(s)
CoreInv == part = "core" => CoreStays(s)
BusInv == part = "bus" => BusGood(s)
PadsInv == part = "pads" => PadsHold(s)
MirrorInv == part = "mirror" => MirrorGood
ScreenInv == part = "screen" => ScreenGood
PartsInv == ThreadsInv /\ AheadInv /\ CoreInv /\ BusInv /\ PadsInv /\ MirrorInv /\ ScreenInv

LEMMA PartsStart ==
  ASSUME Init PROVE PartsInv
<1>1. ThreadsInv
  BY SyncStarts DEF Init, ThreadsInv
<1>2. AheadInv
  BY FrameAssumption, AheadStarts DEF Init, AheadInv
<1>3. CoreInv
  BY CoreStarts DEF Init, CoreInv
<1>4. BusInv
  BY BusAssumption, BusStarts DEF Init, BusInv
<1>5. PadsInv
  BY PadAssumption, PadsStarts DEF Init, PadsInv
<1>6. MirrorInv
  BY MirrorStarts DEF Init, MirrorInv
<1>7. ScreenInv
  BY ScreenStarts DEF Init, ScreenInv
<1> QED
  BY <1>1, <1>2, <1>3, <1>4, <1>5, <1>6, <1>7 DEF PartsInv

LEMMA PartsStep ==
  ASSUME PartsInv, [Next]_vars
  PROVE  PartsInv'
<1>1. CASE Next
  <2>1. /\ part' = part
        /\ part = "threads" => Sync!Next
        /\ part = "ahead" => Ahead!Next
        /\ part = "core" => Core!Next
        /\ part = "bus" => Board!Next
        /\ part = "pads" => Pads!Next
        /\ part = "mirror" => Mirror!Next
        /\ part = "screen" => Screen!Next
    BY <1>1 DEF Next, One
  <2>2. ThreadsInv'
    BY <2>1, SyncNext DEF PartsInv, ThreadsInv
  <2>3. AheadInv'
    BY <2>1, FrameAssumption, AheadNext DEF PartsInv, AheadInv
  <2>4. CoreInv'
    BY <2>1, CoreAssumption, CoreNext DEF PartsInv, CoreInv
  <2>5. BusInv'
    BY <2>1, BusAssumption, BusNext DEF PartsInv, BusInv
  <2>6. PadsInv'
    BY <2>1, PadAssumption, PadsNext DEF PartsInv, PadsInv
  <2>7. MirrorInv'
    BY <2>1, RegAssumption, MirrorNext DEF PartsInv, MirrorInv
  <2>8. ScreenInv'
    BY <2>1, ScreenNext DEF PartsInv, ScreenInv
  <2> QED
    BY <2>2, <2>3, <2>4, <2>5, <2>6, <2>7, <2>8 DEF PartsInv
<1>2. CASE UNCHANGED vars
  <2>1. part' = part /\ s' = s
    BY <1>2 DEF vars
  <2>2. ThreadsInv' /\ AheadInv' /\ CoreInv' /\ BusInv' /\ PadsInv'
    BY <2>1 DEF PartsInv, ThreadsInv, AheadInv, CoreInv, BusInv, PadsInv
  <2>3. MirrorInv'
    BY <1>2 DEF vars, PartsInv, MirrorInv, MirrorGood
  <2>4. ScreenInv'
    BY <2>1 DEF PartsInv, ScreenInv, ScreenGood, FieldKept, Screen!PictureSound, Screen!Usable, Screen!Ragged
  <2> QED
    BY <2>2, <2>3, <2>4 DEF PartsInv
<1> QED
  BY <1>1, <1>2

\* Threads and semaphores (MThreading): no post is lost and none counts twice, with
\* any number of waiters and posters and whatever times out, and a thread is joined
\* once.
THEOREM ThreadsStayAgreed == Spec => []ThreadsAgree
<1>1. ASSUME PartsInv PROVE ThreadsAgree
  BY <1>1, SyncSound DEF PartsInv, ThreadsInv, ThreadsAgree
<1> QED
  BY <1>1, PartsStart, PartsStep, PTL DEF Spec

\* The bus and the ports (snes.cpp, input.cpp): an access reaches the handler that
\* was set last, through the cheats in force and no other, and what a game reads of
\* a pad is what it strobed, for any memory, handlers, pads and multitaps, and for
\* states that are loaded up to any section; where such a load leaves the ports and
\* the pads apart on the strobe, from the next strobe of all on.
THEOREM AccessesAlwaysReach == Spec => []AccessesReach
<1>1. ASSUME PartsInv PROVE AccessesReach
  BY <1>1, BusAssumption, PadAssumption, BusSoundly, PadsSound DEF PartsInv, BusInv, PadsInv, AccessesReach
<1> QED
  BY <1>1, PartsStart, PartsStep, PTL DEF Spec

\* The front end and run-ahead (libretro.cpp, mednafen.cpp): run-ahead leaves no
\* trace in the machine and drops or repeats no sound; between calls the pads, the
\* affinity and the cheats are those the last calls asked for. For frames of any
\* sound, any settings of the multitaps, affinities and codes.
THEOREM CallsStayKept == Spec => []CallsKept
<1>1. ASSUME PartsInv PROVE CallsKept
  BY <1>1, CoreAssumption, AheadSound, CoreSound DEF PartsInv, AheadInv, CoreInv, CallsKept
<1> QED
  BY <1>1, PartsStart, PartsStep, PTL DEF Spec

\* The picture (ppu_common.inc, ppu_mtrender.cpp, Deinterlacer.cpp): the renderer
\* draws a line from what the game had written when it came up, and what it draws
\* from is what the game reads back whenever nothing is under way; a picture made
\* of two fields shows this field and the last one only, at most a line off its
\* place, but above the first row and behind the end of a blended row.
\* For registers of any values, any number of accesses under way, and fields of
\* any heights and widths.
THEOREM PicturesStayAgreed == Spec => []PictureAgrees
<1>1. ASSUME PartsInv PROVE PictureAgrees
  BY <1>1, MirrorSound DEF PartsInv, MirrorInv, ScreenInv, ScreenGood, PictureAgrees
<1> QED
  BY <1>1, PartsStart, PartsStep, PTL DEF Spec
=============================================================================
