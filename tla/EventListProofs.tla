-------------------------- MODULE EventListProofs --------------------------
(***************************************************************************)
(* The event list keeps its shape and its order under every move, and what *)
(* the CPU and EventHandler rely on follows, for every choice of the times.*)
(*                                                                         *)
(* That every entry is on the list is stated as an induction principle:    *)
(* a set that holds SYNFIRST and is closed under next is the whole list.   *)
(* Everything about "the first entry" and "where the walk stops" is an     *)
(* instance of it, with the set of the entries that are not before, or not *)
(* after, some time.                                                       *)
(***************************************************************************)
EXTENDS EventList, TLAPS

Times ==
  /\ event_time \in [Nodes -> Nat]
  /\ event_time[SYNFIRST] = 0 /\ event_time[SYNLAST] = Far
Links ==
  /\ prev \in [Nodes -> Nodes \cup {NULL}] /\ next \in [Nodes -> Nodes \cup {NULL}]
  /\ Linked
List == Times /\ Links /\ Sorted /\ AllReached

\* The first entry of a sound list is the earliest.
LEMMA HeadIsEarliest ==
  ASSUME List
  PROVE  /\ next[SYNFIRST] \in Nodes \ {SYNFIRST}
         /\ \A n \in Nodes \ {SYNFIRST} : event_time[next[SYNFIRST]] <= event_time[n]
<1> DEFINE h == next[SYNFIRST]
           S == {SYNFIRST} \cup {n \in Nodes : event_time[h] <= event_time[n]}
<1>1. h \in Nodes
  BY DEF List, Links, Linked, Nodes, SYNFIRST, SYNLAST
<1>2. ASSUME NEW n \in S \ {SYNLAST} PROVE next[n] \in S
  <2>1. next[n] \in Nodes /\ n \in Nodes /\ event_time[n] <= event_time[next[n]]
    BY <1>2 DEF List, Links, Linked, Sorted, Nodes, SYNFIRST, SYNLAST
  <2>2. event_time[h] \in Nat /\ event_time[n] \in Nat /\ event_time[next[n]] \in Nat
    BY <1>1, <2>1 DEF List, Times
  <2>3. CASE n = SYNFIRST
    BY <2>1, <2>2, <2>3
  <2>4. CASE n # SYNFIRST
    BY <1>2, <2>1, <2>2, <2>4
  <2> QED BY <2>3, <2>4
<1>3. S = Nodes
  <2>1. S \in SUBSET Nodes /\ SYNFIRST \in S
    BY DEF Nodes, SYNFIRST, SYNLAST
  <2> QED BY <1>2, <2>1 DEF List, AllReached
<1>4. h \in Nodes \ {SYNFIRST}
  BY DEF List, Links, Linked, Nodes, SYNFIRST, SYNLAST
<1>5. \A n \in Nodes \ {SYNFIRST} : event_time[h] <= event_time[n]
  BY ONLY <1>3
<1> QED BY <1>4, <1>5

\* Going back, the walk finds an entry to stop at.
LEMMA WalkBack ==
  ASSUME List, NEW t \in Nat, t < Far
  PROVE  LET f == LastNotAfter(t) IN
           f \in Nodes \ {SYNLAST} /\ event_time[f] <= t /\ t < event_time[next[f]]
<1> DEFINE S == {n \in Nodes : event_time[n] <= t}
<1>1. \E f \in Nodes \ {SYNLAST} : event_time[f] <= t /\ t < event_time[next[f]]
  <2> SUFFICES ASSUME \A f \in Nodes \ {SYNLAST} : event_time[f] <= t => ~(t < event_time[next[f]])
               PROVE  FALSE
    OBVIOUS
  <2>1. ASSUME NEW n \in S \ {SYNLAST} PROVE next[n] \in S
    <3>1. n \in Nodes \ {SYNLAST} /\ next[n] \in Nodes
      BY <2>1 DEF List, Links, Linked
    <3>2. event_time[next[n]] \in Nat
      BY <3>1 DEF List, Times
    <3>3. ~(t < event_time[next[n]])
      BY <2>1, <3>1
    <3> QED BY <3>1, <3>2, <3>3
  <2>2. S \in SUBSET Nodes /\ SYNFIRST \in S
    BY DEF List, Times, Nodes, SYNFIRST, SYNLAST
  <2>3. S = Nodes
    BY <2>1, <2>2 DEF List, AllReached
  <2>4. SYNLAST \in S
    BY <2>3 DEF Nodes, SYNLAST, SYNFIRST
  <2>5. event_time[SYNLAST] <= t /\ event_time[SYNLAST] = Far /\ Far \in Nat
    BY <2>4, TimesAssumption DEF List, Times
  <2> QED BY <2>5
<1> QED BY <1>1 DEF LastNotAfter

\* Going forward it does too.
LEMMA WalkForward ==
  ASSUME List, NEW t \in Nat, 0 < t, t < Far
  PROVE  LET f == FirstNotBefore(t) IN
           f \in Nodes \ {SYNFIRST} /\ event_time[prev[f]] < t /\ t <= event_time[f]
<1> DEFINE S == {n \in Nodes : event_time[n] < t}
<1>1. \E f \in Nodes \ {SYNFIRST} : event_time[prev[f]] < t /\ t <= event_time[f]
  <2> SUFFICES ASSUME \A f \in Nodes \ {SYNFIRST} : event_time[prev[f]] < t => ~(t <= event_time[f])
               PROVE  FALSE
    OBVIOUS
  <2>1. ASSUME NEW n \in S \ {SYNLAST} PROVE next[n] \in S
    <3>1. n \in Nodes \ {SYNLAST} /\ next[n] \in Nodes \ {SYNFIRST} /\ prev[next[n]] = n
      BY <2>1 DEF List, Links, Linked
    <3>2. event_time[next[n]] \in Nat
      BY <3>1 DEF List, Times
    <3>3. ~(t <= event_time[next[n]])
      BY <2>1, <3>1
    <3> QED BY <3>1, <3>2, <3>3
  <2>2. S \in SUBSET Nodes /\ SYNFIRST \in S
    BY DEF List, Times, Nodes, SYNFIRST, SYNLAST
  <2>3. S = Nodes
    BY <2>1, <2>2 DEF List, AllReached
  <2>4. SYNLAST \in S
    BY <2>3 DEF Nodes, SYNLAST, SYNFIRST
  <2>5. event_time[SYNLAST] < t /\ event_time[SYNLAST] = Far /\ Far \in Nat
    BY <2>4, TimesAssumption DEF List, Times
  <2> QED BY <2>5
<1> QED BY <1>1 DEF FirstNotBefore

LEMMA Ends ==
  /\ SYNFIRST \in Nodes /\ SYNLAST \in Nodes /\ SYNFIRST # SYNLAST /\ NULL \notin Nodes
  /\ Events = Nodes \ {SYNFIRST, SYNLAST}
  /\ {PPU, PPU_LINEIRQ, DMA_DUMMY, MSU1} \subseteq Events
BY DEF SYNFIRST, SYNLAST, Nodes, NULL, Events, PPU, PPU_LINEIRQ, DMA_DUMMY, MSU1

\* An entry's neighbours are two other entries: a short cycle beside the list
\* would not be reached.
LEMMA Neighbours ==
  ASSUME Links, AllReached, NEW n \in Events
  PROVE  /\ prev[n] \in Nodes \ {SYNLAST, n} /\ next[n] \in Nodes \ {SYNFIRST, n}
         /\ next[prev[n]] = n /\ prev[next[n]] = n /\ prev[n] # next[n]
<1>1. n \in Nodes \ {SYNFIRST, SYNLAST}
  BY Ends
<1>2. /\ prev[n] \in Nodes \ {SYNLAST} /\ next[n] \in Nodes \ {SYNFIRST}
      /\ next[prev[n]] = n /\ prev[next[n]] = n
  BY <1>1 DEF Links, Linked
<1>3. \A m \in Nodes \ {SYNLAST} : next[m] \in Nodes /\ prev[next[m]] = m
  BY DEF Links, Linked
<1>4. prev[n] # n /\ next[n] # n
  <2> SUFFICES ASSUME prev[n] = n \/ next[n] = n PROVE FALSE
    OBVIOUS
  <2>1. prev[n] = n
    BY <1>2
  <2>2. \A m \in (Nodes \ {n}) \ {SYNLAST} : next[m] \in Nodes \ {n}
    BY <1>3, <2>1
  <2>3. Nodes \ {n} = Nodes
    BY <1>1, <2>2, Ends DEF AllReached
  <2> QED BY <1>1, <2>3
<1>5. prev[n] # next[n]
  <2> SUFFICES ASSUME prev[n] = next[n] PROVE FALSE
    OBVIOUS
  <2> DEFINE S == Nodes \ {n, next[n]}
  <2>1. \A m \in S \ {SYNLAST} : next[m] \in S
    BY <1>1, <1>2, <1>3
  <2>2. S \in SUBSET Nodes /\ SYNFIRST \in S
    BY <1>1, <1>2, Ends
  <2>3. S = Nodes
    BY <2>1, <2>2 DEF AllReached
  <2> QED BY <1>1, <2>3
<1> QED BY <1>2, <1>4, <1>5

\* Taking n out and putting it in between two neighbours of what is left.
LEMMA Spliced ==
  ASSUME Links, AllReached, NEW n \in Events, NEW a \in Nodes \ {n, SYNLAST}, NEW b,
         b = NextWithout(n)[a], Insert(n, a, b)
  PROVE  /\ b \in Nodes \ {n, SYNFIRST, a}
         /\ \A m \in Nodes : next'[m] = IF m = a THEN n
                                      ELSE IF m = n THEN b
                                      ELSE IF m = prev[n] THEN next[n] ELSE next[m]
         /\ \A m \in Nodes : prev'[m] = IF m = b THEN n
                                      ELSE IF m = n THEN a
                                      ELSE IF m = next[n] THEN prev[n] ELSE prev[m]
         /\ Links'
<1>1. /\ n \in Nodes \ {SYNFIRST, SYNLAST}
      /\ prev[n] \in Nodes \ {SYNLAST, n} /\ next[n] \in Nodes \ {SYNFIRST, n}
      /\ next[prev[n]] = n /\ prev[next[n]] = n /\ prev[n] # next[n]
  BY Ends, Neighbours
<1>2. b = IF a = prev[n] THEN next[n] ELSE next[a]
  BY <1>1 DEF NextWithout, Links
<1>3. b \in Nodes \ {n, SYNFIRST, a}
  <2>1. CASE a = prev[n]
    BY <1>1, <1>2, <2>1
  <2>2. CASE a # prev[n]
    <3>1. next[a] \in Nodes \ {SYNFIRST} /\ prev[next[a]] = a
      BY <2>2 DEF Links, Linked
    <3>2. next[a] # a
      <4>1. CASE a = SYNFIRST
        BY <3>1, <4>1
      <4>2. CASE a # SYNFIRST
        BY <4>2, Ends, Neighbours
      <4> QED BY <4>1, <4>2
    <3> QED BY <1>1, <1>2, <2>2, <3>1, <3>2
  <2> QED BY <2>1, <2>2
<1>4. \A m \in Nodes : next'[m] = IF m = a THEN n
                                ELSE IF m = n THEN b
                                ELSE IF m = prev[n] THEN next[n] ELSE next[m]
  BY <1>1, <1>3 DEF Insert, NextWithout, Links
<1>5. \A m \in Nodes : prev'[m] = IF m = b THEN n
                                ELSE IF m = n THEN a
                                ELSE IF m = next[n] THEN prev[n] ELSE prev[m]
  BY <1>1, <1>3 DEF Insert, PrevWithout, Links
<1>6. /\ prev' \in [Nodes -> Nodes \cup {NULL}] /\ next' \in [Nodes -> Nodes \cup {NULL}]
  BY <1>1, <1>3 DEF Insert, PrevWithout, NextWithout, Links
<1>7. \A m \in Nodes \ {SYNLAST} : next'[m] \in Nodes \ {SYNFIRST} /\ prev'[next'[m]] = m
  <2> TAKE m \in Nodes \ {SYNLAST}
  <2>1. next[m] \in Nodes \ {SYNFIRST} /\ prev[next[m]] = m
    BY DEF Links, Linked
  <2>2. CASE m = a
    BY <1>1, <1>3, <1>4, <1>5, <2>2
  <2>3. CASE m = n
    BY <1>1, <1>3, <1>4, <1>5, <2>3
  <2>4. CASE m = prev[n] /\ m # a
    <3>1. b = next[a] /\ prev[next[a]] = a
      BY <1>2, <2>4 DEF Links, Linked
    <3>2. next[n] # b /\ next'[m] = next[n] /\ prev'[next[n]] = prev[n]
      BY <1>1, <1>4, <1>5, <2>4, <3>1
    <3> QED BY <1>1, <2>4, <3>2
  <2>5. CASE m \notin {a, n, prev[n]}
    <3>1. prev[b] = IF a = prev[n] THEN n ELSE a
      BY <1>1, <1>2 DEF Links, Linked
    <3>2. next'[m] = next[m] /\ next[m] \notin {b, n, next[n]}
      BY <1>1, <1>4, <2>1, <2>5, <3>1
    <3> QED BY <1>5, <2>1, <2>5, <3>2
  <2> QED BY <2>2, <2>3, <2>4, <2>5
<1>8. \A m \in Nodes \ {SYNFIRST} : prev'[m] \in Nodes \ {SYNLAST} /\ next'[prev'[m]] = m
  <2> TAKE m \in Nodes \ {SYNFIRST}
  <2>1. prev[m] \in Nodes \ {SYNLAST} /\ next[prev[m]] = m
    BY DEF Links, Linked
  <2>2. CASE m = b
    BY <1>1, <1>3, <1>4, <1>5, <2>2
  <2>3. CASE m = n
    BY <1>1, <1>3, <1>4, <1>5, <2>3
  <2>4. CASE m = next[n] /\ m # b
    BY <1>1, <1>2, <1>3, <1>4, <1>5, <2>4
  <2>5. CASE m \notin {b, n, next[n]}
    BY <1>1, <1>2, <1>3, <1>4, <1>5, <2>1, <2>5
  <2> QED BY <2>2, <2>3, <2>4, <2>5
<1>9. Links'
  BY <1>6, <1>7, <1>8 DEF Links, Linked
<1> QED BY <1>3, <1>4, <1>5, <1>9

\* ... leaves every entry reachable.
LEMMA StillReached ==
  ASSUME Links, AllReached, NEW n \in Events, NEW a \in Nodes \ {n, SYNLAST}, NEW b,
         b = NextWithout(n)[a], Insert(n, a, b)
  PROVE  AllReached'
<1> SUFFICES ASSUME NEW S \in SUBSET Nodes, SYNFIRST \in S,
                    \A m \in S \ {SYNLAST} : next'[m] \in S
             PROVE  S = Nodes
  BY DEF AllReached, Nodes
<1>1. /\ n \in Nodes \ {SYNFIRST, SYNLAST}
      /\ prev[n] \in Nodes \ {SYNLAST, n} /\ next[n] \in Nodes \ {SYNFIRST, n}
      /\ next[prev[n]] = n /\ prev[next[n]] = n
  BY Ends, Neighbours
<1>2. b = IF a = prev[n] THEN next[n] ELSE next[a]
  BY <1>1 DEF NextWithout, Links
<1>3. \A m \in Nodes : next'[m] = IF m = a THEN n
                                ELSE IF m = n THEN b
                                ELSE IF m = prev[n] THEN next[n] ELSE next[m]
  BY Spliced
<1>4. \A m \in Nodes \ {SYNLAST} : next[m] = n => m = prev[n]
  BY DEF Links, Linked
<1>5. CASE n \in S /\ prev[n] \in S
  <2>1. \A m \in S \ {SYNLAST} : next[m] \in S
    <3> TAKE m \in S \ {SYNLAST}
    <3>1. m \in Nodes
      OBVIOUS
    <3>2. CASE m = prev[n]
      BY <1>1, <1>5, <3>2
    <3>3. CASE m = a /\ m # prev[n]
      <4>1. next'[n] \in S /\ next'[n] = b
        BY <1>1, <1>3, <1>5
      <4> QED BY <1>2, <3>3, <4>1
    <3>4. CASE m = n
      <4>1. next'[prev[n]] \in S
        BY <1>1, <1>5
      <4>2. CASE a = prev[n]
        <5>1. next'[n] \in S /\ next'[n] = b
          BY <1>1, <1>3, <1>5
        <5> QED BY <1>2, <3>4, <4>2, <5>1
      <4>3. CASE a # prev[n]
        <5>1. next'[prev[n]] = next[n]
          BY <1>1, <1>3, <4>3
        <5> QED BY <3>4, <4>1, <5>1
      <4> QED BY <4>2, <4>3
    <3>5. CASE m \notin {prev[n], a, n}
      BY <1>3, <3>1, <3>5
    <3> QED BY <3>2, <3>3, <3>4, <3>5
  <2> QED BY <2>1 DEF AllReached
<1>6. CASE n \in S /\ prev[n] \notin S
  <2> DEFINE T == S \ {n}
  <2>1. \A m \in T \ {SYNLAST} : next[m] \in T
    <3> TAKE m \in T \ {SYNLAST}
    <3>1. m \in Nodes /\ m \in S /\ m # n /\ m # prev[n]
      BY <1>6
    <3>2. next[m] # n
      BY <1>4, <3>1
    <3>3. CASE m = a
      <4>1. next'[n] \in S /\ next'[n] = b
        BY <1>1, <1>3, <1>6
      <4> QED BY <1>2, <3>1, <3>2, <3>3, <4>1
    <3>4. CASE m # a
      BY <1>3, <3>1, <3>2, <3>4
    <3> QED BY <3>3, <3>4
  <2>2. T \in SUBSET Nodes /\ SYNFIRST \in T
    BY <1>1
  <2>3. T = Nodes
    BY <2>1, <2>2 DEF AllReached
  <2> QED BY <1>1, <2>3
<1>7. CASE n \notin S
  <2>1. a \notin S
    BY <1>3, <1>7
  <2>2. \A m \in S \ {SYNLAST} : next[m] \in S
    <3> TAKE m \in S \ {SYNLAST}
    <3>1. m \in Nodes /\ m # n /\ m # a
      BY <1>7, <2>1
    <3>2. CASE m = prev[n]
      <4>1. next'[m] = next[n] /\ next'[m] \in S
        BY <1>3, <3>1, <3>2
      <4> DEFINE T == S \cup {n}
      <4>2. \A k \in T \ {SYNLAST} : next[k] \in T
        <5> TAKE k \in T \ {SYNLAST}
        <5>1. CASE k = n
          BY <4>1, <5>1
        <5>2. CASE k = prev[n]
          BY <1>1, <5>2
        <5>3. CASE k \notin {n, prev[n]}
          <6>1. k \in S /\ k \in Nodes /\ k # a
            BY <2>1, <5>3
          <6> QED BY <1>3, <5>3, <6>1
        <5> QED BY <5>1, <5>2, <5>3
      <4>3. T \in SUBSET Nodes /\ SYNFIRST \in T
        BY <1>1
      <4>4. T = Nodes
        BY <4>2, <4>3 DEF AllReached
      <4> QED BY <2>1, <4>4
    <3>3. CASE m # prev[n]
      BY <1>3, <3>1, <3>3
    <3> QED BY <3>2, <3>3
  <2> QED BY <2>2 DEF AllReached
<1> QED BY <1>5, <1>6, <1>7

\* SNES_SetEventNT keeps the list sound and changes the one time.
LEMMA MoveSound ==
  ASSUME List, NEW n \in Events, NEW t \in Nat, t < Far, Move(n, t)
  PROVE  List' /\ event_time' = [event_time EXCEPT ![n] = t]
<1>1. event_time' = [event_time EXCEPT ![n] = t]
  BY DEF Move
<1>2. n \in Nodes \ {SYNFIRST, SYNLAST}
  BY Ends
<1>3. /\ event_time \in [Nodes -> Nat] /\ event_time' \in [Nodes -> Nat]
      /\ \A m \in Nodes : event_time'[m] = IF m = n THEN t ELSE event_time[m]
  BY <1>1, <1>2 DEF List, Times
<1>4. Times'
  BY <1>2, <1>3, Ends DEF List, Times
<1>5. \A m \in Nodes \ {SYNLAST} : next[m] \in Nodes \ {SYNFIRST} /\ prev[next[m]] = m
  BY DEF List, Links, Linked
<1>6. \A m \in Nodes \ {SYNFIRST} : prev[m] \in Nodes \ {SYNLAST} /\ next[prev[m]] = m
  BY DEF List, Links, Linked
<1>7. /\ prev[n] \in Nodes \ {SYNLAST, n} /\ next[n] \in Nodes \ {SYNFIRST, n}
      /\ next[prev[n]] = n /\ prev[next[n]] = n /\ prev[n] # next[n]
  BY Neighbours DEF List
<1>8. \A m \in Nodes \ {SYNLAST} : event_time[m] <= event_time[next[m]]
  BY DEF List, Sorted
\* Both directions put n between a and b with a's time <= t <= b's.
<1>9. ASSUME NEW a \in Nodes \ {n, SYNLAST}, NEW b, b = NextWithout(n)[a],
             Insert(n, a, b), event_time[a] <= t, b # n => t <= event_time[b]
      PROVE  List'
  <2>1. /\ b \in Nodes \ {n, SYNFIRST, a}
        /\ \A m \in Nodes : next'[m] = IF m = a THEN n
                                     ELSE IF m = n THEN b
                                     ELSE IF m = prev[n] THEN next[n] ELSE next[m]
        /\ Links'
    BY <1>9, Spliced DEF List
  <2>2. AllReached'
    BY <1>9, StillReached DEF List
  <2>3. ASSUME NEW m \in Nodes \ {SYNLAST} PROVE event_time'[m] <= event_time'[next'[m]]
    <3>1. CASE m = a
      BY <1>2, <1>3, <1>9, <2>1, <3>1
    <3>2. CASE m = n
      BY <1>2, <1>3, <1>9, <2>1, <3>2
    <3>3. CASE m = prev[n] /\ m # a
      <4>1. next'[m] = next[n]
        BY <1>7, <2>1, <3>3
      <4>2. event_time[m] <= event_time[n] /\ event_time[n] <= event_time[next[n]]
        BY <1>2, <1>7, <1>8, <3>3
      <4>3. {event_time[m], event_time[n], event_time[next[n]]} \subseteq Nat
        BY <1>2, <1>3, <1>7
      <4>4. event_time'[m] = event_time[m] /\ event_time'[next[n]] = event_time[next[n]]
        BY <1>3, <1>7, <3>3
      <4> QED BY <4>1, <4>2, <4>3, <4>4
    <3>4. CASE m \notin {a, n, prev[n]}
      <4>1. next'[m] = next[m] /\ next[m] # n
        BY <1>5, <2>1, <3>4
      <4> QED BY <1>3, <1>5, <1>8, <3>4, <4>1
    <3> QED BY <3>1, <3>2, <3>3, <3>4
  <2> QED BY <1>4, <2>1, <2>2, <2>3 DEF List, Sorted
<1>10. CASE t < event_time[n]
  <2> DEFINE a == LastNotAfter(t)
             b == NextWithout(n)[a]
  <2>1. a \in Nodes \ {SYNLAST} /\ event_time[a] <= t /\ t < event_time[next[a]]
    BY WalkBack
  <2>2. Insert(n, a, b)
    BY <1>3, <1>2, <1>10 DEF Move
  <2>3. a # n
    BY <1>3, <1>2, <1>10, <2>1
  <2>4. b = IF a = prev[n] THEN next[n] ELSE next[a]
    BY <1>7, <2>1 DEF NextWithout, List, Links
  <2>5. t <= event_time[b]
    <3>1. CASE a = prev[n]
      BY <1>2, <1>3, <1>7, <1>8, <1>10, <2>4, <3>1
    <3>2. CASE a # prev[n]
      BY <1>3, <1>5, <2>1, <2>4, <3>2
    <3> QED BY <3>1, <3>2
  <2> HIDE DEF a, b
  <2>6. b = NextWithout(n)[a]
    BY DEF b
  <2> QED BY <1>1, <1>9, <2>1, <2>2, <2>3, <2>5, <2>6
<1>11. CASE t > event_time[n]
  <2> DEFINE b == FirstNotBefore(t)
             a == PrevWithout(n)[b]
  <2>1. b \in Nodes \ {SYNFIRST} /\ event_time[prev[b]] < t /\ t <= event_time[b]
    <3>1. 0 < t
      BY <1>2, <1>3, <1>11
    <3> QED BY <3>1, WalkForward
  <2>2. Insert(n, a, b)
    BY <1>3, <1>2, <1>11 DEF Move
  <2>3. b # n
    BY <1>3, <1>2, <1>11, <2>1
  <2>4. a = IF b = next[n] THEN prev[n] ELSE prev[b]
    BY <1>7, <2>1 DEF PrevWithout, List, Links
  <2>5. a \in Nodes \ {n, SYNLAST} /\ event_time[a] <= t
    <3>1. CASE b = next[n]
      <4>1. a = prev[n] /\ event_time[prev[n]] <= event_time[n]
        BY <1>7, <1>8, <2>4, <3>1
      <4> QED BY <1>2, <1>3, <1>7, <1>11, <4>1
    <3>2. CASE b # next[n]
      <4>1. a = prev[b] /\ a # n
        BY <1>6, <2>1, <2>4, <3>2
      <4> QED BY <1>3, <1>6, <2>1, <4>1
    <3> QED BY <3>1, <3>2
  <2>6. NextWithout(n)[a] = b
    <3>1. CASE b = next[n]
      BY <1>7, <2>4, <3>1 DEF NextWithout, List, Links
    <3>2. CASE b # next[n]
      <4>1. a = prev[b] /\ next[a] = b /\ a # prev[n]
        BY <1>6, <1>7, <2>1, <2>3, <2>4, <3>2
      <4> QED BY <2>5, <4>1 DEF NextWithout, List, Links
    <3> QED BY <3>1, <3>2
  <2> HIDE DEF a, b
  <2> QED BY <1>1, <1>9, <2>1, <2>2, <2>5, <2>6
<1>12. CASE t = event_time[n]
  <2>1. UNCHANGED <<prev, next>>
    BY <1>2, <1>3, <1>12 DEF Move
  <2>2. event_time' = event_time
    BY <1>1, <1>3, <1>12
  <2>3. List'
    BY <2>1, <2>2 DEF List, Times, Links, Linked, Sorted, AllReached
  <2> QED BY <1>1, <2>3
<1>13. t < event_time[n] \/ t > event_time[n] \/ t = event_time[n]
  BY <1>2, <1>3
<1> QED BY <1>1, <1>10, <1>11, <1>12, <1>13

----------------------------------------------------------------------------
(* The inductive invariant: what the loops have cached fits the list.      *)

TypeInv == TypeOK /\ Times

InDispatch == {"dispatch", "handler", "return"}
InLoops == {"outer", "inner", "instr"} \cup InDispatch

\* next_event_ts is the first entry's time, or 0 once the frame is over.
Cached ==
  /\ pc \in InLoops => next_event_ts = Mask(event_time[next[SYNFIRST]], running_mask)
  /\ pc = "stopped" => next_event_ts = event_time[next[SYNFIRST]]

\* Where EventHandler and ForceEventUpdates are, and that e's prev has always
\* been SYNFIRST.
Places ==
  /\ pc \in InDispatch => ret \in {"outer", "instr"}
  /\ pc = "force" => ret \in {"rebase", "stopped"} /\ e \in Events \cup {SYNLAST}
  /\ pc \in {"dispatch", "handler"} => e = next[SYNFIRST]
  /\ pc \in {"handler", "return"} =>
       e \in Events /\ eprev = SYNFIRST /\ event_time[e] <= timestamp

IInv == TypeInv /\ List /\ Cached /\ Places /\ NoneOverdue

LEMMA Numbers ==
  /\ MaxTS \in Nat /\ Far \in Nat /\ MaxStep \in Nat /\ FrameTime \in Nat
  /\ Horizon \in Nat /\ Horizon + MaxStep < MaxTS /\ MaxTS < Far
BY TimesAssumption DEF Horizon

\* What handlers and register writes ask for is a time of the list's range.
LEMMA AnswersInRange ==
  ASSUME NEW n \in Events, NEW t \in 0 .. Horizon, NEW nt \in Answers(n, t)
  PROVE  nt \in Nat /\ t < nt /\ nt <= MaxTS /\ nt < Far
<1>1. nt \in (t + 1 .. t + MaxStep) \cup {MaxTS} \cup {t + MaxStep}
  BY Zenon DEF Answers
<1>2. MaxStep > 0
  BY TimesAssumption
<1> QED BY <1>1, <1>2, Numbers

LEMMA RequestsInRange ==
  ASSUME NEW n \in Events, timestamp \in 0 .. Horizon, NEW t \in Requests(n)
  PROVE  t \in Nat /\ t < Far
<1>1. t \in (timestamp + 1 .. timestamp + MaxStep) \cup {MaxTS, timestamp, timestamp + MaxStep}
  BY Zenon DEF Requests
<1> QED BY <1>1, Numbers

IsInitialList == event_time = InitialTime /\ prev = InitialPrev /\ next = InitialNext

LEMMA InitialList == IsInitialList => List
<1> SUFFICES ASSUME IsInitialList PROVE List
  OBVIOUS
<1> USE DEF IsInitialList
<1>1. Times
  BY Numbers DEF Times, InitialTime, Nodes, SYNFIRST, SYNLAST
<1>2. prev \in [Nodes -> Nodes \cup {NULL}] /\ next \in [Nodes -> Nodes \cup {NULL}]
  BY DEF InitialPrev, InitialNext, Nodes, SYNFIRST, SYNLAST, NULL
<1>3. Linked
  BY DEF Linked, InitialPrev, InitialNext, Nodes, SYNFIRST, SYNLAST, NULL
<1>4. Sorted
  BY Numbers DEF Sorted, InitialTime, InitialNext, Nodes, SYNFIRST, SYNLAST
<1>5. AllReached
  <2> SUFFICES ASSUME NEW S \in SUBSET Nodes, SYNFIRST \in S,
                      \A n \in S \ {SYNLAST} : next[n] \in S
               PROVE  S = Nodes
    BY DEF AllReached
  <2>1. \A n \in 0 .. 5 : next[n] = n + 1
    BY DEF InitialNext, Nodes, SYNFIRST, SYNLAST
  <2>2. 0 \in S /\ \A n \in 0 .. 5 : n \in S => n + 1 \in S
    BY <2>1 DEF SYNFIRST, SYNLAST
  <2>3. {0, 1, 2, 3, 4, 5, 6} \subseteq S
    <3>1. 0 \in S /\ 0 + 1 \in S /\ 1 + 1 \in S
      BY ONLY <2>2
    <3>2. 2 + 1 \in S /\ 3 + 1 \in S /\ 4 + 1 \in S /\ 5 + 1 \in S
      BY ONLY <2>2
    <3> QED BY <3>1, <3>2
  <2>4. \A n \in Nodes : n \in {0, 1, 2, 3, 4, 5, 6}
    BY DEF Nodes, SYNFIRST, SYNLAST
  <2>5. \A n \in Nodes : n \in S
    BY <2>3, <2>4, Zenon
  <2> QED BY <2>5, Zenon
<1> QED BY <1>1, <1>2, <1>3, <1>4, <1>5 DEF List, Links

LEMMA InitInv == Init => IInv
<1> SUFFICES ASSUME Init PROVE IInv
  OBVIOUS
<1>1. List
  BY InitialList DEF Init, IsInitialList
<1>2. TypeInv
  <2>1. Times /\ event_time \in [Nodes -> Nat]
        /\ prev \in [Nodes -> Nodes \cup {NULL}] /\ next \in [Nodes -> Nodes \cup {NULL}]
    BY <1>1 DEF List, Times, Links
  <2>2. timestamp \in 0 .. Horizon
    BY Numbers DEF Init
  <2>3. e \in Nodes /\ eprev \in Nodes
    BY DEF Init, Nodes, SYNFIRST, SYNLAST
  <2> QED BY <2>1, <2>2, <2>3 DEF Init, TypeInv, TypeOK
<1>3. Cached /\ Places
  BY DEF Init, Cached, Places, InLoops, InDispatch, Events, SYNFIRST, SYNLAST
<1>4. NoneOverdue
  BY Numbers, Ends DEF Init, NoneOverdue, InitialTime
<1> QED BY <1>1, <1>2, <1>3, <1>4 DEF IInv

\* What SetEventNT does to the parts that are about the list.
LEMMA SetKeeps ==
  ASSUME List, NEW n \in Events, NEW t \in Nat, t < Far, SetEventNT(n, t)
  PROVE  /\ List'
         /\ \A m \in Nodes : event_time'[m] = IF m = n THEN t ELSE event_time[m]
         /\ next_event_ts' = Mask(event_time'[next'[SYNFIRST]], running_mask')
         /\ running_mask' \in BOOLEAN => next_event_ts' \in Nat
<1>1. List' /\ event_time' = [event_time EXCEPT ![n] = t]
  BY MoveSound DEF SetEventNT
<1>2. \A m \in Nodes : event_time'[m] = IF m = n THEN t ELSE event_time[m]
  BY <1>1, Ends DEF List, Times
<1>3. next_event_ts' = Mask(event_time'[next'[SYNFIRST]], running_mask')
  BY DEF SetEventNT
<1>4. event_time'[next'[SYNFIRST]] \in Nat
  BY <1>1, Ends DEF List, Times, Links, Linked
<1> QED BY <1>1, <1>2, <1>3, <1>4 DEF Mask

\* A step that leaves the list alone keeps what is said about it.
LEMMA ListKept ==
  ASSUME List, UNCHANGED list
  PROVE  List'
BY DEF List, Times, Links, Linked, Sorted, AllReached, list

----------------------------------------------------------------------------
(* The step, one lemma for each kind of action.                            *)

\* Steps of the CPU's loops that move no entry.
LEMMA LoopStep ==
  ASSUME IInv, RunFrame \/ Enter \/ Instruction \/ Cycles \/ EndInstruction
               \/ LoopEnd \/ Kludge \/ EndFrame \/ LoadState
  PROVE  IInv'
<1>1. List' /\ UNCHANGED list
  BY ListKept DEF IInv, RunFrame, Enter, Instruction, Cycles, EndInstruction, LoopEnd,
     Kludge, CallEventHandler, EndFrame, LoadState
<1>2. TypeInv'
  <2>1. timestamp' \in 0 .. Horizon
    BY Numbers DEF IInv, TypeInv, TypeOK, RunFrame, Enter, Instruction, Cycles, BusAccess,
       EndInstruction, LoopEnd, Kludge, CallEventHandler, EndFrame, LoadState, cpum
  <2>2. next[SYNFIRST] \in Nodes
    BY Ends DEF IInv, List, Links, Linked
  <2>3. e' \in Nodes /\ eprev' \in Nodes
    BY <2>2, Ends DEF IInv, TypeInv, TypeOK, RunFrame, Enter, Instruction, Cycles,
       EndInstruction, LoopEnd, Kludge, CallEventHandler, EndFrame, LoadState,
       Nodes, SYNFIRST, SYNLAST
  <2>4. /\ next_event_ts' \in Nat /\ running_mask' \in BOOLEAN
        /\ pc' \in {"outer", "inner", "instr", "dispatch", "force"}
        /\ ret' \in {"none", "outer", "instr", "rebase", "stopped"}
    BY DEF IInv, TypeInv, TypeOK, RunFrame, Enter, Instruction, Cycles,
       EndInstruction, LoopEnd, Kludge, CallEventHandler, EndFrame, LoadState, cpum
  <2>5. Times'
    BY <1>1 DEF List
  <2> QED BY <1>1, <2>1, <2>3, <2>4, <2>5 DEF TypeInv, TypeOK, List, Links, Times
<1>3. Cached' /\ Places'
  BY <1>1 DEF IInv, Cached, Places, Mask, InLoops, InDispatch, RunFrame, Enter, Instruction,
     Cycles, EndInstruction, LoopEnd, Kludge, CallEventHandler, EndFrame, LoadState, list, cpum,
     Events, SYNFIRST, SYNLAST
<1>4. NoneOverdue'
  BY <1>1 DEF IInv, NoneOverdue, RunFrame, Enter, Instruction,
     Cycles, EndInstruction, LoopEnd, Kludge, CallEventHandler, EndFrame, LoadState, list, cpum
<1> QED BY <1>1, <1>2, <1>3, <1>4 DEF IInv

\* EventHandler's test.
LEMMA DispatchStep ==
  ASSUME IInv, Due \/ NotDue \/ OtherHandler
  PROVE  IInv'
<1>1. List' /\ UNCHANGED list /\ UNCHANGED cpum
  BY ListKept DEF IInv, Due, NotDue, OtherHandler
<1>2. TypeInv' 
  <2>1. e \in Nodes /\ (Due => e # SYNFIRST)
    BY Ends DEF IInv, TypeInv, TypeOK, Places, Due, List, Links, Linked
  <2>2. Due => prev[e] \in Nodes
    BY <2>1 DEF IInv, List, Links, Linked
  <2>3. e' \in Nodes /\ eprev' \in Nodes
    BY <2>1, <2>2, Ends DEF IInv, TypeInv, TypeOK, Due, NotDue, OtherHandler, LoopOver
  <2>4. /\ pc' \in {"handler", "outer", "instr", "return"}
        /\ ret' \in {"none", "outer", "instr", "rebase", "stopped"}
    BY DEF IInv, TypeInv, TypeOK, Places, InDispatch, Due, NotDue, OtherHandler, LoopOver
  <2> QED BY <1>1, <2>3, <2>4 DEF IInv, TypeInv, TypeOK, Times, list, cpum
<1>3. Cached'
  BY <1>1 DEF IInv, Cached, Places, Mask, InLoops, InDispatch, Due, NotDue, OtherHandler, list, cpum
<1>4. Places'
  <2>1. CASE Due
    <3>1. e = next[SYNFIRST] /\ prev[e] = SYNFIRST
      BY <2>1, Ends DEF IInv, Places, Due, List, Links, Linked
    <3>2. e # SYNLAST /\ e # SYNFIRST /\ event_time[e] <= timestamp
      <4>1. event_time[e] <= timestamp
        BY <2>1, Ends DEF Due, IInv, TypeInv, TypeOK
      <4>2. timestamp <= Horizon
        BY DEF IInv, TypeInv, TypeOK
      <4>3. event_time[SYNLAST] = Far
        BY DEF IInv, List, Times
      <4>4. e # SYNFIRST
        BY <3>1, Ends DEF IInv, List, Links, Linked
      <4>5. timestamp \in Int /\ ~(Far <= timestamp)
        BY <4>2, Numbers DEF IInv, TypeInv, TypeOK
      <4> QED BY <4>1, <4>3, <4>4, <4>5
    <3>3. e \in Events
      BY <3>2, Ends DEF IInv, TypeInv, TypeOK
    <3> QED BY <1>1, <2>1, <3>1, <3>2, <3>3 DEF Due, Places, InDispatch, IInv, list, cpum
  <2>2. CASE NotDue
    BY <2>2 DEF NotDue, LoopOver, Places, InDispatch, IInv
  <2>3. CASE OtherHandler
    BY <1>1, <2>3 DEF OtherHandler, Places, InDispatch, IInv, list, cpum
  <2> QED BY <2>1, <2>2, <2>3
<1>5. NoneOverdue'
  <2>1. CASE NotDue
    <3>1. e = next[SYNFIRST] /\ timestamp < event_time[e]
      BY <2>1 DEF NotDue, IInv, Places
    <3>2. \A n \in Events : event_time[e] <= event_time[n]
      BY <3>1, HeadIsEarliest, Ends DEF IInv
    <3>3. timestamp \in Nat /\ \A n \in Nodes : event_time[n] \in Nat
      BY DEF IInv, TypeInv, TypeOK
    <3>4. \A n \in Events : event_time[n] > timestamp
      <4> TAKE n \in Events
      <4>1. event_time[n] \in Nat /\ event_time[e] \in Nat
        BY <3>3, Ends DEF IInv, TypeInv, TypeOK
      <4> QED BY <3>1, <3>2, <3>3, <4>1
    <3> QED BY <1>1, <3>4 DEF NoneOverdue, list, cpum
  <2>2. CASE Due \/ OtherHandler
    BY <2>2 DEF NoneOverdue, Due, OtherHandler
  <2> QED BY <2>1, <2>2
<1> QED BY <1>1, <1>2, <1>3, <1>4, <1>5 DEF IInv

\* The steps that move one entry inside the loops.
LEMMA MoveStep ==
  ASSUME IInv, NEW n \in Events, NEW t \in Nat, t < Far, SetEventNT(n, t),
         pc' \in {"instr", "dispatch", "return"}, pc' = "dispatch" => e' = next'[eprev] /\ pc = "return",
         pc' # "dispatch" => e' = e,
         pc' = "return" => pc = "handler" /\ e = PPU /\ n = PPU_LINEIRQ,
         pc' = "instr" => pc = "instr",
         timestamp' \in 0 .. Horizon, timestamp <= timestamp', running_mask' \in BOOLEAN,
         ret' = ret, eprev' = eprev
  PROVE  IInv'
<1>1. /\ List'
      /\ \A m \in Nodes : event_time'[m] = IF m = n THEN t ELSE event_time[m]
      /\ next_event_ts' = Mask(event_time'[next'[SYNFIRST]], running_mask')
      /\ next_event_ts' \in Nat
  BY SetKeeps DEF IInv
<1>2. Cached'
  BY <1>1 DEF Cached, InLoops, InDispatch
<1>3. Places'
  <2>1. CASE pc' = "dispatch"
    BY <2>1 DEF IInv, Places, InDispatch
  <2>2. CASE pc' = "return"
    <3>1. e \in Events /\ eprev = SYNFIRST /\ event_time[e] <= timestamp /\ e # n
      BY <2>2 DEF IInv, Places, PPU, PPU_LINEIRQ
    <3>2. event_time'[e] = event_time[e]
      BY <1>1, <3>1, Ends
    <3>3. event_time[e] \in Nat /\ timestamp \in Nat /\ timestamp' \in Nat
      BY <3>1, Ends DEF IInv, TypeInv, TypeOK
    <3>4. event_time'[e] <= timestamp'
      BY <3>1, <3>2, <3>3
    <3> QED BY <2>2, <3>1, <3>4 DEF IInv, Places, InDispatch
  <2>3. CASE pc' = "instr"
    BY <2>3 DEF Places, InDispatch
  <2> QED BY <2>1, <2>2, <2>3
<1>4. TypeInv'
  <2>1. e' \in Nodes /\ eprev' \in Nodes
    <3>1. pc' = "dispatch" => e' \in Nodes
      BY <1>1, Ends DEF IInv, Places, List, Links, Linked
    <3> QED BY <3>1 DEF IInv, TypeInv, TypeOK
  <2> QED BY <1>1, <2>1 DEF IInv, TypeInv, TypeOK, List, Links, Times
<1>5. NoneOverdue'
  BY DEF NoneOverdue
<1> QED BY <1>1, <1>2, <1>3, <1>4, <1>5 DEF IInv

LEMMA PPUStep ==
  ASSUME IInv, NEW irq \in Answers(PPU_LINEIRQ, event_time[e]), NEW stop \in BOOLEAN,
         PPUHandler(irq, stop)
  PROVE  IInv'
<1>1. event_time[e] \in 0 .. Horizon /\ PPU_LINEIRQ \in Events
  <2>1. e \in Nodes /\ event_time[e] <= timestamp /\ timestamp \in 0 .. Horizon
    BY DEF IInv, TypeInv, TypeOK, Places, PPUHandler
  <2>2. event_time[e] \in Nat
    BY <2>1 DEF IInv, TypeInv, TypeOK
  <2> QED BY <2>1, <2>2, Numbers, Ends
<1>2. irq \in Nat /\ irq < Far
  BY <1>1, AnswersInRange
<1>3. SetEventNT(PPU_LINEIRQ, irq)
  BY DEF PPUHandler
<1>4. /\ pc' = "return" /\ pc = "handler" /\ e = PPU /\ e' = e /\ ret' = ret /\ eprev' = eprev
      /\ running_mask' \in BOOLEAN
  BY DEF PPUHandler, IInv, TypeInv, TypeOK
<1>5. timestamp' \in 0 .. Horizon /\ timestamp <= timestamp'
  BY Numbers DEF PPUHandler, IInv, TypeInv, TypeOK
<1> QED BY <1>1, <1>2, <1>3, <1>4, <1>5, MoveStep

LEMMA RegisterStep ==
  ASSUME IInv, NEW n \in Events, NEW t \in Requests(n), RegisterWrite(n, t)
  PROVE  IInv'
<1>1. timestamp \in 0 .. Horizon
  BY DEF IInv, TypeInv, TypeOK
<1>2. t \in Nat /\ t < Far
  BY <1>1, RequestsInRange
<1>3. /\ SetEventNT(n, t) /\ pc' = "instr" /\ pc = "instr"
      /\ e' = e /\ ret' = ret /\ eprev' = eprev
      /\ running_mask' \in BOOLEAN /\ timestamp' = timestamp
  BY DEF RegisterWrite, IInv, TypeInv, TypeOK
<1> QED BY <1>1, <1>2, <1>3, MoveStep

LEMMA ReturnStep ==
  ASSUME IInv, NEW nt \in Answers(e, event_time[e]), Return(nt)
  PROVE  IInv'
<1>1. e \in Events /\ event_time[e] <= timestamp /\ timestamp \in 0 .. Horizon
  BY DEF IInv, TypeInv, TypeOK, Places, Return
<1>2. event_time[e] \in 0 .. Horizon
  <2>1. event_time[e] \in Nat
    BY <1>1, Ends DEF IInv, TypeInv, TypeOK
  <2> QED BY <1>1, <2>1, Numbers
<1>3. nt \in Nat /\ nt < Far
  BY <1>1, <1>2, AnswersInRange
<1>4. /\ SetEventNT(e, nt) /\ pc' = "dispatch" /\ pc = "return"
      /\ e' = next'[eprev] /\ ret' = ret /\ eprev' = eprev
      /\ running_mask' \in BOOLEAN /\ timestamp' = timestamp
  BY DEF Return, IInv, TypeInv, TypeOK
<1> QED BY <1>1, <1>3, <1>4, MoveStep

LEMMA ForceStep ==
  ASSUME IInv, NEW nt \in Answers(e, timestamp), ForceUpdate(nt)
  PROVE  IInv'
<1>1. e \in Events /\ timestamp \in 0 .. Horizon
  BY Numbers DEF IInv, TypeInv, TypeOK, Places, ForceUpdate, SYNLAST
<1>2. nt \in Nat /\ timestamp < nt /\ nt < Far
  BY <1>1, AnswersInRange
<1>3. SetEventNT(e, nt)
  BY DEF ForceUpdate
<1>4. /\ List'
      /\ \A m \in Nodes : event_time'[m] = IF m = e THEN nt ELSE event_time[m]
      /\ next_event_ts' \in Nat
  BY <1>1, <1>2, <1>3, SetKeeps DEF IInv, ForceUpdate, TypeInv, TypeOK
<1>5. e' \in Events \cup {SYNLAST} /\ e' \in Nodes
  BY <1>1 DEF ForceUpdate, Events, Nodes, SYNFIRST, SYNLAST
<1>6. TypeInv'
  BY <1>4, <1>5 DEF IInv, TypeInv, TypeOK, List, Links, Times, ForceUpdate
<1>7. Cached' /\ Places'
  BY <1>5 DEF IInv, Cached, Places, InLoops, InDispatch, ForceUpdate
<1>8. NoneOverdue'
  <2>1. \A n \in Events : event_time[n] > timestamp
    BY DEF IInv, NoneOverdue, ForceUpdate
  <2>2. \A n \in Events : event_time'[n] > timestamp'
    <3> TAKE n \in Events
    <3>1. event_time'[n] = IF n = e THEN nt ELSE event_time[n]
      BY <1>4, Ends
    <3> QED BY <1>1, <1>2, <2>1, <3>1 DEF ForceUpdate
  <2> QED BY <2>2 DEF NoneOverdue
<1> QED BY <1>4, <1>6, <1>7, <1>8 DEF IInv

LEMMA ForcedStep ==
  ASSUME IInv, Forced
  PROVE  IInv'
<1>1. List' /\ UNCHANGED list
  BY ListKept DEF IInv, Forced
<1>2. event_time[next[SYNFIRST]] \in Nat
  BY Ends DEF IInv, List, Times, Links, Linked
<1>3. pc' \in {"rebase", "stopped"}
  BY DEF Forced, IInv, Places
<1>4. TypeInv'
  BY <1>1, <1>2, <1>3, Ends DEF IInv, TypeInv, TypeOK, List, Times, Links, Forced, LoopOver
<1>5. Cached' /\ Places'
  BY <1>1, <1>3 DEF Forced, Cached, Places, InLoops, InDispatch, list
<1>6. NoneOverdue'
  BY <1>1 DEF IInv, Forced, NoneOverdue, list
<1> QED BY <1>1, <1>4, <1>5, <1>6 DEF IInv

LEMMA RebaseStep ==
  ASSUME IInv, RebaseTS
  PROVE  IInv'
<1>1. /\ \A n \in Events : event_time[n] > timestamp
      /\ timestamp \in Nat /\ \A n \in Nodes : event_time[n] \in Nat
      /\ event_time[SYNFIRST] = 0 /\ event_time[SYNLAST] = Far
  BY DEF IInv, NoneOverdue, RebaseTS, TypeInv, TypeOK, Times
<1>2. \A n \in Nodes : event_time'[n] = IF n \in Events THEN event_time[n] - timestamp
                                        ELSE event_time[n]
  BY DEF RebaseTS
<1>3. \A n \in Events : event_time'[n] \in Nat /\ event_time'[n] > 0
  <2> TAKE n \in Events
  <2>1. event_time[n] \in Nat /\ event_time[n] > timestamp
    BY <1>1, Ends
  <2> QED BY <1>1, <1>2, <2>1, Ends
<1>4. Times'
  <2>1. \A n \in Nodes : event_time'[n] \in Nat
    BY <1>1, <1>2, <1>3
  <2> QED BY <1>1, <1>2, <2>1, Ends DEF RebaseTS, Times
<1>5. Sorted'
  <2> SUFFICES ASSUME NEW n \in Nodes \ {SYNLAST}
               PROVE  event_time'[n] <= event_time'[next[n]]
    BY DEF RebaseTS, Sorted
  <2>1. next[n] \in Nodes \ {SYNFIRST} /\ event_time[n] <= event_time[next[n]]
    BY DEF IInv, List, Links, Linked, Sorted
  <2>2. CASE n = SYNFIRST
    <3>1. event_time'[n] = 0 /\ event_time'[next[n]] \in Nat
      BY <1>1, <1>2, <1>4, <2>1, <2>2, Ends DEF Times
    <3> QED BY <3>1
  <2>3. CASE n \in Events /\ next[n] \in Events
    BY <1>1, <1>2, <2>1, <2>3, Ends
  <2>4. CASE n \in Events /\ next[n] = SYNLAST
    BY <1>1, <1>2, <2>1, <2>4, Ends
  <2> QED BY <2>1, <2>2, <2>3, <2>4, Ends
<1>6. Links' /\ AllReached'
  BY DEF RebaseTS, IInv, List, Links, Linked, AllReached
<1>7. event_time'[next[SYNFIRST]] \in Nat
  BY <1>4, Ends DEF Times, IInv, List, Links, Linked
<1>8. TypeInv'
  BY <1>4, <1>7, Numbers DEF RebaseTS, IInv, TypeInv, TypeOK, Times
<1>9. Cached' /\ Places'
  BY DEF RebaseTS, Cached, Places, InLoops, InDispatch
<1>10. NoneOverdue'
  BY <1>3 DEF RebaseTS, NoneOverdue
<1> QED BY <1>4, <1>5, <1>6, <1>8, <1>9, <1>10 DEF IInv, List

LEMMA ResetStep ==
  ASSUME IInv, Reset
  PROVE  IInv'
<1>1. List'
  <2>1. IsInitialList'
    BY DEF Reset, IsInitialList, InitialTime, InitialPrev, InitialNext
  <2>2. (IsInitialList => List)'
    BY InitialList, PTL
  <2> QED BY <2>1, <2>2
<1>2. TypeInv'
  <2>1. e' \in Nodes
    BY DEF Reset, Nodes, SYNFIRST, SYNLAST
  <2> QED BY <1>1, <2>1 DEF Reset, IInv, TypeInv, TypeOK, List, Times, Links, cpum
<1>3. Cached' /\ Places'
  BY DEF Reset, Cached, Places, InLoops, InDispatch, Events, SYNFIRST, SYNLAST
<1>4. NoneOverdue'
  <2>1. timestamp' \in 0 .. Horizon
    BY DEF Reset, cpum, IInv, TypeInv, TypeOK
  <2>2. \A n \in Events : event_time'[n] = MaxTS
    BY Ends DEF Reset, InitialTime
  <2>3. MaxTS > timestamp'
    BY <2>1, Numbers
  <2> QED BY <2>2, <2>3 DEF NoneOverdue
<1> QED BY <1>1, <1>2, <1>3, <1>4 DEF IInv

LEMMA StepInv == IInv /\ [Next]_vars => IInv'
<1> SUFFICES ASSUME IInv, [Next]_vars PROVE IInv'
  OBVIOUS
<1>1. CASE RunFrame \/ Enter \/ Instruction \/ Cycles \/ EndInstruction
           \/ LoopEnd \/ Kludge \/ EndFrame \/ LoadState
  BY <1>1, LoopStep
<1>2. CASE Due \/ NotDue \/ OtherHandler
  BY <1>2, DispatchStep
<1>3. CASE \E n \in Events : \E t \in Requests(n) : RegisterWrite(n, t)
  BY <1>3, RegisterStep
<1>4. CASE \E irq \in Answers(PPU_LINEIRQ, event_time[e]), stop \in BOOLEAN : PPUHandler(irq, stop)
  BY <1>4, PPUStep
<1>5. CASE \E nt \in Answers(e, event_time[e]) : Return(nt)
  BY <1>5, ReturnStep
<1>6. CASE \E nt \in Answers(e, timestamp) : ForceUpdate(nt)
  BY <1>6, ForceStep
<1>7. CASE Forced
  BY <1>7, ForcedStep
<1>8. CASE RebaseTS
  BY <1>8, RebaseStep
<1>9. CASE Reset
  BY <1>9, ResetStep
<1>10. CASE UNCHANGED vars
  <2>1. List'
    BY <1>10, ListKept DEF IInv, vars
  <2> QED BY <1>10, <2>1 DEF IInv, TypeInv, TypeOK, Times, Cached, Places, NoneOverdue, vars, list, cpum
<1> QED
  BY <1>1, <1>2, <1>3, <1>4, <1>5, <1>6, <1>7, <1>8, <1>9, <1>10 DEF Next

THEOREM Invariance == Spec => []IInv
<1>1. Init => IInv
  BY InitInv
<1>2. IInv /\ [Next]_vars => IInv'
  BY StepInv
<1> QED BY <1>1, <1>2, PTL DEF Spec

----------------------------------------------------------------------------
\* The links stay one sorted list of all the devices.
THEOREM ListStaysSound == Spec => []ListSound
<1>1. IInv => ListSound
  BY DEF IInv, List, Links, ListSound
<1> QED BY <1>1, Invariance, PTL

\* EventHandler calls the earliest entry of all.
THEOREM HandledInOrder == Spec => []EarliestFirst
<1>1. IInv => EarliestFirst
  <2> SUFFICES ASSUME IInv, pc = "handler", NEW n \in Events
               PROVE  event_time[e] <= event_time[n]
    BY DEF EarliestFirst
  <2>1. e = next[SYNFIRST]
    BY DEF IInv, Places
  <2> QED BY <2>1, HeadIsEarliest, Ends DEF IInv
<1> QED BY <1>1, Invariance, PTL

\* Nothing is overdue when EventHandler has returned to the loop, nor when the
\* clock is set back: RebaseTS's assertion holds.
THEOREM NothingOverdue == Spec => []NoneOverdue
<1>1. IInv => NoneOverdue
  BY DEF IInv
<1> QED BY <1>1, Invariance, PTL

\* An instruction starts only before every event.
THEOREM InstructionsBeforeEvents == Spec => StartsBeforeEvents
<1>1. IInv /\ [Next]_vars =>
        [pc = "inner" /\ pc' = "instr" =>
           running_mask /\ \A n \in Events : timestamp < event_time[n]]_vars
  <2> SUFFICES ASSUME IInv, Next, pc = "inner", pc' = "instr"
               PROVE  running_mask /\ \A n \in Events : timestamp < event_time[n]
    OBVIOUS
  <2>1. Instruction
    BY DEF Next, RunFrame, Enter, Cycles, EndInstruction, LoopEnd, Kludge, CallEventHandler,
       Due, NotDue, OtherHandler, EndFrame, Forced, RebaseTS, LoadState, Reset,
       RegisterWrite, PPUHandler, Return, ForceUpdate
  <2>2. timestamp < Mask(event_time[next[SYNFIRST]], running_mask) /\ timestamp \in Nat
    BY <2>1 DEF Instruction, IInv, Cached, InLoops, TypeInv, TypeOK
  <2>3. running_mask /\ timestamp < event_time[next[SYNFIRST]]
    BY <2>2 DEF Mask
  <2>4. ASSUME NEW n \in Events PROVE timestamp < event_time[n]
    <3>1. event_time[next[SYNFIRST]] <= event_time[n] /\ next[SYNFIRST] \in Nodes
      BY HeadIsEarliest, Ends DEF IInv
    <3>2. event_time[next[SYNFIRST]] \in Nat /\ event_time[n] \in Nat
      BY <3>1, Ends DEF IInv, TypeInv, TypeOK
    <3> QED BY <2>2, <2>3, <3>1, <3>2
  <2> QED BY <2>3, <2>4
<1> QED BY <1>1, Invariance, PTL DEF Spec, StartsBeforeEvents

\* Every variable stays in its range.
THEOREM TypeCorrect == Spec => []TypeOK
<1>1. IInv => TypeOK
  BY DEF IInv, TypeInv
<1> QED BY <1>1, Invariance, PTL
============================================================================
