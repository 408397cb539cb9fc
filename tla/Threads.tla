------------------------------ MODULE Threads ------------------------------
(***************************************************************************)
(* Semaphores and threads (MThreading_POSIX.cpp, MThreading_Win32.cpp).    *)
(* What this repository builds is the system's own semaphore ("native":    *)
(* sem_t, with sem_timedwait since config.h:6 defines HAVE_SEM_TIMEDWAIT,  *)
(* or a Win32 semaphore). The files also hold, for systems configured      *)
(* without sem_timedwait (MThreading_POSIX.cpp:40), a counter under a      *)
(* mutex with a condition variable ("condvar"); that code is not compiled  *)
(* here, nor is there a caller of the Win32 condition variable, an auto-   *)
(* reset event good for one waiter ("event"), for which the same counter   *)
(* waits here. Nobody else sees what is done under the mutex, so that a    *)
(* critical section is one step.                                           *)
(***************************************************************************)
EXTENDS Integers, FiniteSets

CONSTANTS
  Kinds,      \* which of the three are explored
  Waiters,    \* the threads that wait
  Lone,       \* the one that waits for an event
  Posters,    \* the threads that post
  Max,        \* INT_MAX
  Posts,      \* how often each poster posts
  Second      \* nanoseconds in a second

VARIABLE th   \* the semaphore, its condition variable, and the callers

Callers == Waiters \cup Posters
Idle == "idle"

\* TimeSpec_AddNanoseconds.
TimeSpec_AddNanoseconds(ts, add) ==
  [sec |-> ts.sec + ((ts.nsec + add) \div Second), nsec |-> (ts.nsec + add) % Second]

Sem_Create(kind) ==
  [kind |-> kind, v |-> 0, evt |-> FALSE,
   pc |-> [t \in Callers |-> Idle], timed |-> {}, until |-> [sec |-> 0, nsec |-> 0],
   now |-> 0, posted |-> 0, taken |-> 0,
   left |-> [t \in Posters |-> Posts]]

Waiting == {t \in Waiters : th.pc[t] = "wait"}

\* A call reaches the semaphore. A timed one computes its deadline first; the
\* condition variable's is computed again at every turn of its loop.
Call(t, timed) ==
  /\ t \in Waiters
  /\ th.kind = "event" => t = Lone
  /\ th.pc[t] = Idle
  /\ \E nsec \in {0, Second - 1} :
       th' = [th EXCEPT !.pc[t] = "lock", !.timed = IF timed THEN @ \cup {t} ELSE @ \ {t},
                        !.now = IF timed THEN nsec ELSE @,
                        !.until = IF timed THEN TimeSpec_AddNanoseconds([sec |-> 0, nsec |-> nsec], Second + 1)
                                  ELSE @]

\* The counter is not zero: it is decremented, and the call returns true.
Took(t) == [th EXCEPT !.v = @ - 1, !.taken = @ + 1, !.pc[t] = Idle]

\* Fault: a sem_wait that a signal handler interrupts counts as done.
NativeWaitInterrupted(t) ==
  /\ th.kind = "native"
  /\ t \in Waiters
  /\ th.pc[t] = "lock"
  /\ th' = IF th.v > 0 THEN Took(t) ELSE [th EXCEPT !.taken = @ + 1, !.pc[t] = Idle]

\* Sem_Wait, Sem_TimedWait: sem_wait and WaitForSingleObject do both at once. One
\* that is interrupted (EINTR) is tried again, a timed one up to the same deadline.
NativeWait(t) ==
  /\ th.kind = "native"
  /\ t \in Waiters
  /\ th.pc[t] = "lock"
  /\ th.v > 0
  /\ th' = Took(t)

\* The loop over the condition variable, between locking the mutex and waiting
\* or unlocking it. A timed wait of the Win32 one resets the event first.
CondWait(t) ==
  /\ th.kind # "native"
  /\ t \in Waiters
  /\ th.pc[t] \in {"lock", "woken"}
  /\ th' = IF th.v > 0 THEN Took(t)
           ELSE [th EXCEPT !.pc[t] = "wait",
                           !.evt = IF th.kind = "event" /\ t \in th.timed THEN FALSE ELSE @]

\* The wait's time is over; the counter is not looked at again.
TimedOut(t) ==
  /\ t \in th.timed
  /\ th.pc[t] = IF th.kind = "native" THEN "lock" ELSE "wait"
  /\ th' = [th EXCEPT !.pc[t] = "late"]

GaveUp(t) ==
  /\ t \in Waiters
  /\ th.pc[t] = "late"
  /\ th' = [th EXCEPT !.pc[t] = Idle]

\* pthread_cond_wait may return without a signal.
Spurious(t) ==
  /\ th.kind = "condvar"
  /\ th.pc[t] = "wait"
  /\ th' = [th EXCEPT !.pc[t] = "woken"]

\* The event releases a waiter and is reset.
Released(t) ==
  /\ th.kind = "event"
  /\ th.pc[t] = "wait"
  /\ th.evt
  /\ th' = [th EXCEPT !.pc[t] = "woken", !.evt = FALSE]

\* Cond_Signal: pthread_cond_signal wakes one of those who wait, if any;
\* SetEvent stays set until somebody waits.
Cond_Signal(s, wakened) ==
  CASE s.kind = "condvar" -> [s EXCEPT !.pc = [t \in Callers |-> IF t \in wakened THEN "woken" ELSE s.pc[t]]]
    [] s.kind = "event" -> [s EXCEPT !.evt = TRUE]
    [] OTHER -> s

\* Whom a signal may wake.
Wakened == IF th.kind = "condvar" /\ Waiting # {} THEN {{t} : t \in Waiting} ELSE {{}}

\* Sem_Post: sem_post, which fails at the ceiling; of the counter under the mutex,
\* where that is configured, with a signal for every post.
Sem_Post(t) ==
  /\ t \in Posters
  /\ th.left[t] > 0
  /\ \/ /\ th.v = Max
        /\ th' = [th EXCEPT !.left[t] = @ - 1]
     \/ /\ th.v < Max
        /\ \E w \in Wakened :
             th' = Cond_Signal([th EXCEPT !.v = @ + 1, !.posted = @ + 1, !.left[t] = @ - 1], w)

----------------------------------------------------------------------------
(* A thread's life: Thread_Create, what it runs, Thread_Wait.              *)

Thread(results) == [kind |-> "thread", at |-> "none", rv |-> -1, status |-> -1, frees |-> 0, results |-> results]

Thread_Create(started) ==
  /\ th.kind = "thread"
  /\ th.at = "none"
  /\ th' = IF started THEN [th EXCEPT !.at = "running"] ELSE [th EXCEPT !.at = "threw", !.frees = @ + 1]

\* PTCEP keeps what the function returned in the object and returns its address;
\* a function that ends its thread itself leaves neither.
PTCEP(result) ==
  /\ th.kind = "thread"
  /\ th.at = "running"
  /\ th' = [th EXCEPT !.at = "ended", !.rv = result]
ExitsItself ==
  /\ th.kind = "thread"
  /\ th.at = "running"
  /\ th' = [th EXCEPT !.at = "exited"]

\* pthread_join returns when the thread has ended.
Thread_Wait ==
  /\ th.kind = "thread"
  /\ th.at \in {"ended", "exited"}
  /\ th' = IF th.at = "ended" THEN [th EXCEPT !.at = "joined", !.status = th.rv, !.frees = @ + 1]
           ELSE [th EXCEPT !.at = "threw", !.frees = @ + 1]

----------------------------------------------------------------------------
Init == \/ \E kind \in Kinds : th = Sem_Create(kind)
        \/ th = Thread({0, 1})

Semaphore ==
  \/ \E t \in Waiters : \/ \E timed \in BOOLEAN : Call(t, timed)
                        \/ NativeWait(t) \/ CondWait(t) \/ TimedOut(t) \/ GaveUp(t)
                        \/ Spurious(t) \/ Released(t)
  \/ \E t \in Posters : Sem_Post(t)

Next == \/ th.kind # "thread" /\ Semaphore
        \/ \E started \in BOOLEAN : Thread_Create(started)
        \/ th.kind = "thread" /\ \E result \in th.results : PTCEP(result)
        \/ ExitsItself \/ Thread_Wait

Spec == Init /\ [][Next]_th

----------------------------------------------------------------------------
\* Who has yet to look at the counter.
Coming == {t \in Waiters : th.pc[t] \in {"lock", "woken"}}

\* Every post lets one wait through and no more, whatever times out; nobody
\* sleeps while the counter could let it through and nobody is on its way to
\* take it; a deadline is a time.
SemaphoreSound ==
  th.kind # "thread" =>
    /\ th.v = th.posted - th.taken
    /\ th.v \in 0 .. Max
    /\ (th.kind = "condvar" /\ Waiting # {}) => th.v <= Cardinality(Coming)
    /\ (th.kind = "event" /\ Waiting # {} /\ th.v > 0) => th.evt
    /\ th.until.nsec \in 0 .. Second - 1
    /\ th.until # [sec |-> 0, nsec |-> 0] =>
         (th.until.sec * Second) + th.until.nsec = th.now + Second + 1

\* A joined thread's status is what its function returned, and its object is
\* deleted once.
JoinSound ==
  th.kind = "thread" =>
    /\ th.at = "joined" => th.status = th.rv /\ th.rv \in th.results
    /\ th.frees = IF th.at \in {"joined", "threw"} THEN 1 ELSE 0

ThreadsSound == SemaphoreSound /\ JoinSound
=============================================================================
