------------------------------ MODULE RawPosix ------------------------------
(***************************************************************************)
(* Condition variables over a mutex and a semaphore (extension/posix):     *)
(* pthread_cond_wait puts the mutex, gets the semaphore and gets the mutex *)
(* again, three calls that other threads come between; a signal is a put   *)
(* of the semaphore.  The mutex is modelled by what AbsMutex promises, the *)
(* semaphore by what AbsSem does.                                          *)
(***************************************************************************)
EXTENDS Integers, FiniteSets

CONSTANTS
  Pthread, NoPthread,
  CondCount     \* bound: signals kept in the semaphore of the condition variable

ASSUME PosixAssumption == IsFiniteSet(Pthread) /\ NoPthread \notin Pthread /\ CondCount \in Nat

VARIABLES
  mutex_lock,   \* the owner of the mutex, or NoPthread
  cond,         \* attr is -1 (live), and the count of sem_lock
  pt,           \* where each thread is, and whether its wait has a time limit
  signals_due   \* signals that threads in a wait are owed (no variable of the code)

posixVars == <<mutex_lock, cond, pt, signals_due>>

At(pc) == {t \in Pthread : pt[t].pc = pc}
InWait == At("released") \cup At("waiting")
go(t, pc) == pt' = [pt EXCEPT ![t].pc = pc]

PosixInit ==
  /\ mutex_lock = NoPthread /\ cond = [live |-> TRUE, count |-> 0]
  /\ pt = [t \in Pthread |-> [pc |-> "runs", timed |-> FALSE]] /\ signals_due = 0

\* pthread_mutex_lock and pthread_mutex_trylock when the mutex is free.
\* Bound: a thread does not lock the mutex twice.
pthread_mutex_lock(t) ==
  /\ t \in At("runs") /\ mutex_lock = NoPthread
  /\ mutex_lock' = t
  /\ UNCHANGED <<cond, pt, signals_due>>

pthread_mutex_unlock(t) ==
  /\ t \in At("runs") /\ mutex_lock = t
  /\ mutex_lock' = NoPthread
  /\ UNCHANGED <<cond, pt, signals_due>>

\* pthread_cond_wait and pthread_cond_timedwait up to raw_mutex_put.
pthread_cond_wait(t, timed) ==
  /\ t \in At("runs") /\ cond.live /\ mutex_lock = t
  /\ mutex_lock' = NoPthread
  /\ pt' = [pt EXCEPT ![t] = [pc |-> "released", timed |-> timed]]
  /\ UNCHANGED <<cond, signals_due>>

\* raw_semaphore_get: it fails when the semaphore is deleted.
cond_sem_get(t) ==
  /\ t \in At("released")
  /\ IF cond.live /\ cond.count = 0 THEN go(t, "waiting") /\ UNCHANGED <<cond, signals_due>>
     ELSE /\ go(t, "relock")
          /\ cond' = [cond EXCEPT !.count = IF cond.live THEN @ - 1 ELSE @]
          /\ signals_due' = IF signals_due = 0 THEN 0 ELSE signals_due - 1
  /\ UNCHANGED mutex_lock

Least(a, b) == IF a <= b THEN a ELSE b

\* A wait with a time limit ends, also one that has just begun.
cond_timeout(t) ==
  /\ t \in InWait /\ pt[t].timed /\ (pt[t].pc = "released" => cond.count = 0)
  /\ go(t, "relock")
  /\ signals_due' = Least(signals_due, Cardinality(InWait) - 1)
  /\ UNCHANGED <<mutex_lock, cond>>

\* raw_mutex_get at the end of the wait.
cond_relock(t) ==
  /\ t \in At("relock") /\ mutex_lock = NoPthread
  /\ mutex_lock' = t /\ go(t, "runs")
  /\ UNCHANGED <<cond, signals_due>>

\* Mutant: a signal that finds no task on the list of the semaphore is dropped.
pthread_cond_signal_Dropped ==
  /\ cond.live
  /\ IF At("waiting") # {} THEN (\E t \in At("waiting") : go(t, "relock")) /\ UNCHANGED signals_due
     ELSE /\ signals_due' = Least(signals_due + 1, Cardinality(InWait))
          /\ UNCHANGED pt
  /\ UNCHANGED <<mutex_lock, cond>>

\* pthread_cond_signal, by a thread that runs or by an interrupt handler.
pthread_cond_signal ==
  /\ cond.live
  /\ IF At("waiting") # {}
     THEN (\E t \in At("waiting") : go(t, "relock")) /\ UNCHANGED <<cond, signals_due>>
     ELSE /\ cond.count < CondCount
          /\ cond' = [cond EXCEPT !.count = @ + 1]
          /\ signals_due' = Least(signals_due + 1, Cardinality(InWait))
          /\ UNCHANGED pt
  /\ UNCHANGED mutex_lock

wake_all == pt' = [t \in Pthread |-> IF pt[t].pc = "waiting" THEN [pt[t] EXCEPT !.pc = "relock"] ELSE pt[t]]

\* pthread_cond_broadcast: raw_semaphore_put_all counts up when nobody waits.
pthread_cond_broadcast ==
  /\ cond.live
  /\ IF At("waiting") = {} THEN cond.count < CondCount /\ cond' = [cond EXCEPT !.count = @ + 1]
     ELSE UNCHANGED cond
  /\ wake_all
  /\ UNCHANGED <<mutex_lock, signals_due>>

pthread_cond_destroy ==
  /\ cond.live
  /\ cond' = [live |-> FALSE, count |-> 0] /\ wake_all /\ signals_due' = 0
  /\ UNCHANGED mutex_lock

\* pthread_cond_init.  Bound: of a variable that nobody waits for.
pthread_cond_init ==
  /\ ~ cond.live /\ InWait = {}
  /\ cond' = [live |-> TRUE, count |-> 0]
  /\ UNCHANGED <<mutex_lock, pt, signals_due>>

PosixNext ==
  \/ \E t \in Pthread :
       \/ pthread_mutex_lock(t) \/ pthread_mutex_unlock(t)
       \/ \E timed \in BOOLEAN : pthread_cond_wait(t, timed)
       \/ cond_sem_get(t) \/ cond_timeout(t) \/ cond_relock(t)
  \/ pthread_cond_signal \/ pthread_cond_broadcast
  \/ pthread_cond_destroy \/ pthread_cond_init

PosixSpec == PosixInit /\ [][PosixNext]_posixVars

\* Although pthread_cond_wait is not one step (pthread_cond.c:69-78), no signal is lost
\* in it: as many as were made while threads were in a wait, and ended none, are kept for
\* them, whatever broadcasts, time limits and destructions come between.
NoSignalLost == signals_due <= cond.count /\ (At("waiting") # {} => cond.count = 0)
=============================================================================
