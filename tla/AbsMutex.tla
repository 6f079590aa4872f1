------------------------------ MODULE AbsMutex ------------------------------
(***************************************************************************)
(* What raw_mutex.c promises its users: a mutex has at most one holder,    *)
(* who may take it again and must give it back as often; only the holder    *)
(* gives it up, or the deletion of the holder or of the mutex.  A mutex     *)
(* that is given up with tasks waiting goes to one of them at once, held    *)
(* once.  Priorities and lists are left out.                                *)
(***************************************************************************)
EXTENDS Integers

CONSTANTS Task, Mutex, NoTask, MaxDepth

VARIABLES
  exists,    \* the mutexes that are created and not deleted
  holder,    \* who holds each mutex
  depth,     \* how many times
  wait,      \* each task's wait, as in AbsSem
  dying      \* the task that is being deleted, if any

vars == <<exists, holder, depth, wait, dying>>

Outside == [on |-> "none", outcome |-> "none"]
Waits(t, m) == wait[t] = [on |-> m, outcome |-> "waiting"]
Busy(t, m) == holder[m] = t /\ wait[t] = Outside

Init ==
  /\ exists = {}
  /\ holder = [m \in Mutex |-> NoTask]
  /\ depth = [m \in Mutex |-> 0]
  /\ wait = [t \in Task |-> Outside]
  /\ dying = NoTask

Hold(m, t, n) ==
  /\ holder' = [holder EXCEPT ![m] = t]
  /\ depth' = [depth EXCEPT ![m] = n]

Create(m) ==
  /\ m \notin exists
  /\ exists' = exists \cup {m}
  /\ UNCHANGED <<holder, depth, wait, dying>>

Delete(m) ==
  /\ m \in exists
  /\ exists' = exists \ {m}
  /\ Hold(m, NoTask, 0)
  /\ UNCHANGED <<wait, dying>>

Acquire(t, m) ==
  /\ m \in exists /\ holder[m] = NoTask /\ wait[t] = Outside
  /\ Hold(m, t, 1)
  /\ UNCHANGED <<exists, wait, dying>>

Nest(t, m) ==
  /\ Busy(t, m) /\ depth[m] < MaxDepth
  /\ Hold(m, t, depth[m] + 1)
  /\ UNCHANGED <<exists, wait, dying>>

Unnest(t, m) ==
  /\ Busy(t, m) /\ depth[m] > 1
  /\ Hold(m, t, depth[m] - 1)
  /\ UNCHANGED <<exists, wait, dying>>

Begin(t, m) ==
  /\ m \in exists /\ holder[m] \notin {t, NoTask} /\ wait[t] = Outside
  /\ wait' = [wait EXCEPT ![t] = [on |-> m, outcome |-> "waiting"]]
  /\ UNCHANGED <<exists, holder, depth, dying>>

\* The holder gives the mutex back for the last time, or is being deleted.
GivenUp(m) ==
  /\ holder[m] # NoTask
  /\ holder[m] = dying \/ (wait[holder[m]] = Outside /\ depth[m] = 1)

Release(m) ==
  /\ GivenUp(m) /\ \A u \in Task : ~ Waits(u, m)
  /\ Hold(m, NoTask, 0)
  /\ UNCHANGED <<exists, wait, dying>>

HandOver(m, u) ==
  /\ Waits(u, m) /\ GivenUp(m)
  /\ Hold(m, u, 1)
  /\ wait' = [wait EXCEPT ![u].outcome = "granted"]
  /\ UNCHANGED <<exists, dying>>

Refuse(t) ==
  /\ wait[t].outcome = "waiting"
  /\ wait' = [wait EXCEPT ![t].outcome = "refused"]
  /\ UNCHANGED <<exists, holder, depth, dying>>

Leave(t) ==
  /\ wait[t].outcome \in {"granted", "refused"}
  /\ wait' = [wait EXCEPT ![t] = Outside]
  /\ UNCHANGED <<exists, holder, depth, dying>>

BeginDying(t) ==
  /\ dying = NoTask /\ dying' = t
  /\ UNCHANGED <<exists, holder, depth, wait>>

\* A deleted task holds nothing and waits for nothing.
Die ==
  /\ dying # NoTask /\ \A m \in Mutex : holder[m] # dying
  /\ wait' = [wait EXCEPT ![dying] = Outside]
  /\ dying' = NoTask
  /\ UNCHANGED <<exists, holder, depth>>

Next ==
  \/ \E t \in Task : Refuse(t) \/ Leave(t) \/ BeginDying(t)
  \/ Die
  \/ \E m \in Mutex : Create(m) \/ Delete(m) \/ Release(m)
  \/ \E t \in Task, m \in Mutex :
       Acquire(t, m) \/ Nest(t, m) \/ Unnest(t, m) \/ Begin(t, m) \/ HandOver(m, t)

Spec == Init /\ [][Next]_vars
=============================================================================
