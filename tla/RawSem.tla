------------------------------- MODULE RawSem -------------------------------
(***************************************************************************)
(* Counting semaphores (raw_sem.c) on top of tasks, scheduler and tick.    *)
(* A semaphore created again after it was deleted starts from scratch.     *)
(* peak_count and the name are not modelled: the kernel never reads them.  *)
(* The notify callback runs in the caller's context after the critical     *)
(* section, so what it calls is what the caller may call next.             *)
(***************************************************************************)
EXTENDS RawTask

CONSTANTS
  Sem,        \* the semaphores
  SemMax,     \* (RAW_PROCESSOR_UINT)-1, the largest count
  InitCount,  \* initial counts for raw_semaphore_create
  SetCount    \* counts for raw_semaphore_set

ASSUME SemAssumption ==
  /\ Sem \subseteq Obj \ Mutex
  /\ SemMax \in Nat /\ SemMax > 0
  /\ InitCount \subseteq 0 .. SemMax - 1     \* SemMax is refused
  /\ SetCount \subseteq 0 .. SemMax

VARIABLE count

semVars == <<k, sys, pc, call, loop, count>>

SemInit == TaskInit /\ count = [s \in Sem |-> 0]

raw_semaphore_create(s, n) ==
  /\ Boot \/ Caller
  /\ s \notin k.live
  /\ k' = [k EXCEPT !.block_list[s] = <<>>, !.live = @ \cup {s}]
  /\ count' = [count EXCEPT ![s] = n]
  /\ UNCHANGED <<sys, pc, call, loop>>

\* semaphore_put when nobody waits: no raw_sched() follows.
semaphore_put_count(s) ==
  /\ Boot \/ Caller
  /\ s \in k.live /\ Waiters(s) = <<>> /\ count[s] < SemMax
  /\ count' = [count EXCEPT ![s] = @ + 1]
  /\ UNCHANGED <<k, sys, pc, call, loop>>

\* Mutant: the token is given to the waiter and counted as well.
raw_semaphore_put_CountsToo(s) ==
  /\ Caller
  /\ s \in k.live /\ Waiters(s) # <<>> /\ count[s] < SemMax
  /\ k' = wake_up(k, Head(Waiters(s)), "OK")
  /\ count' = [count EXCEPT ![s] = @ + 1]
  /\ Resched
  /\ UNCHANGED <<sys, call, loop>>

raw_semaphore_put(s) ==
  /\ Caller
  /\ s \in k.live /\ Waiters(s) # <<>>
  /\ k' = wake_up(k, Head(Waiters(s)), "OK")
  /\ Resched
  /\ UNCHANGED <<sys, call, loop, count>>

\* Wake every waiter, one after the other, in one critical section.
WakeAll(s, status) ==
  /\ loop' = [NoLoop EXCEPT !.op = "wake", !.obj = s, !.status = status]
  /\ Resched

raw_semaphore_put_all(s) ==
  /\ Caller
  /\ s \in k.live /\ Waiters(s) # <<>>
  /\ WakeAll(s, "OK")
  /\ UNCHANGED <<k, sys, call, count>>

raw_semaphore_delete(s) ==
  /\ TaskRuns
  /\ s \in k.live
  /\ k' = [k EXCEPT !.live = @ \ {s}]
  /\ WakeAll(s, "DEL")
  /\ UNCHANGED <<sys, call, count>>

WakeNext ==
  /\ loop.op = "wake" /\ Waiters(loop.obj) # <<>>
  /\ k' = wake_up(k, Head(Waiters(loop.obj)), loop.status)
  /\ UNCHANGED <<sys, pc, call, loop, count>>

WakeDone ==
  /\ loop.op = "wake" /\ Waiters(loop.obj) = <<>>
  /\ loop' = NoLoop
  /\ UNCHANGED <<k, sys, pc, call, count>>

\* raw_semaphore_get with a token there, whatever the wait option.
semaphore_take(s) ==
  /\ TaskRuns
  /\ s \in k.live /\ count[s] > 0
  /\ count' = [count EXCEPT ![s] = @ - 1]
  /\ UNCHANGED <<k, sys, pc, call, loop>>

raw_semaphore_get(s, timeout) ==
  /\ TaskRuns
  /\ s \in k.live /\ count[s] = 0
  /\ MayStop(active)
  /\ k' = raw_pend_object(k, s, active, timeout)
  /\ Block(s)
  /\ UNCHANGED <<sys, loop, count>>

raw_semaphore_set(s, n) ==
  /\ TaskRuns
  /\ s \in k.live
  /\ count[s] > 0 \/ Waiters(s) = <<>>
  /\ count' = [count EXCEPT ![s] = n]
  /\ UNCHANGED <<k, sys, pc, call, loop>>

TaskStep == TaskNext /\ UNCHANGED count

SemOp(s) ==
  \/ semaphore_put_count(s)
  \/ raw_semaphore_put(s)
  \/ raw_semaphore_put_all(s)
  \/ raw_semaphore_delete(s)
  \/ semaphore_take(s)
  \/ \E n \in InitCount : raw_semaphore_create(s, n)
  \/ \E n \in SetCount : raw_semaphore_set(s, n)
  \/ \E timeout \in Timeouts : raw_semaphore_get(s, timeout)

SemNext ==
  \/ TaskStep
  \/ WakeNext
  \/ WakeDone
  \/ \E s \in Sem : SemOp(s)

SemSpec == SemInit /\ [][SemNext]_semVars

-----------------------------------------------------------------------------
(* The semaphores implement AbsSem.                                         *)

waitOf(t) ==
  IF call[t] \notin Sem \/ k.task_state[t] = "DELETED"
  THEN [on |-> "none", outcome |-> "none"]
  ELSE [on |-> call[t],
        outcome |-> IF k.task_state[t] \in Pending THEN "waiting"
                    ELSE IF k.block_status[t] = "OK" THEN "granted" ELSE "refused"]

Abs == INSTANCE AbsSem WITH
  exists <- k.live \cap Sem,
  tokens <- [s \in Sem |-> IF s \in k.live THEN count[s] ELSE 0],
  wait   <- [t \in Task |-> waitOf(t)]

\* Every step of the kernel is a step of the abstract semaphores or leaves them
\* alone: a wait ends once, with the token of the put that released the task or with
\* a refusal (timeout, abort or delete), and the task returns what its wait ended with.
ImplementsAbsSem == Abs!Spec

=============================================================================
