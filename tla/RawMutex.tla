------------------------------ MODULE RawMutex ------------------------------
(***************************************************************************)
(* Mutexes with priority inheritance and priority ceilings (raw_mutex.c)   *)
(* on top of tasks, scheduler and tick.                                    *)
(***************************************************************************)
EXTENDS RawTask

CONSTANTS
  MaxNested,  \* (RAW_MUTEX_NESTED_TYPE)-1, the largest owner_nested
  Removable   \* the mutexes that raw_mutex_delete is called for

ASSUME MutexAssumption ==
  /\ MaxNested \in Nat /\ MaxNested > 0
  /\ Removable \subseteq Mutex

raw_mutex_create(m) ==
  /\ Boot \/ Caller
  /\ m \notin k.live
  /\ k' = [k EXCEPT !.block_list[m] = <<>>, !.mtxtsk[m] = NoTask,
                    !.mtxnext[m] = NoObj, !.live = @ \cup {m}]
  /\ UNCHANGED <<sys, pc, call, loop>>

\* raw_mutex_get by the owner.  More than MaxNested levels are an error of the
\* application ("system must be stoped here!") and not a step.
raw_mutex_get_nested(m) ==
  /\ TaskRuns
  /\ m \in k.live /\ k.mtxtsk[m] = active
  /\ k.owner_nested[m] < MaxNested
  /\ k' = [k EXCEPT !.owner_nested[m] = @ + 1]
  /\ UNCHANGED <<sys, pc, call, loop>>

\* Mutant: any task may take a mutex with a ceiling.
MayLock_Unchecked(m) == m \in k.live

MayLock(m) ==
  m \in k.live /\ (Policy[m] = "ceiling" => k.bpriority[active] >= Ceiling[m])

\* Mutant: owner_nested is not set.
raw_mutex_get_free_NotCounted(m) ==
  /\ TaskRuns
  /\ MayLock(m) /\ k.mtxtsk[m] = NoTask
  /\ k' = raise_to_ceiling(push_mutex(k, active, m), active, m)
  /\ UNCHANGED <<sys, pc, call, loop>>

raw_mutex_get_free(m) ==
  /\ TaskRuns
  /\ MayLock(m) /\ k.mtxtsk[m] = NoTask
  /\ k' = raise_to_ceiling([push_mutex(k, active, m) EXCEPT !.owner_nested[m] = 1], active, m)
  /\ UNCHANGED <<sys, pc, call, loop>>

raw_mutex_get(m, timeout) ==
  /\ TaskRuns
  /\ MayLock(m) /\ k.mtxtsk[m] \notin {active, NoTask}
  /\ MayStop(active)
  /\ LET owner == k.mtxtsk[m]
         p     == k.priority[active]
         K1    == IF Policy[m] = "inherit" /\ p < k.priority[owner]
                  THEN change_internal_task_priority(k, owner, p) ELSE k
     IN  k' = raw_pend_object(K1, m, active, timeout)
  /\ Block(m)
  /\ UNCHANGED <<sys, loop>>

\* owner_nested is not 0 when the owner calls.
raw_mutex_put_nested(m) ==
  /\ TaskRuns
  /\ m \in k.live /\ k.mtxtsk[m] = active /\ k.owner_nested[m] # 1
  /\ k' = [k EXCEPT !.owner_nested[m] = (@ + MaxNested) % (MaxNested + 1)]
  /\ UNCHANGED <<sys, pc, call, loop>>

\* Mutant: the mutex becomes free although tasks wait.
raw_mutex_put_NoHandOver(m) ==
  /\ TaskRuns
  /\ m \in k.live /\ k.mtxtsk[m] = active /\ k.owner_nested[m] = 1
  /\ LET K1 == release_mutex([k EXCEPT !.owner_nested[m] = 0], active, m)
     IN  k' = [K1 EXCEPT !.mtxtsk[m] = NoTask]
  /\ UNCHANGED <<sys, pc, call, loop>>

raw_mutex_put(m) ==
  /\ TaskRuns
  /\ m \in k.live /\ k.mtxtsk[m] = active /\ k.owner_nested[m] = 1
  /\ LET K1 == release_mutex([k EXCEPT !.owner_nested[m] = 0], active, m)
         t  == Head(K1.block_list[m])
         K2 == [push_mutex(wake_up(K1, t, "OK"), t, m) EXCEPT !.owner_nested[m] = 1]
     IN  IF K1.block_list[m] = <<>>
         THEN /\ k' = [K1 EXCEPT !.mtxtsk[m] = NoTask]
              /\ UNCHANGED pc                      \* no raw_sched() follows
         ELSE /\ k' = raise_to_ceiling(K2, t, m)
              /\ Resched
  /\ UNCHANGED <<sys, call, loop>>

\* May be called in an interrupt handler; mtxtsk keeps its value.
raw_mutex_delete(m) ==
  /\ Caller
  /\ m \in k.live
  /\ LET K1 == [k EXCEPT !.live = @ \ {m}]
     IN  k' = IF k.mtxtsk[m] = NoTask THEN K1 ELSE release_mutex(K1, k.mtxtsk[m], m)
  /\ loop' = [NoLoop EXCEPT !.op = "wake", !.obj = m, !.status = "DEL"]
  /\ Resched
  /\ UNCHANGED <<sys, call>>

WakeNext ==
  /\ loop.op = "wake" /\ k.block_list[loop.obj] # <<>>
  /\ k' = wake_up(k, Head(k.block_list[loop.obj]), loop.status)
  /\ UNCHANGED <<sys, pc, call, loop>>

WakeDone ==
  /\ loop.op = "wake" /\ k.block_list[loop.obj] = <<>>
  /\ loop' = NoLoop
  /\ UNCHANGED <<k, sys, pc, call>>

MutexNext ==
  \/ TaskNext
  \/ WakeNext
  \/ WakeDone
  \/ \E m \in Mutex :
       \/ raw_mutex_create(m)
       \/ raw_mutex_get_nested(m)
       \/ raw_mutex_get_free(m)
       \/ raw_mutex_put_nested(m)
       \/ raw_mutex_put(m)
       \/ \E timeout \in Timeouts : raw_mutex_get(m, timeout)
  \/ \E m \in Removable : raw_mutex_delete(m)

MutexSpec == TaskInit /\ [][MutexNext]_taskVars

-----------------------------------------------------------------------------

\* The task whose mutexes are being freed, in the middle of raw_task_delete.
dying == IF loop.op = "free" THEN loop.task ELSE NoTask
Settled(t) == k.task_state[t] # "DELETED" /\ t # dying

\* mtxtsk and the mtxlist chains agree: a task's chain holds exactly the mutexes
\* it owns, and a mutex with waiters has an owner.
OwnershipOK ==
  \A m \in k.live \cap Mutex :
    /\ \A t \in Task : Settled(t) => (m \in mutex_chain(k, t) <=> k.mtxtsk[m] = t)
    /\ k.mtxtsk[m] = NoTask => k.block_list[m] = <<>>

\* The comments above chg_pri_mutex and release_mutex: a task runs at the most
\* urgent of its base priority, the ceilings of the mutexes it holds, and the
\* priorities of the first waiters of the mutexes with inheritance it holds --
\* through every chain of owners that wait themselves, and no longer than that.
PriorityInheritance ==
  \A t \in Task :
    Settled(t) => k.priority[t] = Min({k.bpriority[t]} \cup lent_priorities(k, t))

\* The second half of that comment: the base priority of a task is never more
\* urgent than the ceiling of a mutex it holds or waits for.
CeilingRespected ==
  \A t \in Task : Settled(t) => ~ exceeds_ceiling(k, t, k.bpriority[t])

\* The first waiter is the most urgent one even when priorities change, also by
\* inheritance, while tasks wait.
BlockListSorted == BlockSorted(k)

waitOf(t) ==
  IF call[t] \notin Mutex \/ k.task_state[t] = "DELETED"
  THEN [on |-> "none", outcome |-> "none"]
  ELSE [on |-> call[t],
        outcome |-> IF k.task_state[t] \in Pending THEN "waiting"
                    ELSE IF k.block_status[t] = "OK" THEN "granted" ELSE "refused"]

held(m) == m \in k.live /\ k.mtxtsk[m] # NoTask

Abs == INSTANCE AbsMutex WITH
  MaxDepth <- MaxNested,
  exists   <- k.live \cap Mutex,
  holder   <- [m \in Mutex |-> IF held(m) THEN k.mtxtsk[m] ELSE NoTask],
  depth    <- [m \in Mutex |-> IF held(m) THEN k.owner_nested[m] ELSE 0],
  wait     <- [t \in Task |-> waitOf(t)],
  dying    <- dying

\* Every step of the kernel is a step of the abstract mutexes or leaves them alone.
ImplementsAbsMutex == Abs!Spec

\* raw_mutex.c:387, "if the same task get the same mutex again, it causes mutex
\* owner nested": a task that was just made the owner holds the mutex once.
NestedBySameTask ==
  [][\A m \in k.live \cap Mutex :
       k'.mtxtsk[m] # NoTask /\ k'.mtxtsk[m] # k.mtxtsk[m]
         => k'.owner_nested[m] = 1]_taskVars
=============================================================================
