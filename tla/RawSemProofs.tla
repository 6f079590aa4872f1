---------------------------- MODULE RawSemProofs ----------------------------
(***************************************************************************)
(* TaskInv is also preserved by the operations of the semaphores, which    *)
(* wake tasks inside a loop and change the set of live objects.  With it:  *)
(* nobody waits for a token that is there, and nobody is left on the list  *)
(* of a deleted semaphore.                                                 *)
(***************************************************************************)
EXTENDS RawSem, RawTaskProofs

CountOK == count \in [Sem -> 0 .. SemMax]
WakeOK == loop.op = "wake" => loop.obj \in Sem

\* No token lies beside a waiting task, whatever put, get, set, timeouts, aborts
\* and deletions did before.
TokenOrWaiters == \A s \in Sem : s \in k.live /\ count[s] > 0 => NobodyWaits(s)

\* Once raw_semaphore_delete has returned, no task is linked on the semaphore.
DeletedIsEmpty ==
  \A s \in Sem : s \notin k.live /\ ~ (loop.op = "wake" /\ loop.obj = s) => NobodyWaits(s)

SemInv == TaskInv /\ CountOK /\ WakeOK /\ TokenOrWaiters /\ DeletedIsEmpty

-----------------------------------------------------------------------------
\* What is left to show of a step that starts no wait: the counts and the loop.
LEMMA CalmStep ==
  ASSUME SemInv, Calm, TaskInv', count' = count, WakeOK',
         \A s \in Sem : ~ (loop'.op = "wake" /\ loop'.obj = s) /\ s \notin k.live
                          => ~ (loop.op = "wake" /\ loop.obj = s) \/ NobodyWaits(s)
  PROVE  SemInv'
<1>1. k'.live = k.live
  BY DEF Calm
<1>2. CountOK' /\ TokenOrWaiters'
  BY <1>1, CalmKeeps DEF SemInv, CountOK, TokenOrWaiters
<1>3. DeletedIsEmpty'
  BY <1>1, CalmKeeps DEF SemInv, DeletedIsEmpty
<1> QED
  BY <1>2, <1>3 DEF SemInv

-----------------------------------------------------------------------------
(* The steps of the tasks.                                                  *)

LEMMA TaskStepInv ==
  ASSUME SemInv, TaskStep
  PROVE  SemInv'
<1>1. TaskInv /\ TaskNext /\ count' = count
  BY DEF SemInv, TaskStep
<1>2. Calm /\ TaskInv'
  BY <1>1, TaskNextCalm, TaskNextInv
<1>3. loop' = loop \/ (loop.op # "wake" /\ loop'.op # "wake")
  BY <1>1, TaskNextLoop
<1> QED
  BY <1>1, <1>2, <1>3, CalmStep DEF SemInv, WakeOK

-----------------------------------------------------------------------------
(* raw_sem.c                                                                *)

LEMMA SemIsObj == Sem \subseteq Obj /\ NoObj \notin Sem
BY SemAssumption, KernelAssumption

LEMMA raw_semaphore_createInv ==
  ASSUME SemInv, NEW s \in Sem, NEW n \in InitCount, raw_semaphore_create(s, n)
  PROVE  SemInv'
<1>1. /\ TaskInv /\ loop = NoLoop /\ loop' = loop /\ s \notin k.live
      /\ UNCHANGED <<sys, pc, call>>
      /\ k' = [k EXCEPT !.block_list[s] = <<>>, !.live = @ \cup {s}]
      /\ count' = [count EXCEPT ![s] = n]
  BY DEF SemInv, raw_semaphore_create, Boot, Caller, TaskRuns, TaskAt, IsrRuns
<1>2. s \in Obj /\ NobodyWaits(s)
  BY <1>1, SemIsObj, NoLoopOK DEF SemInv, DeletedIsEmpty
<1>3. loop'.op = "none"
  BY <1>1, NoLoopOK
<1>4. /\ TaskInv' /\ k'.live = k.live \cup {s}
      /\ \A u \in Sem : NobodyWaits(u) => NobodyWaits(u)'
  BY <1>1, <1>2, SemIsObj, NewObject
<1>5. n \in 0 .. SemMax
  BY SemAssumption
<1>6. CountOK'
  BY <1>1, <1>5 DEF SemInv, CountOK
<1>7. TokenOrWaiters'
  BY <1>1, <1>2, <1>4 DEF SemInv, CountOK, TokenOrWaiters
<1>8. DeletedIsEmpty' /\ WakeOK'
  BY <1>1, <1>3, <1>4 DEF SemInv, DeletedIsEmpty, WakeOK
<1> QED
  BY <1>4, <1>6, <1>7, <1>8 DEF SemInv

\* The variables beside k and count in a call that starts to wake all waiters.
LEMMA WakeAllOK ==
  ASSUME TaskInv, NEW s \in Sem, NEW status \in {"OK", "DEL"}, WakeAll(s, status),
         UNCHANGED sys
  PROVE  /\ loop' \in Loop /\ LoopOK' /\ loop'.op = "wake" /\ loop'.obj = s
         /\ pc' \in [Task -> Place] /\ Ahead
BY StartsWaking, SemIsObj DEF WakeAll

LEMMA raw_semaphore_deleteInv ==
  ASSUME SemInv, NEW s \in Sem, raw_semaphore_delete(s)
  PROVE  SemInv'
<1>1. /\ TaskInv /\ loop = NoLoop /\ WakeAll(s, "DEL") /\ UNCHANGED <<sys, call>>
      /\ k' = [k EXCEPT !.live = k.live \ {s}] /\ count' = count
  BY DEF SemInv, raw_semaphore_delete, TaskRuns, TaskAt
<1>2. /\ loop' \in Loop /\ LoopOK' /\ loop'.op = "wake" /\ loop'.obj = s
      /\ pc' \in [Task -> Place] /\ Ahead
  BY <1>1, WakeAllOK
<1>3. k.live \ {s} \in SUBSET Obj /\ k'.live = k.live \ {s}
  BY <1>1, InvFacts DEF KernelState
<1>4. TaskInv' /\ \A u \in Sem : NobodyWaits(u) => NobodyWaits(u)'
  BY <1>1, <1>2, <1>3, SemIsObj, ObjectStep
<1>5. CountOK' /\ TokenOrWaiters'
  BY <1>1, <1>3, <1>4 DEF SemInv, CountOK, TokenOrWaiters
<1>6. DeletedIsEmpty' /\ WakeOK'
  BY <1>1, <1>2, <1>3, <1>4, NoLoopOK DEF SemInv, DeletedIsEmpty, WakeOK
<1> QED
  BY <1>4, <1>5, <1>6 DEF SemInv

\* A step of a semaphore that leaves the tasks where they are.
LEMMA CountStep ==
  ASSUME SemInv, UNCHANGED <<k, sys, pc, call, loop>>, CountOK', TokenOrWaiters'
  PROVE  SemInv'
<1>1. TaskInv'
  BY TaskNextInv DEF SemInv, taskVars
<1>2. DeletedIsEmpty' /\ WakeOK'
  BY DEF SemInv, DeletedIsEmpty, WakeOK, NobodyWaits, WaitsFor
<1> QED
  BY <1>1, <1>2 DEF SemInv

LEMMA CountsInv ==
  ASSUME SemInv, NEW s \in Sem,
         \/ semaphore_put_count(s) \/ semaphore_take(s)
         \/ \E n \in SetCount : raw_semaphore_set(s, n)
  PROVE  SemInv'
<1>1. /\ UNCHANGED <<k, sys, pc, call, loop>> /\ s \in k.live
      /\ \E n \in 0 .. SemMax : count' = [count EXCEPT ![s] = n]
      /\ count[s] > 0 \/ Waiters(s) = <<>>
  BY SemAssumption DEF semaphore_put_count, semaphore_take, raw_semaphore_set, SemInv, CountOK
<1>2. NobodyWaits(s)
  BY <1>1, SemIsObj, EmptyList DEF SemInv, TokenOrWaiters
<1>3. CountOK'
  BY <1>1 DEF SemInv, CountOK
<1>4. TokenOrWaiters'
  BY <1>1, <1>2 DEF SemInv, CountOK, TokenOrWaiters, NobodyWaits, WaitsFor
<1> QED
  BY <1>1, <1>3, <1>4, CountStep

LEMMA raw_semaphore_putInv ==
  ASSUME SemInv, NEW s \in Sem, raw_semaphore_put(s)
  PROVE  SemInv'
<1>1. /\ Waiters(s) # <<>> /\ k' = wake_up(k, Head(Waiters(s)), "OK") /\ Resched
      /\ UNCHANGED <<sys, call, loop, count>>
  BY DEF raw_semaphore_put
<1>2. pc' \in [Task -> Place] /\ Ahead
  BY <1>1, ReschedOK DEF SemInv
<1>3. TaskInv' /\ Calm
  BY <1>1, <1>2, SemIsObj, WakeHead DEF SemInv, BlockState
<1> QED
  BY <1>1, <1>3, CalmStep DEF SemInv, WakeOK

LEMMA raw_semaphore_put_allInv ==
  ASSUME SemInv, NEW s \in Sem, raw_semaphore_put_all(s)
  PROVE  SemInv'
<1>1. /\ TaskInv /\ loop = NoLoop /\ WakeAll(s, "OK") /\ UNCHANGED <<k, sys, call, count>>
  BY DEF SemInv, raw_semaphore_put_all, Caller, TaskRuns, TaskAt, IsrRuns
<1>2. /\ loop' \in Loop /\ LoopOK' /\ loop'.op = "wake" /\ loop'.obj = s
      /\ pc' \in [Task -> Place] /\ Ahead
  BY <1>1, WakeAllOK
<1>3. SameStates(k, k') /\ call' \in [Task -> Call]
  BY <1>1, InvFacts, SameCompose
<1>4. TaskInv' /\ Calm
  BY <1>1, <1>2, <1>3, NoTaskMoves DEF Preserved
<1> QED
  BY <1>1, <1>2, <1>4, CalmStep, NoLoopOK DEF SemInv, WakeOK

LEMMA WakeInv ==
  ASSUME SemInv, WakeNext \/ WakeDone
  PROVE  SemInv'
<1>1. TaskInv /\ loop.op = "wake" /\ loop.obj \in Sem /\ loop \in Loop
  BY InvFacts DEF WakeNext, WakeDone, SemInv, WakeOK
<1>2. CASE WakeNext
  <2>1. /\ Waiters(loop.obj) # <<>> /\ k' = wake_up(k, Head(Waiters(loop.obj)), loop.status)
        /\ UNCHANGED <<sys, pc, call, loop, count>>
    BY <1>2 DEF WakeNext
  <2>2. loop.status \in BlockState /\ pc' \in [Task -> Place]
    BY <1>1, <2>1, InvFacts DEF Loop, BlockState
  <2>3. TaskInv' /\ Calm
    BY <1>1, <2>1, <2>2, SemIsObj, WakeHead
  <2> QED
    BY <2>1, <2>3, CalmStep DEF SemInv, WakeOK
<1>3. CASE WakeDone
  <2>1. /\ Waiters(loop.obj) = <<>> /\ loop' = NoLoop
        /\ UNCHANGED <<k, sys, pc, call, count>>
    BY <1>3 DEF WakeDone
  <2>2. NobodyWaits(loop.obj)
    BY <1>1, <2>1, SemIsObj, EmptyList
  <2>3. SameStates(k, k') /\ call' \in [Task -> Call] /\ pc' \in [Task -> Place]
    BY <1>1, <2>1, InvFacts, SameCompose
  <2>4. loop' \in Loop /\ loop'.op = "none" /\ LoopOK'
    BY <2>1, NoLoopOK DEF LoopOK
  <2>5. TaskInv' /\ Calm
    BY <1>1, <2>1, <2>3, <2>4, NoTaskMoves DEF Preserved
  <2> QED
    BY <2>1, <2>2, <2>4, <2>5, CalmStep DEF SemInv, WakeOK
<1> QED
  BY <1>2, <1>3

\* raw_semaphore_get blocks the caller on a semaphore without a token.
LEMMA raw_semaphore_getInv ==
  ASSUME SemInv, NEW s \in Sem, NEW timeout \in Timeouts, raw_semaphore_get(s, timeout)
  PROVE  SemInv'
<1>1. /\ TaskInv /\ TaskRuns /\ loop = NoLoop /\ loop' = loop
      /\ s \in k.live /\ count[s] = 0 /\ raw_sched_lock = 0 /\ Block(s)
      /\ k' = raw_pend_object(k, s, active, timeout) /\ UNCHANGED <<sys, count>>
  BY DEF SemInv, raw_semaphore_get, MayStop, TaskRuns, TaskAt
<1>2. active \in Task \ {Idle} /\ k.task_state[active] = "RDY" /\ s \in Obj /\ timeout \in Ticks
  BY <1>1, RunningIsReady, SemIsObj, TaskAssumption
<1>3. /\ Moves(k, k', active) /\ k'.task_state[active] \in Pending /\ k'.block_obj[active] = s
  BY <1>1, <1>2, InvFacts, raw_pend_objectMoves
<1>4. pc' \in [Task -> Place] /\ call' \in [Task -> Call] /\ Ahead
  BY <1>1, <1>2, InvFacts DEF Block, Place, Call, Ahead
<1>5. loop' \in Loop /\ LoopOK' /\ loop'.op = "none"
  BY <1>1, StepLoop, NoLoopOK
<1>6. TaskInv'
  BY <1>1, <1>2, <1>3, <1>4, <1>5, OneTaskStep DEF Preserved
<1>7. k'.live = k.live /\ \A u \in Sem \ {s} : NobodyWaits(u) => NobodyWaits(u)'
  BY <1>2, <1>3 DEF Moves, OneMoves, NobodyWaits, WaitsFor
<1>8. CountOK' /\ TokenOrWaiters'
  BY <1>1, <1>7 DEF SemInv, CountOK, TokenOrWaiters
<1>9. DeletedIsEmpty' /\ WakeOK'
  BY <1>1, <1>5, <1>7 DEF SemInv, DeletedIsEmpty, WakeOK
<1> QED
  BY <1>6, <1>8, <1>9 DEF SemInv

-----------------------------------------------------------------------------
(* The invariant of the semaphores.                                         *)

LEMMA SemInitInv == SemInit => SemInv
<1> SUFFICES ASSUME SemInit PROVE SemInv
  OBVIOUS
<1>2. TaskInv /\ loop = NoLoop /\ k.task_state = [t \in Task |-> IF t = Idle THEN "RDY" ELSE "DELETED"]
  BY TaskInitInv DEF SemInit, TaskInit, InitKernel
<1>3. \A s \in Sem : NobodyWaits(s)
  BY <1>2 DEF NobodyWaits, WaitsFor, Pending
<1>4. CountOK /\ WakeOK
  BY <1>2, SemAssumption, NoLoopOK DEF SemInit, CountOK, WakeOK
<1> QED
  BY <1>2, <1>3, <1>4 DEF SemInv, TokenOrWaiters, DeletedIsEmpty

LEMMA SemNextInv == SemInv /\ [SemNext]_semVars => SemInv'
<1>1. CASE SemInv /\ UNCHANGED semVars
  <2>1. SemInv /\ UNCHANGED <<k, sys, pc, call, loop>> /\ count' = count
    BY <1>1 DEF semVars
  <2>2. CountOK' /\ TokenOrWaiters'
    BY <2>1 DEF SemInv, CountOK, TokenOrWaiters, NobodyWaits, WaitsFor
  <2> QED
    BY <2>1, <2>2, CountStep
<1>2. ASSUME SemInv, NEW s \in Sem, SemOp(s) PROVE SemInv'
  <2>1. ASSUME NEW n \in InitCount, raw_semaphore_create(s, n) PROVE SemInv'
    BY <1>2, <2>1, raw_semaphore_createInv
  <2>2. ASSUME NEW timeout \in Timeouts, raw_semaphore_get(s, timeout) PROVE SemInv'
    BY <1>2, <2>2, raw_semaphore_getInv
  <2> QED
    BY <1>2, <2>1, <2>2, CountsInv, raw_semaphore_putInv, raw_semaphore_put_allInv,
       raw_semaphore_deleteInv DEF SemOp
<1> QED
  BY <1>1, <1>2, TaskStepInv, WakeInv DEF SemNext

LEMMA SemInvariant == SemSpec => []SemInv
BY SemInitInv, SemNextInv, PTL DEF SemSpec

\* With semaphores created, deleted and used in any order, the lists of the
\* kernel still hold the blocks that task_state and block_obj say, once each.
THEOREM SemListsCorrect == SemSpec => []ListsOK
<1>1. SemInv => ListsOK
  BY DEF SemInv, TaskInv, Consistent, ListsOK
<1> QED
  BY <1>1, SemInvariant, PTL

\* No task waits for a token that is there, and the count stays in its range.
THEOREM NoTokenLost == SemSpec => [](CountOK /\ TokenOrWaiters)
<1>1. SemInv => CountOK /\ TokenOrWaiters
  BY DEF SemInv
<1> QED
  BY <1>1, SemInvariant, PTL

\* A deleted semaphore keeps no waiter, so it may be created again.
THEOREM DeletedHasNoWaiters == SemSpec => []DeletedIsEmpty
<1>1. SemInv => DeletedIsEmpty
  BY DEF SemInv
<1> QED
  BY <1>1, SemInvariant, PTL

-----------------------------------------------------------------------------
(* A suspended waiter.                                                      *)

LEMMA SemNextSuspension ==
  ASSUME SemInv, SemNext
  PROVE  OnlyResumed
<1>1. TaskInv
  BY DEF SemInv
<1>2. CASE TaskStep
  BY <1>1, <1>2, TaskNextSuspension DEF TaskStep
<1>3. ASSUME NEW s \in Sem,
             \/ semaphore_put_count(s) \/ semaphore_take(s) \/ raw_semaphore_put_all(s)
             \/ raw_semaphore_delete(s)
             \/ (\E n \in InitCount : raw_semaphore_create(s, n))
             \/ (\E n \in SetCount : raw_semaphore_set(s, n))
      PROVE  OnlyResumed
  <2>1. k' = k \/ (\E L : k' = [k EXCEPT !.live = L])
               \/ (\E B, L : k' = [k EXCEPT !.block_list = B, !.live = L])
    BY <1>3 DEF semaphore_put_count, semaphore_take, raw_semaphore_put_all,
                raw_semaphore_delete, raw_semaphore_create, raw_semaphore_set
  <2>2. k'.task_state = k.task_state
    BY <1>1, <2>1, InvFacts DEF KernelState
  <2> QED
    BY <2>2 DEF OnlyResumed
<1>4. ASSUME NEW s \in Sem, raw_semaphore_put(s)
      PROVE  OnlyResumed
  <2>1. /\ Waiters(s) # <<>> /\ k' = wake_up(k, Head(Waiters(s)), "OK") /\ Resched
        /\ UNCHANGED <<sys, call, loop>>
    BY <1>4 DEF raw_semaphore_put
  <2>2. pc' \in [Task -> Place] /\ Ahead
    BY <1>1, <2>1, ReschedOK
  <2> QED
    BY <1>1, <2>1, <2>2, SemIsObj, WakeHead DEF BlockState, StaysSuspended, OnlyResumed
<1>5. CASE WakeNext
  <2>1. /\ Waiters(loop.obj) # <<>> /\ k' = wake_up(k, Head(Waiters(loop.obj)), loop.status)
        /\ UNCHANGED <<sys, pc, call, loop>> /\ loop.obj \in Sem
    BY <1>5 DEF WakeNext, SemInv, WakeOK
  <2>2. loop.status \in BlockState /\ pc' \in [Task -> Place]
    BY <1>1, <2>1, InvFacts DEF Loop, BlockState
  <2> QED
    BY <1>1, <2>1, <2>2, SemIsObj, WakeHead DEF StaysSuspended, OnlyResumed
<1>6. CASE WakeDone
  BY <1>6 DEF WakeDone, OnlyResumed
<1>7. ASSUME NEW s \in Sem, NEW timeout \in Timeouts, raw_semaphore_get(s, timeout)
      PROVE  OnlyResumed
  <2>1. k' = raw_pend_object(k, s, active, timeout) /\ TaskRuns
    BY <1>7 DEF raw_semaphore_get
  <2>2. active \in Task \ {Idle} /\ k.task_state[active] = "RDY" /\ s \in Obj /\ timeout \in Ticks
    BY <1>1, <2>1, RunningIsReady, SemIsObj, TaskAssumption
  <2>3. Moves(k, k', active)
    BY <1>1, <2>1, <2>2, InvFacts, raw_pend_objectMoves
  <2> QED
    BY <2>2, <2>3 DEF Moves, OneMoves, OnlyResumed, Suspended
<1> QED
  BY <1>2, <1>3, <1>4, <1>5, <1>6, <1>7 DEF SemNext, SemOp

\* A token, a timeout or the deletion of the semaphore ends the wait of a suspended
\* task and leaves it suspended, whether one waiter is woken or all of them.
THEOREM SuspensionCorrect == SemSpec => SuspensionHolds
<1>1. ASSUME SemInv, [SemNext]_semVars PROVE [OnlyResumed]_taskVars
  <2>1. CASE SemNext
    BY <1>1, <2>1, SemNextSuspension
  <2>2. CASE UNCHANGED semVars
    BY <2>2 DEF semVars, taskVars
  <2> QED
    BY <1>1, <2>1, <2>2
<1> QED
  BY <1>1, SemInvariant, PTL DEF SemSpec, SuspensionHolds, OnlyResumed

-----------------------------------------------------------------------------
(* RawSem implements AbsSem: every step of the kernel is a step of the      *)
(* abstract semaphores or leaves them alone.                                *)

Outside == [on |-> "none", outcome |-> "none"]
WaitOn(s, outcome) == [on |-> s, outcome |-> outcome]

\* The abstract wait of a task, case by case.
LEMMA WaitCases ==
  ASSUME NEW t \in Task
  PROVE  /\ call[t] \notin Sem \/ k.task_state[t] = "DELETED" => waitOf(t) = Outside
         /\ call[t] \in Sem /\ k.task_state[t] \in Pending
              => waitOf(t) = WaitOn(call[t], "waiting")
         /\ call[t] \in Sem /\ k.task_state[t] \notin Pending \cup {"DELETED"}
              => waitOf(t) = WaitOn(call[t], IF k.block_status[t] = "OK" THEN "granted" ELSE "refused")
BY DEF waitOf, Outside, WaitOn, Pending

LEMMA WaitsOf ==
  ASSUME TaskInv, CallInv, NEW s \in Sem
  PROVE  /\ \A t \in Task : waitOf(t) = WaitOn(s, "waiting") <=> WaitsFor(t, s)
         /\ Abs!Waiting(s) = {} <=> NobodyWaits(s)
<1>1. ASSUME NEW t \in Task
      PROVE  waitOf(t) = WaitOn(s, "waiting") <=> WaitsFor(t, s)
  <2>1. k.task_state[t] \in Pending => call[t] = k.block_obj[t] /\ k.task_state[t] # "DELETED"
    BY DEF CallInv, CallOK, Pending
  <2> QED
    BY <2>1 DEF waitOf, WaitOn, WaitsFor
<1>2. Abs!Waiting(s) = {t \in Task : waitOf(t) = WaitOn(s, "waiting")}
  BY DEF Abs!Waiting, WaitOn
<1> QED
  BY <1>1, <1>2 DEF NobodyWaits

\* How the wait of one task may change in a step that leaves the semaphores alone.
OneWait(t) ==
  \/ waitOf(t)' = waitOf(t)
  \/ waitOf(t)' = Outside
  \/ \E s \in Sem : waitOf(t) = WaitOn(s, "waiting") /\ waitOf(t)' = WaitOn(s, "refused")
  \/ \E s \in Sem \cap k.live :
       waitOf(t) = WaitOn(s, "waiting") /\ waitOf(t)' = WaitOn(s, "granted")

LEMMA WaitStep ==
  ASSUME k'.live = k.live, count' = count, NEW t \in Task, OneWait(t),
         \A u \in Task \ {t} : waitOf(u)' = waitOf(u)
  PROVE  [Abs!Next]_Abs!vars
<1> DEFINE W == [u \in Task |-> waitOf(u)]
           tokens == [s \in Sem |-> IF s \in k.live THEN count[s] ELSE 0]
<1>1. (k.live \cap Sem)' = k.live \cap Sem /\ tokens' = tokens
  OBVIOUS
<1>2. W' = [W EXCEPT ![t] = waitOf(t)']
  OBVIOUS
<1>3. W[t] = waitOf(t)
  OBVIOUS
<1> HIDE DEF W, tokens
<1>4. CASE waitOf(t)' = waitOf(t)
  <2>1. W' = W
    BY <1>2, <1>3, <1>4 DEF W
  <2> QED
    BY <1>1, <2>1 DEF Abs!vars, W, tokens
<1>5. CASE waitOf(t)' = Outside /\ waitOf(t) # Outside
  <2>1. Abs!Leave(t)
    BY <1>1, <1>2, <1>3, <1>5 DEF Abs!Leave, Abs!Outside, Outside, W, tokens
  <2> QED
    BY <2>1 DEF Abs!Next
<1>6. ASSUME NEW s \in Sem, waitOf(t) = WaitOn(s, "waiting"), waitOf(t)' = WaitOn(s, "refused")
      PROVE  Abs!Next
  <2>1. [W EXCEPT ![t].outcome = "refused"] = [W EXCEPT ![t] = WaitOn(s, "refused")]
    <3>1. [W[t] EXCEPT !.outcome = "refused"] = WaitOn(s, "refused")
      BY <1>3, <1>6 DEF WaitOn
    <3> QED
      BY <3>1
  <2>2. W[t].outcome = "waiting"
    BY <1>3, <1>6 DEF WaitOn
  <2>3. Abs!Refuse(t)
    BY <1>1, <1>2, <1>6, <2>1, <2>2 DEF Abs!Refuse, W, tokens
  <2> QED
    BY <2>3 DEF Abs!Next
<1>7. ASSUME NEW s \in Sem \cap k.live,
             waitOf(t) = WaitOn(s, "waiting"), waitOf(t)' = WaitOn(s, "granted")
      PROVE  Abs!Next
  <2>1. [W EXCEPT ![t].outcome = "granted"] = [W EXCEPT ![t] = WaitOn(s, "granted")]
    <3>1. [W[t] EXCEPT !.outcome = "granted"] = WaitOn(s, "granted")
      BY <1>3, <1>7 DEF WaitOn
    <3> QED
      BY <3>1
  <2>2. W[t].outcome = "waiting" /\ W[t].on \in k.live \cap Sem
    BY <1>3, <1>7 DEF WaitOn
  <2>3. Abs!Grant(t)
    BY <1>1, <1>2, <1>7, <2>1, <2>2 DEF Abs!Grant, W, tokens
  <2> QED
    BY <2>3 DEF Abs!Next
<1> QED
  BY <1>4, <1>5, <1>6, <1>7 DEF OneWait

-----------------------------------------------------------------------------
(* The steps of the tasks.                                                  *)

\* A task whose state and reason stay keeps its abstract wait.
LEMMA SameWait ==
  ASSUME TaskInv, CallInv, TaskNext, ~ block_state_post_process, NEW u \in Task,
         k'.task_state[u] = k.task_state[u], k'.block_status[u] = k.block_status[u]
  PROVE  waitOf(u)' = waitOf(u)
<1>1. "none" \notin Sem /\ "sleep" \notin Sem
  BY TaskAssumption, SemAssumption
<1>2. CASE call'[u] = call[u] \/ k.task_state[u] = "DELETED"
  BY <1>2 DEF waitOf
<1>3. CASE pc[u] = "run" /\ k.task_state[u] # "DELETED" /\ call'[u] = "sleep"
  <2>1. call[u] = "none"
    BY <1>3 DEF CallInv, CallOK
  <2> QED
    BY <1>1, <1>3, <2>1 DEF waitOf
<1> QED
  BY <1>2, <1>3, CallStep

\* The task that a step moves leaves its wait refused or not at all.
LEMMA MovedWait ==
  ASSUME TaskInv, CallInv, TaskNext, ~ block_state_post_process, NEW u \in Task
  PROVE  OneWait(u)
<1>1. StartsNoWait(u) /\ Informed(u)
  BY TaskNextCalm, TaskNextTold DEF Calm, Told
<1>2. "none" \notin Sem /\ "sleep" \notin Sem /\ Sem \cap Mutex = {}
  BY TaskAssumption, SemAssumption
<1>3. CASE k'.task_state[u] = "DELETED"
  BY <1>3 DEF OneWait, waitOf, Outside
<1>4. CASE k.task_state[u] = "DELETED" /\ k'.task_state[u] # "DELETED"
  BY <1>1, <1>2, <1>4 DEF Informed, OneWait, waitOf, Outside
<1>5. CASE /\ k.task_state[u] # "DELETED" /\ k'.task_state[u] # "DELETED"
           /\ call'[u] = call[u] /\ call[u] \in Sem
  <2>1. CallOK(u)
    BY <1>5 DEF CallInv
  <2>2. CASE k.task_state[u] \in Pending /\ k'.task_state[u] \in Pending
    BY <1>5, <2>2 DEF OneWait, waitOf
  <2>3. CASE k.task_state[u] \in Pending /\ k'.task_state[u] \notin Pending
    <3>1. k'.block_status[u] \in {"ABORT", "TIMEOUT"}
      BY <1>1, <1>2, <1>5, <2>1, <2>3 DEF Informed, Outcome, CallOK
    <3>2. waitOf(u) = WaitOn(call[u], "waiting") /\ waitOf(u)' = WaitOn(call[u], "refused")
      BY <1>5, <2>3, <3>1 DEF waitOf, WaitOn
    <3> QED
      BY <1>5, <3>2 DEF OneWait
  <2>4. CASE k.task_state[u] \notin Pending
    <3>1. k.task_state[u] \notin Away
      BY <1>2, <1>5, <2>1, <2>4 DEF CallOK, Away
    <3>2. k'.task_state[u] \notin Pending /\ k'.block_status[u] = k.block_status[u]
      BY <1>1, <1>5, <2>4, <3>1 DEF Informed, StartsNoWait
    <3> QED
      BY <1>5, <2>4, <3>2 DEF OneWait, waitOf
  <2> QED
    BY <2>2, <2>3, <2>4
<1>6. CASE k.task_state[u] # "DELETED" /\ call'[u] = call[u] /\ call[u] \notin Sem
  BY <1>6 DEF OneWait, waitOf, Outside
<1>7. CASE k.task_state[u] # "DELETED" /\ call'[u] = "sleep"
  BY <1>2, <1>7 DEF OneWait, waitOf, Outside
<1> QED
  BY <1>3, <1>4, <1>5, <1>6, <1>7, CallStep

LEMMA TaskStepAbs ==
  ASSUME TaskInv, CallInv, TaskStep
  PROVE  [Abs!Next]_Abs!vars
<1>1. TaskNext /\ count' = count /\ k'.live = k.live
  BY TaskNextCalm DEF TaskStep, Calm
<1>2. CASE block_state_post_process
  <2>1. active \in Task /\ "none" \notin Sem
    BY InvFacts, TaskAssumption, SemAssumption
  <2>2. OneWait(active)
    BY <1>2, <2>1, PostProcess DEF OneWait, waitOf, Outside
  <2>3. \A u \in Task \ {active} : waitOf(u)' = waitOf(u)
    BY <1>2, PostProcess DEF waitOf
  <2> QED
    BY <1>1, <2>1, <2>2, <2>3, WaitStep
<1>3. CASE ~ block_state_post_process
  <2>1. PICK t \in Task : \A u \in Task \ {t} : /\ k'.task_state[u] = k.task_state[u]
                                               /\ k'.block_status[u] = k.block_status[u]
    BY <1>1, <1>3, TaskNextTold DEF Told, OneTask
  <2>2. \A u \in Task \ {t} : waitOf(u)' = waitOf(u)
    BY <1>1, <1>3, <2>1, SameWait
  <2>3. OneWait(t)
    BY <1>1, <1>3, MovedWait
  <2> QED
    BY <1>1, <2>2, <2>3, WaitStep
<1> QED
  BY <1>2, <1>3

-----------------------------------------------------------------------------
(* The operations of the semaphores.                                        *)

\* The head of a list of waiters leaves its wait with the reason it is given.
LEMMA WakeHeadAbs ==
  ASSUME SemInv, CallInv, NEW s \in Sem, Waiters(s) # <<>>, NEW status \in {"OK", "DEL"},
         status = "OK" => s \in k.live,
         k' = wake_up(k, Head(Waiters(s)), status),
         UNCHANGED <<sys, call, loop, count>>, pc' = pc \/ (Caller /\ Resched)
  PROVE  CallInv' /\ [Abs!Next]_Abs!vars
<1>1. PICK t \in Task : /\ t = Head(Waiters(s))
                          /\ k.task_state[t] \in Pending /\ k.block_obj[t] = s
  <2>1. Waiters(s) \in Seq(Task)
    BY InvFacts, SemIsObj DEF KernelState, Waiters, SemInv
  <2>2. PICK t \in Task : t = Head(Waiters(s)) /\ In(t, Waiters(s))
    BY <2>1 DEF In
  <2> QED
    BY <2>2, InvFacts, SemIsObj DEF Consistent, LinkedAs, Waiters, SemInv
<1>2. k' = wake_up(k, t, status)
  BY <1>1
<1>3. /\ Moves(k, k', t) /\ k'.task_state[t] \in Awake /\ k'.block_status[t] = status
  BY <1>1, <1>2, InvFacts, wake_upMoves DEF SemInv, BlockState
<1>4. CallInv'
  BY <1>1, <1>3, WokenCall DEF SemInv, Moves
<1>5. call[t] = s
  BY <1>1 DEF CallInv, CallOK, Pending
<1>6. /\ waitOf(t) = WaitOn(s, "waiting")
      /\ status = "OK" => waitOf(t)' = WaitOn(s, "granted")
      /\ status = "DEL" => waitOf(t)' = WaitOn(s, "refused")
  <2>1. call'[t] = s /\ k.task_state[t] # "DELETED"
        /\ k'.task_state[t] \notin Pending \cup {"DELETED"}
    BY <1>1, <1>3, <1>5 DEF Awake, Pending
  <2>2. k'.block_status[t] = status
    BY <1>3
  <2>3. waitOf(t) = WaitOn(s, "waiting")
    BY <1>1, <1>5, <2>1 DEF waitOf, WaitOn
  <2>4. status = "OK" => waitOf(t)' = WaitOn(s, "granted")
    BY <2>1, <2>2 DEF waitOf, WaitOn
  <2>5. status = "DEL" => waitOf(t)' = WaitOn(s, "refused")
    BY <2>1, <2>2 DEF waitOf, WaitOn
  <2> QED
    BY <2>3, <2>4, <2>5
<1>7. OneWait(t)
  BY <1>6 DEF OneWait
<1>8. \A u \in Task \ {t} : waitOf(u)' = waitOf(u)
  BY <1>3 DEF Moves, OneMoves, waitOf
<1>9. k'.live = k.live
  BY <1>3 DEF Moves, OneMoves
<1> QED
  BY <1>1, <1>4, <1>7, <1>8, <1>9, WaitStep

\* A step that leaves the tasks where they are.
LEMMA StillCall ==
  ASSUME TaskInv, CallInv, UNCHANGED call,
         k'.task_state = k.task_state, k'.block_obj = k.block_obj,
         k'.block_status = k.block_status,
         pc' = pc \/ (Caller /\ Resched)
  PROVE  /\ \A t \in Task : k'.task_state[t] # "DELETED" => CallOK(t)'
         /\ \A t \in Task : waitOf(t)' = waitOf(t)
BY CallStays DEF waitOf

LEMMA CountsAbs ==
  ASSUME SemInv, CallInv, NEW s \in Sem,
         \/ semaphore_put_count(s) \/ semaphore_take(s)
         \/ \E n \in SetCount : raw_semaphore_set(s, n)
  PROVE  CallInv' /\ [Abs!Next]_Abs!vars
<1> DEFINE W == [u \in Task |-> waitOf(u)]
           tokens == [u \in Sem |-> IF u \in k.live THEN count[u] ELSE 0]
<1>1. UNCHANGED <<k, sys, pc, call, loop>> /\ s \in k.live
  BY DEF semaphore_put_count, semaphore_take, raw_semaphore_set
<1>2. CallInv'
  BY <1>1 DEF CallInv, CallOK, FreeAt, WakeLive, sys, active
<1>3. W' = W /\ (k.live \cap Sem)' = k.live \cap Sem
  BY <1>1 DEF waitOf
<1>4. \A n : count' = [count EXCEPT ![s] = n] => tokens' = [tokens EXCEPT ![s] = n]
  BY <1>1 DEF SemInv, CountOK
<1>5. tokens[s] = count[s]
  BY <1>1
<1>6. NobodyWaits(s) <=> Abs!Waiting(s) = {}
  BY WaitsOf DEF SemInv
<1>7. Waiters(s) = <<>> <=> NobodyWaits(s)
  BY SemIsObj, EmptyList DEF SemInv
<1>8. count[s] \in 0 .. SemMax
  BY DEF SemInv, CountOK
<1> HIDE DEF W, tokens
<1>9. CASE semaphore_put_count(s)
  <2>1. tokens' = [tokens EXCEPT ![s] = tokens[s] + 1] /\ tokens[s] < SemMax
    BY <1>4, <1>5, <1>9 DEF semaphore_put_count
  <2>2. Abs!Put(s)
    BY <1>1, <1>3, <1>6, <1>7, <1>9, <2>1 DEF Abs!Put, semaphore_put_count, W, tokens
  <2> QED
    BY <1>2, <2>2 DEF Abs!Next
<1>10. CASE semaphore_take(s)
  <2>1. tokens' = [tokens EXCEPT ![s] = tokens[s] - 1] /\ tokens[s] > 0
    BY <1>4, <1>5, <1>10 DEF semaphore_take
  <2>2. Abs!Take(s)
    BY <1>1, <1>3, <2>1 DEF Abs!Take, W, tokens
  <2> QED
    BY <1>2, <2>2 DEF Abs!Next
<1>11. ASSUME NEW n \in SetCount, raw_semaphore_set(s, n)
       PROVE  CallInv' /\ [Abs!Next]_Abs!vars
  <2>1. tokens' = [tokens EXCEPT ![s] = n] /\ n \in 0 .. SemMax
    BY <1>4, <1>11, SemAssumption DEF raw_semaphore_set
  <2>2. NobodyWaits(s)
    BY <1>1, <1>7, <1>11 DEF raw_semaphore_set, SemInv, TokenOrWaiters
  <2>3. Abs!Set(s, n)
    BY <1>1, <1>3, <1>6, <2>1, <2>2 DEF Abs!Set, W, tokens
  <2> QED
    BY <1>2, <2>1, <2>3 DEF Abs!Next
<1> QED
  BY <1>9, <1>10, <1>11

LEMMA raw_semaphore_createAbs ==
  ASSUME SemInv, CallInv, NEW s \in Sem, NEW n \in InitCount, raw_semaphore_create(s, n)
  PROVE  CallInv' /\ Abs!Next
<1> DEFINE W == [u \in Task |-> waitOf(u)]
           tokens == [u \in Sem |-> IF u \in k.live THEN count[u] ELSE 0]
<1>1. /\ TaskInv /\ loop = NoLoop /\ loop' = loop /\ s \notin k.live
      /\ UNCHANGED <<sys, pc, call>>
      /\ k' = [k EXCEPT !.block_list[s] = <<>>, !.live = @ \cup {s}]
      /\ count' = [count EXCEPT ![s] = n]
  BY DEF SemInv, raw_semaphore_create, Boot, Caller, TaskRuns, TaskAt, IsrRuns
<1>2. /\ k'.live = k.live \cup {s}
      /\ k'.task_state = k.task_state /\ k'.block_obj = k.block_obj
      /\ k'.block_status = k.block_status /\ k'.raw_task_active = k.raw_task_active
  BY <1>1, InvFacts DEF KernelState
<1>3. CallInv'
  <2>1. pc' = pc /\ call' = call
    BY <1>1
  <2>2. \A t \in Task : k'.task_state[t] # "DELETED" => CallOK(t)'
    BY <1>1, <1>2, <2>1, StillCall
  <2> QED
    BY <1>1, <2>2, NoLoopOK DEF CallInv, FreeAt, WakeLive
<1>4. W' = W
  <2>1. pc' = pc /\ call' = call
    BY <1>1
  <2> QED
    BY <1>1, <1>2, <2>1, StillCall
<1>5. (k.live \cap Sem)' = (k.live \cap Sem) \cup {s}
  BY <1>2
<1>6. tokens' = [tokens EXCEPT ![s] = n]
  BY <1>1, <1>2 DEF SemInv, CountOK
<1>7. Abs!Waiting(s) = {}
  BY <1>1, WaitsOf, NoLoopOK DEF SemInv, DeletedIsEmpty
<1> HIDE DEF W, tokens
<1>8. Abs!Create(s, n)
  BY <1>1, <1>4, <1>5, <1>6, <1>7 DEF Abs!Create, W, tokens
<1>9. n \in 0 .. SemMax
  BY SemAssumption
<1> QED
  BY <1>3, <1>8, <1>9 DEF Abs!Next

LEMMA raw_semaphore_deleteAbs ==
  ASSUME SemInv, CallInv, NEW s \in Sem, raw_semaphore_delete(s)
  PROVE  CallInv' /\ Abs!Next
<1> DEFINE W == [u \in Task |-> waitOf(u)]
           tokens == [u \in Sem |-> IF u \in k.live THEN count[u] ELSE 0]
<1>1. /\ TaskInv /\ WakeAll(s, "DEL") /\ s \in k.live
      /\ UNCHANGED <<sys, call>> /\ Caller
      /\ k' = [k EXCEPT !.live = @ \ {s}] /\ count' = count
  BY DEF SemInv, raw_semaphore_delete, Caller
<1>2. /\ k'.live = k.live \ {s}
      /\ k'.task_state = k.task_state /\ k'.block_obj = k.block_obj
      /\ k'.block_status = k.block_status /\ k'.raw_task_active = k.raw_task_active
  BY <1>1, InvFacts DEF KernelState
<1>3. CallInv'
  BY <1>1, <1>2, StillCall DEF CallInv, FreeAt, WakeLive, WakeAll, NoLoop
<1>4. W' = W
  BY <1>1, <1>2, StillCall DEF WakeAll
<1>5. (k.live \cap Sem)' = (k.live \cap Sem) \ {s}
  BY <1>2
<1>6. tokens' = [tokens EXCEPT ![s] = 0]
  BY <1>1, <1>2 DEF SemInv, CountOK
<1> HIDE DEF W, tokens
<1>7. Abs!Delete(s)
  BY <1>1, <1>4, <1>5, <1>6 DEF Abs!Delete, W, tokens
<1> QED
  BY <1>3, <1>7 DEF Abs!Next

LEMMA raw_semaphore_getAbs ==
  ASSUME SemInv, CallInv, NEW s \in Sem, NEW timeout \in Timeouts, raw_semaphore_get(s, timeout)
  PROVE  CallInv' /\ Abs!Next
<1> DEFINE W == [u \in Task |-> waitOf(u)]
           tokens == [u \in Sem |-> IF u \in k.live THEN count[u] ELSE 0]
<1>1. /\ TaskInv /\ TaskRuns /\ loop = NoLoop /\ pc[active] = "run"
      /\ s \in k.live /\ count[s] = 0 /\ Block(s)
      /\ k' = raw_pend_object(k, s, active, timeout) /\ UNCHANGED <<sys, loop, count>>
  BY DEF SemInv, raw_semaphore_get, TaskRuns, TaskAt
<1>2. active \in Task \ {Idle} /\ k.task_state[active] = "RDY" /\ s \in Obj /\ timeout \in Ticks
  BY <1>1, RunningIsReady, SemIsObj, TaskAssumption
<1>3. /\ Moves(k, k', active) /\ k'.task_state[active] \in Pending /\ k'.block_obj[active] = s
  BY <1>1, <1>2, InvFacts, raw_pend_objectMoves
<1>4. /\ pc' = [pc EXCEPT ![active] = "blocking"] /\ call' = [call EXCEPT ![active] = s]
      /\ k'.live = k.live /\ active' = active
  BY <1>1, <1>3 DEF Block, Moves, OneMoves, active
<1>5. CallInv'
  <2>1. ASSUME NEW u \in Task, k'.task_state[u] # "DELETED"
        PROVE  CallOK(u)'
    <3>1. CASE u = active
      <4>1. pc'[u] = "blocking" /\ call'[u] = s
        BY <1>1, <1>2, <1>4, <3>1, InvFacts
      <4>2. k'.task_state[u] \in Pending /\ k'.block_obj[u] = s
        BY <1>3, <3>1
      <4> QED
        BY <4>1, <4>2 DEF CallOK
    <3>2. CASE u # active
      BY <1>3, <1>4, <2>1, <3>2, InvFacts DEF CallInv, CallOK, Moves, OneMoves
    <3> QED
      BY <3>1, <3>2
  <2> QED
    BY <1>1, <2>1, NoLoopOK DEF CallInv, FreeAt, WakeLive, NoLoop
<1>6. waitOf(active) = Outside
  <2>1. call[active] = "none"
    BY <1>1, <1>2 DEF CallInv, CallOK
  <2> QED
    BY <2>1, TaskAssumption, SemAssumption DEF waitOf, Outside
<1>7. waitOf(active)' = WaitOn(s, "waiting")
  <2>1. call'[active] = s
    BY <1>1, <1>2, <1>4, InvFacts
  <2> QED
    BY <1>3, <1>4, <2>1 DEF waitOf, WaitOn, Pending
<1>8. \A u \in Task \ {active} : waitOf(u)' = waitOf(u)
  BY <1>3, <1>4, InvFacts DEF Moves, OneMoves, waitOf
<1>9. W' = [W EXCEPT ![active] = WaitOn(s, "waiting")] /\ W[active] = Outside
  BY <1>2, <1>4, <1>6, <1>7, <1>8
<1>10. (k.live \cap Sem)' = k.live \cap Sem /\ tokens' = tokens /\ tokens[s] = 0
  BY <1>1, <1>4
<1> HIDE DEF W, tokens
<1>11. Abs!Begin(active, s)
  BY <1>1, <1>9, <1>10 DEF Abs!Begin, Abs!Outside, Outside, WaitOn, W, tokens
<1> QED
  BY <1>2, <1>5, <1>11 DEF Abs!Next

LEMMA raw_semaphore_put_allAbs ==
  ASSUME SemInv, CallInv, NEW s \in Sem, raw_semaphore_put_all(s)
  PROVE  CallInv' /\ UNCHANGED Abs!vars
<1>1. /\ TaskInv /\ WakeAll(s, "OK") /\ UNCHANGED <<k, sys, call, count>>
      /\ Caller /\ s \in k.live
  BY DEF SemInv, raw_semaphore_put_all
<1>2. \A t \in Task : CallOK(t)' \/ k'.task_state[t] = "DELETED"
  BY <1>1, StillCall DEF WakeAll
<1>3. CallInv'
  BY <1>1, <1>2 DEF CallInv, FreeAt, WakeLive, WakeAll, NoLoop
<1> QED
  BY <1>1, <1>3 DEF Abs!vars, waitOf

LEMMA WakeAbs ==
  ASSUME SemInv, CallInv, WakeNext \/ WakeDone
  PROVE  CallInv' /\ [Abs!Next]_Abs!vars
<1>1. loop.op = "wake" /\ loop.obj \in Sem /\ loop.status \in {"OK", "DEL"}
  BY InvFacts DEF WakeNext, WakeDone, SemInv, WakeOK, Loop
<1>2. CASE WakeNext
  <2>1. /\ Waiters(loop.obj) # <<>> /\ k' = wake_up(k, Head(Waiters(loop.obj)), loop.status)
        /\ UNCHANGED <<sys, pc, call, loop, count>> /\ pc' = pc
    BY <1>2 DEF WakeNext
  <2>2. loop.status = "OK" => loop.obj \in k.live
    BY <1>1 DEF CallInv, WakeLive
  <2>3. UNCHANGED <<sys, call, loop, count>>
    BY <2>1
  <2> QED
    BY <1>1, <2>1, <2>2, <2>3, WakeHeadAbs
<1>3. CASE WakeDone
  <2>1. UNCHANGED <<k, sys, pc, call, count>> /\ loop' = NoLoop
    BY <1>3 DEF WakeDone
  <2>2. CallInv'
    BY <2>1 DEF CallInv, CallOK, FreeAt, WakeLive, NoLoop
  <2> QED
    BY <2>1, <2>2 DEF Abs!vars, waitOf
<1> QED
  BY <1>2, <1>3

-----------------------------------------------------------------------------
LEMMA SemInitAbs == SemInit => CallInv /\ Abs!Init
<1> SUFFICES ASSUME SemInit PROVE CallInv /\ Abs!Init
  OBVIOUS
<1>1. /\ pc = [t \in Task |-> "run"] /\ call = [t \in Task |-> "none"] /\ loop = NoLoop
      /\ count = [s \in Sem |-> 0] /\ k.live = {}
      /\ k.task_state = [t \in Task |-> IF t = Idle THEN "RDY" ELSE "DELETED"]
  BY DEF SemInit, TaskInit, InitKernel
<1>2. CallInv
  BY <1>1 DEF CallInv, CallOK, FreeAt, WakeLive, NoLoop, Pending, Timed
<1>3. "none" \notin Sem
  BY TaskAssumption, SemAssumption
<1>4. Abs!Init
  BY <1>1, <1>3 DEF Abs!Init, Abs!Outside, waitOf
<1> QED
  BY <1>2, <1>4

LEMMA SemNextAbs == SemInv /\ CallInv /\ [SemNext]_semVars => CallInv' /\ [Abs!Next]_Abs!vars
<1>1. ASSUME SemInv, CallInv, UNCHANGED semVars PROVE CallInv' /\ UNCHANGED Abs!vars
  <2>1. UNCHANGED <<k, sys, pc, call, loop, count>>
    BY <1>1 DEF semVars
  <2> QED
    BY <1>1, <2>1 DEF CallInv, CallOK, FreeAt, WakeLive, sys, active, Abs!vars, waitOf
<1>2. ASSUME SemInv, CallInv, TaskStep PROVE CallInv' /\ [Abs!Next]_Abs!vars
  BY <1>2, TaskStepCall, TaskStepAbs DEF TaskStep, SemInv
<1>3. ASSUME SemInv, CallInv, NEW s \in Sem, SemOp(s) PROVE CallInv' /\ [Abs!Next]_Abs!vars
  <2>1. CASE raw_semaphore_put(s)
    BY <1>3, <2>1, WakeHeadAbs DEF raw_semaphore_put
  <2>2. ASSUME NEW n \in InitCount, raw_semaphore_create(s, n)
        PROVE  CallInv' /\ Abs!Next
    BY <1>3, <2>2, raw_semaphore_createAbs
  <2>3. ASSUME NEW timeout \in Timeouts, raw_semaphore_get(s, timeout)
        PROVE  CallInv' /\ Abs!Next
    BY <1>3, <2>3, raw_semaphore_getAbs
  <2> QED
    BY <1>3, <2>1, <2>2, <2>3, CountsAbs, raw_semaphore_deleteAbs, raw_semaphore_put_allAbs
    DEF SemOp
<1> QED
  BY <1>1, <1>2, <1>3, WakeAbs DEF SemNext

\* The semaphores of the kernel do what AbsSem promises: a wait is ended by
\* exactly one of put, timeout, abort and deletion, and the call returns its outcome.
THEOREM SemRefinesAbs == SemSpec => ImplementsAbsSem
<1>1. SemInit => SemInv /\ CallInv /\ Abs!Init
  BY SemInitInv, SemInitAbs
<1>2. SemInv /\ CallInv /\ [SemNext]_semVars => SemInv' /\ CallInv' /\ [Abs!Next]_Abs!vars
  BY SemNextInv, SemNextAbs
<1> QED
  BY <1>1, <1>2, PTL DEF SemSpec, ImplementsAbsSem, Abs!Spec
=============================================================================
