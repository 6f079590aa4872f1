--------------------------- MODULE RawMutexProofs ---------------------------
(***************************************************************************)
(* TaskInv is also preserved by the operations of the mutexes, which hand  *)
(* a mutex from task to task and change priorities along chains of owners. *)
(* With it: the waiters of a mutex stay in the order of their priorities,  *)
(* the lists of held mutexes agree with mtxtsk, ceilings are respected,    *)
(* and every step is one that AbsMutex allows.                             *)
(***************************************************************************)
EXTENDS RawMutex, RawTaskProofs

WakeOK == loop.op = "wake" => loop.obj \in Mutex

\* Once raw_mutex_delete has returned, no task is linked on the mutex.
DeletedIsEmpty ==
  \A m \in Mutex : m \notin k.live /\ ~ (loop.op = "wake" /\ loop.obj = m) => NobodyWaits(m)

MutexInv == TaskInv /\ WakeOK /\ DeletedIsEmpty

-----------------------------------------------------------------------------
(* What the operations do to the kernel record.                             *)

LEMMA MutexIsObj == Mutex \subseteq Obj /\ NoObj \notin Mutex /\ NoTask \notin Task
BY KernelAssumption

\* What the tasks hold, however many times.
SameChains(K, K1) ==
  /\ K1.mtxtsk = K.mtxtsk /\ K1.mtxnext = K.mtxnext /\ K1.mtxlist = K.mtxlist
  /\ K1.bpriority = K.bpriority

LEMMA HeldChains ==
  ASSUME NEW K, NEW K1, NEW K2
  PROVE  /\ SameHeld(K, K1) <=> SameChains(K, K1) /\ K1.owner_nested = K.owner_nested
         /\ SameChains(K, K1) /\ SameChains(K1, K2) => SameChains(K, K2)
BY DEF SameHeld, SameChains

\* owner_nested is read by the operations of the mutexes only.
LEMMA WriteNested ==
  ASSUME NEW K, Consistent(K), NEW m \in Mutex, NEW n \in Nat
  PROVE  /\ StatesKept(K, [K EXCEPT !.owner_nested[m] = n])
         /\ SameChains(K, [K EXCEPT !.owner_nested[m] = n])
         /\ [K EXCEPT !.owner_nested[m] = n].owner_nested = [K.owner_nested EXCEPT ![m] = n]
<1> DEFINE F == [K EXCEPT !.owner_nested[m] = n]
<1>1. /\ F \in KernelState /\ SameQueue(K, F) /\ SameChains(K, F)
      /\ F.block_list = K.block_list /\ SameTicks(K, F)
      /\ F.task_state = K.task_state /\ F.priority = K.priority
      /\ F.block_obj = K.block_obj /\ F.fault = K.fault /\ F.live = K.live
      /\ F.raw_task_active = K.raw_task_active /\ F.block_status = K.block_status
      /\ F.owner_nested = [K.owner_nested EXCEPT ![m] = n]
  BY DEF Consistent, KernelState, SameQueue, SameChains, SameTicks
<1> SUFFICES /\ StatesKept(K, F) /\ SameChains(K, F)
             /\ F.owner_nested = [K.owner_nested EXCEPT ![m] = n]
  OBVIOUS
<1> HIDE DEF F
<1>2. \A i \in Mutex : F.mtxtsk[i] # Idle
  BY <1>1 DEF Consistent, IdleOK, SameChains
<1>3. Consistent(F)
  BY <1>1, <1>2, OtherFields DEF SameTicks
<1> QED
  BY <1>1, <1>3, TicksCompose DEF StatesKept, SameTicks

LEMMA PushFields ==
  ASSUME NEW K \in KernelState, NEW t \in Task, NEW m \in Mutex
  PROVE  /\ push_mutex(K, t, m).mtxtsk = [K.mtxtsk EXCEPT ![m] = t]
         /\ push_mutex(K, t, m).mtxnext = [K.mtxnext EXCEPT ![m] = K.mtxlist[t]]
         /\ push_mutex(K, t, m).mtxlist = [K.mtxlist EXCEPT ![t] = m]
         /\ push_mutex(K, t, m).bpriority = K.bpriority
         /\ push_mutex(K, t, m).owner_nested = K.owner_nested
BY DEF push_mutex, KernelState

LEMMA PushHeld ==
  ASSUME NEW K \in KernelState, NEW t \in Task, NEW m \in Mutex
  PROVE  /\ \A K1 : SameChains(push_mutex(K, t, m), K1) =>
              K1.mtxtsk = [K.mtxtsk EXCEPT ![m] = t] /\ K1.bpriority = K.bpriority
         /\ K.mtxtsk \in [Mutex -> Task \cup {NoTask}]
<1>1. /\ push_mutex(K, t, m).mtxtsk = [K.mtxtsk EXCEPT ![m] = t]
      /\ push_mutex(K, t, m).bpriority = K.bpriority
  BY DEF push_mutex, KernelState
<1>2. K.mtxtsk \in [Mutex -> Task \cup {NoTask}]
  BY DEF KernelState
<1> QED
  BY <1>1, <1>2 DEF SameChains

LEMMA UnlinkFields ==
  ASSUME NEW K \in KernelState, NEW t \in Task, NEW m \in Mutex
  PROVE  LET K1 == unlink_mutex(K, t, m)
         IN  /\ K1.mtxtsk = K.mtxtsk /\ K1.bpriority = K.bpriority
             /\ K1.owner_nested = K.owner_nested
             /\ K1.mtxlist = [K.mtxlist EXCEPT ![t] = IF @ = m THEN K.mtxnext[m] ELSE @]
             /\ K1.mtxnext = [n \in Mutex |->
                   IF n \in chain_from(K.mtxnext, K.mtxlist[t]) /\ K.mtxnext[n] = m
                   THEN K.mtxnext[m] ELSE K.mtxnext[n]]
BY MutexIsObj DEF unlink_mutex, mutex_chain, KernelState

LEMMA UnlinkNested ==
  ASSUME NEW K \in KernelState, NEW t \in Task, NEW m \in Mutex
  PROVE  unlink_mutex(K, t, m).owner_nested = K.owner_nested
BY DEF unlink_mutex, KernelState

\* Both depend on the fields that SameChains compares, and on no other.
LEMMA HeldPush ==
  ASSUME NEW K \in KernelState, NEW K1 \in KernelState, SameChains(K, K1),
         NEW t \in Task, NEW m \in Mutex
  PROVE  SameChains(push_mutex(K, t, m), push_mutex(K1, t, m))
<1>1. /\ push_mutex(K1, t, m).mtxtsk = [K1.mtxtsk EXCEPT ![m] = t]
      /\ push_mutex(K1, t, m).mtxnext = [K1.mtxnext EXCEPT ![m] = K1.mtxlist[t]]
      /\ push_mutex(K1, t, m).mtxlist = [K1.mtxlist EXCEPT ![t] = m]
      /\ push_mutex(K1, t, m).bpriority = K1.bpriority
  BY PushFields
<1>2. /\ push_mutex(K, t, m).mtxtsk = [K.mtxtsk EXCEPT ![m] = t]
      /\ push_mutex(K, t, m).mtxnext = [K.mtxnext EXCEPT ![m] = K.mtxlist[t]]
      /\ push_mutex(K, t, m).mtxlist = [K.mtxlist EXCEPT ![t] = m]
      /\ push_mutex(K, t, m).bpriority = K.bpriority
  BY PushFields
<1> QED
  BY <1>1, <1>2 DEF SameChains

LEMMA HeldUnlink ==
  ASSUME NEW K \in KernelState, NEW K1 \in KernelState, SameChains(K, K1),
         NEW t \in Task, NEW m \in Mutex
  PROVE  SameChains(unlink_mutex(K, t, m), unlink_mutex(K1, t, m))
<1> DEFINE U  == unlink_mutex(K, t, m)
           U1 == unlink_mutex(K1, t, m)
           Skip(next, first) == [n \in Mutex |->
                   IF n \in chain_from(next, first) /\ next[n] = m THEN next[m] ELSE next[n]]
<1>1. /\ U.mtxtsk = K.mtxtsk /\ U1.mtxtsk = K1.mtxtsk
      /\ U.mtxnext = Skip(K.mtxnext, K.mtxlist[t]) /\ U1.mtxnext = Skip(K1.mtxnext, K1.mtxlist[t])
      /\ U.mtxlist = [K.mtxlist EXCEPT ![t] = IF @ = m THEN K.mtxnext[m] ELSE @]
      /\ U1.mtxlist = [K1.mtxlist EXCEPT ![t] = IF @ = m THEN K1.mtxnext[m] ELSE @]
      /\ U.bpriority = K.bpriority /\ U1.bpriority = K1.bpriority
  BY UnlinkFields
<1> HIDE DEF U, U1, Skip
<1> QED
  BY <1>1 DEF SameChains, U, U1

\* The mutex that nobody waits for becomes free.
LEMMA WriteOwner ==
  ASSUME NEW K, Consistent(K), NEW m \in Mutex, NEW K1, K1 = [K EXCEPT !.mtxtsk[m] = NoTask]
  PROVE  StatesKept(K, K1)
<1> DEFINE F == [K EXCEPT !.mtxtsk[m] = NoTask]
<1>1. /\ F \in KernelState /\ SameQueue(K, F)
      /\ F.block_list = K.block_list /\ SameTicks(K, F)
      /\ F.task_state = K.task_state /\ F.priority = K.priority
      /\ F.block_obj = K.block_obj /\ F.fault = K.fault /\ F.live = K.live
      /\ F.raw_task_active = K.raw_task_active /\ F.block_status = K.block_status
      /\ F.mtxtsk = [K.mtxtsk EXCEPT ![m] = NoTask]
  BY DEF Consistent, KernelState, SameQueue, SameTicks
<1> SUFFICES StatesKept(K, F)
  OBVIOUS
<1> HIDE DEF F
<1>a. K.mtxtsk \in [Mutex -> Task \cup {NoTask}] /\ \A n \in Mutex : K.mtxtsk[n] # Idle
  BY DEF Consistent, IdleOK, KernelState
<1>2. \A n \in Mutex : F.mtxtsk[n] # Idle
  BY <1>1, <1>a, KernelAssumption
<1>3. Consistent(F)
  BY <1>1, <1>2, OtherFields DEF SameTicks
<1> QED
  BY <1>1, <1>3, TicksCompose DEF StatesKept, SameTicks

LEMMA KeptCompose ==
  ASSUME NEW K, NEW K1, NEW K2, NEW t
  PROVE  /\ StatesKept(K, K1) /\ StatesKept(K1, K2) => StatesKept(K, K2)
         /\ StatesKept(K, K1) /\ OneMoves(K1, K2, t) => OneMoves(K, K2, t)
         /\ OneMoves(K, K1, t) /\ StatesKept(K1, K2) => OneMoves(K, K2, t)
BY TicksCompose DEF StatesKept, OneMoves

\* The mutex is given to a task that is awake or was just woken.
Given(K, t, m) == raise_to_ceiling([push_mutex(K, t, m) EXCEPT !.owner_nested[m] = 1], t, m)

LEMMA GivenKeeps ==
  ASSUME NEW K, Consistent(K), NEW t \in Task \ {Idle}, NEW m \in Mutex
  PROVE  /\ StatesKept(K, Given(K, t, m)) /\ SameChains(push_mutex(K, t, m), Given(K, t, m))
         /\ Given(K, t, m).owner_nested = [K.owner_nested EXCEPT ![m] = 1]
<1> DEFINE P == push_mutex(K, t, m)
           N == [P EXCEPT !.owner_nested[m] = 1]
           G == raise_to_ceiling(N, t, m)
<1>1. StatesKept(K, P) /\ P.owner_nested = K.owner_nested
  BY push_mutexKeeps, PushFields DEF Consistent
<1> HIDE DEF P
<1>2. /\ StatesKept(P, N) /\ SameChains(P, N)
      /\ N.owner_nested = [P.owner_nested EXCEPT ![m] = 1]
  <2>1. Consistent(P)
    BY <1>1 DEF StatesKept
  <2> QED
    BY <2>1, WriteNested
<1> HIDE DEF N
<1>3. SameStates(N, G)
  BY <1>2, raise_to_ceilingKeeps DEF StatesKept
<1> HIDE DEF G
<1>4. SameChains(N, G) /\ G.owner_nested = N.owner_nested /\ StatesKept(N, G)
  BY <1>3, HeldChains DEF SameStates
<1>5. StatesKept(K, G) /\ SameChains(P, G)
  BY <1>1, <1>2, <1>4, KeptCompose, HeldChains
<1> QED
  BY <1>1, <1>2, <1>4, <1>5 DEF Given, P, N, G

-----------------------------------------------------------------------------
(* The steps, and what they do to the tasks and to the lists of mutexes.    *)

\* What is left to show of a step that starts no wait: the loop.
LEMMA CalmStep ==
  ASSUME MutexInv, Calm, TaskInv', WakeOK',
         \A m \in Mutex : ~ (loop'.op = "wake" /\ loop'.obj = m) /\ m \notin k.live
                            => ~ (loop.op = "wake" /\ loop.obj = m) \/ NobodyWaits(m)
  PROVE  MutexInv'
<1>1. k'.live = k.live
  BY DEF Calm
<1>2. DeletedIsEmpty'
  BY <1>1, CalmKeeps DEF MutexInv, DeletedIsEmpty
<1> QED
  BY <1>2 DEF MutexInv

LEMMA TaskNextMutex ==
  ASSUME MutexInv, TaskNext
  PROVE  MutexInv'
<1>1. Calm /\ TaskInv'
  BY TaskNextCalm, TaskNextInv DEF MutexInv
<1>2. loop' = loop \/ (loop.op # "wake" /\ loop'.op # "wake")
  BY TaskNextLoop DEF MutexInv
<1> QED
  BY <1>1, <1>2, CalmStep DEF MutexInv, WakeOK

\* The task that calls is not the idle task, and no loop is under way.
LEMMA CallerFacts ==
  ASSUME TaskInv, TaskRuns, loop' = loop
  PROVE  /\ loop = NoLoop /\ loop' \in Loop /\ LoopOK' /\ loop.op = "none"
         /\ active \in Task \ {Idle} /\ k.task_state[active] = "RDY"
<1>1. loop = NoLoop
  BY DEF TaskRuns, TaskAt
<1> QED
  BY <1>1, StepLoop, NoLoopOK, RunningIsReady

LEMMA NestedInv ==
  ASSUME MutexInv, NEW m \in Mutex, raw_mutex_get_nested(m) \/ raw_mutex_put_nested(m)
  PROVE  MutexInv' /\ Calm /\ StatesKept(k, k') /\ SameChains(k, k') /\ loop' = loop
<1>1. /\ TaskInv /\ TaskRuns /\ UNCHANGED <<sys, pc, call, loop>>
  BY DEF MutexInv, raw_mutex_get_nested, raw_mutex_put_nested
<1>2. \E n \in Nat : k' = [k EXCEPT !.owner_nested[m] = n]
  <2>1. k.owner_nested[m] \in Nat /\ MaxNested \in Nat /\ MaxNested > 0
    BY <1>1, InvFacts, MutexAssumption DEF KernelState
  <2>2. (k.owner_nested[m] + MaxNested) % (MaxNested + 1) \in Nat
    BY <2>1
  <2> QED
    BY <2>1, <2>2 DEF raw_mutex_get_nested, raw_mutex_put_nested
<1>3. StatesKept(k, k') /\ SameChains(k, k')
  BY <1>1, <1>2, InvFacts, WriteNested
<1>4. pc' \in [Task -> Place] /\ call' \in [Task -> Call] /\ pc' = pc /\ UNCHANGED sys
  BY <1>1, InvFacts
<1>5. loop' \in Loop /\ LoopOK' /\ loop.op = "none"
  BY <1>1, CallerFacts
<1>6. Preserved /\ Calm
  BY <1>1, <1>3, <1>4, <1>5, NoTaskChanges
<1> QED
  BY <1>1, <1>3, <1>5, <1>6, CalmStep DEF Preserved, WakeOK

LEMMA raw_mutex_get_freeInv ==
  ASSUME MutexInv, NEW m \in Mutex, raw_mutex_get_free(m)
  PROVE  /\ MutexInv' /\ Calm /\ StatesKept(k, k') /\ loop' = loop
         /\ SameChains(push_mutex(k, active, m), k')
         /\ k'.owner_nested = [k.owner_nested EXCEPT ![m] = 1]
<1>1. /\ TaskInv /\ TaskRuns /\ UNCHANGED <<sys, pc, call, loop>>
      /\ k' = Given(k, active, m)
  BY DEF MutexInv, raw_mutex_get_free, Given
<1>2. /\ loop' \in Loop /\ LoopOK' /\ loop.op = "none" /\ active \in Task \ {Idle}
  BY <1>1, CallerFacts
<1>3. /\ StatesKept(k, k') /\ SameChains(push_mutex(k, active, m), k')
      /\ k'.owner_nested = [k.owner_nested EXCEPT ![m] = 1]
  BY <1>1, <1>2, InvFacts, GivenKeeps
<1>4. pc' \in [Task -> Place] /\ call' \in [Task -> Call] /\ pc' = pc /\ UNCHANGED sys
  BY <1>1, InvFacts
<1>5. Preserved /\ Calm
  BY <1>1, <1>2, <1>3, <1>4, NoTaskChanges
<1> QED
  BY <1>1, <1>2, <1>3, <1>5, CalmStep DEF Preserved, WakeOK

\* raw_mutex_get blocks the caller; its priority may go to a chain of owners.
LEMMA raw_mutex_getInv ==
  ASSUME MutexInv, NEW m \in Mutex, NEW timeout \in Timeouts, raw_mutex_get(m, timeout)
  PROVE  /\ MutexInv' /\ Moves(k, k', active) /\ loop' = loop
         /\ k.task_state[active] = "RDY"
         /\ k'.task_state[active] \in Pending /\ k'.block_obj[active] = m
<1> DEFINE owner == k.mtxtsk[m]
           p     == k.priority[active]
           K1    == IF Policy[m] = "inherit" /\ p < k.priority[owner]
                    THEN change_internal_task_priority(k, owner, p) ELSE k
<1>1. /\ TaskInv /\ TaskRuns /\ m \in k.live /\ owner \notin {active, NoTask} /\ MayStop(active)
      /\ k' = raw_pend_object(K1, m, active, timeout) /\ Block(m) /\ UNCHANGED <<sys, loop>>
  BY DEF MutexInv, raw_mutex_get, MayLock
<1>2. /\ loop' \in Loop /\ LoopOK' /\ loop.op = "none" /\ active \in Task \ {Idle}
      /\ k.task_state[active] = "RDY" /\ m \in Obj /\ timeout \in Ticks
  BY <1>1, CallerFacts, MutexIsObj, TaskAssumption
<1>3. owner \in Task \ {Idle} /\ p \in Prio
  BY <1>1, <1>2, InvFacts DEF Consistent, IdleOK, KernelState
<1> HIDE DEF owner, p
<1>4. SameStates(k, K1)
  BY <1>1, <1>3, InvFacts, change_internal_task_priorityKeeps, SameCompose
<1> HIDE DEF K1
<1>5. /\ Moves(K1, k', active) /\ k'.task_state[active] \in Pending /\ k'.block_obj[active] = m
  BY <1>1, <1>2, <1>4, raw_pend_objectMoves DEF SameStates, StatesKept
<1>6. Moves(k, k', active)
  BY <1>4, <1>5, KeptCompose DEF SameStates, Moves, SameHeld
<1>7. pc' \in [Task -> Place] /\ call' \in [Task -> Call] /\ Ahead
  BY <1>1, <1>2, InvFacts, MutexIsObj DEF Block, Place, Call, Ahead
<1>8. UNCHANGED sys /\ (active = active => raw_sched_lock = 0)
  BY <1>1 DEF MayStop
<1>9. TaskInv'
  BY <1>1, <1>2, <1>6, <1>7, <1>8, OneTaskStep DEF Preserved
<1>10. k'.live = k.live /\ \A n \in Mutex \ {m} : NobodyWaits(n) => NobodyWaits(n)'
  BY <1>2, <1>5, <1>6 DEF Moves, OneMoves, NobodyWaits, WaitsFor
<1>11. DeletedIsEmpty' /\ WakeOK'
  BY <1>1, <1>2, <1>10 DEF MutexInv, DeletedIsEmpty, WakeOK
<1> QED
  BY <1>1, <1>2, <1>5, <1>6, <1>9, <1>11 DEF MutexInv

\* raw_mutex_put unlinks the mutex; then it is free, or its first waiter has it.
Released(m) ==
  /\ NobodyWaits(m) /\ StatesKept(k, k')
  /\ SameChains([unlink_mutex(k, active, m) EXCEPT !.mtxtsk[m] = NoTask], k')
  /\ k'.owner_nested = [k.owner_nested EXCEPT ![m] = 0]
HandedOver(m, t) ==
  /\ WaitsFor(t, m) /\ OneMoves(k, k', t)
  /\ k'.task_state[t] \in Awake /\ k'.block_obj[t] = NoObj /\ k'.block_status[t] = "OK"
  /\ SameChains(push_mutex(unlink_mutex(k, active, m), t, m), k')
  /\ k'.owner_nested = [k.owner_nested EXCEPT ![m] = 1]

LEMMA raw_mutex_putInv ==
  ASSUME MutexInv, NEW m \in Mutex, raw_mutex_put(m)
  PROVE  /\ MutexInv' /\ Calm /\ loop' = loop /\ StaysSuspended
         /\ Released(m) \/ \E t \in Task \ {Idle} : HandedOver(m, t)
<1> DEFINE N  == [k EXCEPT !.owner_nested[m] = 0]
           K1 == release_mutex(N, active, m)
           U  == unlink_mutex(k, active, m)
           t  == Head(K1.block_list[m])
           F  == [K1 EXCEPT !.mtxtsk[m] = NoTask]
           W  == wake_up(K1, t, "OK")
           G  == Given(W, t, m)
<1>1. /\ TaskInv /\ TaskRuns /\ UNCHANGED <<sys, call, loop>>
      /\ IF K1.block_list[m] = <<>> THEN k' = F /\ UNCHANGED pc
         ELSE k' = G /\ Resched
  BY DEF MutexInv, raw_mutex_put, Given
<1>2. /\ loop' \in Loop /\ LoopOK' /\ loop.op = "none" /\ active \in Task \ {Idle} /\ m \in Obj
  BY <1>1, CallerFacts, MutexIsObj
<1>3. /\ StatesKept(k, N) /\ SameChains(k, N)
      /\ N.owner_nested = [k.owner_nested EXCEPT ![m] = 0]
  BY <1>1, InvFacts, WriteNested
<1> HIDE DEF N
<1>4. StatesKept(N, K1) /\ SameHeld(unlink_mutex(N, active, m), K1)
  BY <1>2, <1>3, release_mutexKeeps DEF StatesKept
<1>5. k \in KernelState /\ K1 \in KernelState /\ N \in KernelState /\ StatesKept(k, K1)
      /\ Consistent(K1)
  BY <1>1, <1>3, <1>4, InvFacts, KeptCompose DEF StatesKept, Consistent
<1>6. SameChains(U, K1) /\ K1.owner_nested = [k.owner_nested EXCEPT ![m] = 0]
  <2>1. SameChains(U, unlink_mutex(N, active, m))
    BY <1>2, <1>3, <1>5, HeldUnlink
  <2>2. unlink_mutex(N, active, m).owner_nested = N.owner_nested
    BY <1>2, <1>5, UnlinkNested
  <2> QED
    BY <1>3, <1>4, <2>1, <2>2, HeldChains
<1>7. U \in KernelState
  BY <1>1, <1>2, InvFacts, unlink_mutexKeeps DEF StatesKept, Consistent
<1> HIDE DEF K1, U
<1>8. CASE K1.block_list[m] = <<>>
  <2>1. k' = F /\ pc' = pc
    BY <1>1, <1>8
  <2>2. StatesKept(k, k')
    BY <1>5, <2>1, WriteOwner, KeptCompose
  <2>3. /\ SameChains([U EXCEPT !.mtxtsk[m] = NoTask], k')
        /\ k'.owner_nested = [k.owner_nested EXCEPT ![m] = 0]
    BY <1>5, <1>6, <1>7, <2>1 DEF SameChains, KernelState
  <2>4. NobodyWaits(m)
    BY <1>2, <1>5, <1>8 DEF StatesKept, Consistent, LinkedAs, NobodyWaits, WaitsFor, In
  <2>5. pc' \in [Task -> Place] /\ call' \in [Task -> Call] /\ UNCHANGED sys
    BY <1>1, <2>1, InvFacts
  <2>6. Preserved /\ Calm /\ StaysSuspended
    BY <1>1, <1>2, <2>1, <2>2, <2>5, NoTaskChanges
  <2> QED
    BY <1>1, <1>2, <2>2, <2>3, <2>4, <2>6, CalmStep DEF Preserved, WakeOK, Released, U
<1>9. CASE K1.block_list[m] # <<>>
  <2>1. k' = G /\ Resched
    BY <1>1, <1>9
  <2>2. t \in Task /\ In(t, K1.block_list[m])
    BY <1>2, <1>5, <1>9, LinkedNonEmpty DEF KernelState
  <2> HIDE DEF t
  <2>3. K1.task_state[t] \in Pending /\ K1.block_obj[t] = m
    BY <1>2, <1>5, <2>2 DEF Consistent, LinkedAs
  <2>4. t \in Task \ {Idle} /\ WaitsFor(t, m) /\ k.task_state[t] # "RDY"
    BY <1>5, <2>2, <2>3, PendingNotIdle DEF StatesKept, WaitsFor, Pending
  <2>5. /\ Moves(K1, W, t) /\ W.task_state[t] \in Awake /\ W.block_obj[t] = NoObj
        /\ W.block_status[t] = "OK"
        /\ K1.task_state[t] \in Suspended => W.task_state[t] \in Suspended
    BY <1>5, <2>3, <2>4, wake_upMoves DEF BlockState, Suspended
  <2>6. W \in KernelState /\ Consistent(W) /\ SameHeld(K1, W)
    BY <2>5 DEF Moves, OneMoves, Consistent
  <2> HIDE DEF W
  <2>7. /\ StatesKept(W, G) /\ SameChains(push_mutex(W, t, m), G)
        /\ G.owner_nested = [W.owner_nested EXCEPT ![m] = 1]
    BY <2>4, <2>6, GivenKeeps
  <2> HIDE DEF G
  <2>8. /\ OneMoves(k, k', t) /\ k'.task_state[t] \in Awake /\ k'.block_obj[t] = NoObj
        /\ k'.block_status[t] = "OK"
    <3>1. OneMoves(k, W, t)
      BY <1>5, <2>5, KeptCompose DEF Moves
    <3> QED
      BY <2>1, <2>5, <2>7, <3>1, KeptCompose DEF StatesKept
  <2>9. /\ SameChains(push_mutex(U, t, m), k')
        /\ k'.owner_nested = [k.owner_nested EXCEPT ![m] = 1]
    <3>1. SameChains(U, W) /\ W.owner_nested = [k.owner_nested EXCEPT ![m] = 0]
      BY <1>6, <2>6, HeldChains
    <3>2. SameChains(push_mutex(U, t, m), push_mutex(W, t, m))
      BY <1>7, <2>4, <2>6, <3>1, HeldPush
    <3>3. [W.owner_nested EXCEPT ![m] = 1] = [k.owner_nested EXCEPT ![m] = 1]
      BY <1>5, <3>1 DEF KernelState
    <3> QED
      BY <2>1, <2>7, <3>2, <3>3, HeldChains
  <2>10. StartsNoWait(t)
    BY <2>8 DEF StartsNoWait, Awake, Pending
  <2>11. pc' \in [Task -> Place] /\ call' \in [Task -> Call] /\ Ahead /\ UNCHANGED sys
    BY <1>1, <2>1, InvFacts, ReschedOK
  <2>13. k.task_state[t] \in Suspended => k'.task_state[t] \in Suspended
    BY <1>5, <2>1, <2>5, <2>7 DEF StatesKept
  <2>12. TaskInv' /\ Calm /\ StaysSuspended
    BY <1>1, <1>2, <2>4, <2>8, <2>10, <2>11, <2>13, OneTaskMoves DEF Preserved
  <2> QED
    BY <1>1, <1>2, <2>4, <2>8, <2>9, <2>12, CalmStep DEF WakeOK, HandedOver, U
<1> QED
  BY <1>8, <1>9

\* The tasks stay where they are.
AsTheyAre ==
  /\ k'.task_state = k.task_state /\ k'.block_obj = k.block_obj
  /\ k'.block_status = k.block_status

LEMMA raw_mutex_createInv ==
  ASSUME MutexInv, NEW m \in Mutex, raw_mutex_create(m)
  PROVE  /\ MutexInv' /\ AsTheyAre /\ m \notin k.live /\ k'.live = k.live \cup {m}
         /\ loop' = loop /\ SameHeld([k EXCEPT !.mtxtsk[m] = NoTask, !.mtxnext[m] = NoObj], k')
<1>1. /\ TaskInv /\ loop = NoLoop /\ loop' = loop /\ m \notin k.live /\ m \in Obj
      /\ UNCHANGED <<sys, pc, call>>
      /\ k' = [k EXCEPT !.block_list[m] = <<>>, !.mtxtsk[m] = NoTask,
                        !.mtxnext[m] = NoObj, !.live = @ \cup {m}]
  BY MutexIsObj DEF MutexInv, raw_mutex_create, Boot, Caller, TaskRuns, TaskAt, IsrRuns
<1>2. k.block_list[m] = <<>>
  BY <1>1, EmptyList, NoLoopOK DEF MutexInv, DeletedIsEmpty, Waiters
<1>3. /\ k.block_list \in [Obj -> Seq(Task)] /\ k.live \in SUBSET Obj /\ k \in KernelState
      /\ k.mtxtsk \in [Mutex -> Task \cup {NoTask}]
      /\ k.mtxnext \in [Mutex -> Mutex \cup {NoObj}] /\ \A n \in Mutex : k.mtxtsk[n] # Idle
  BY <1>1, InvFacts DEF KernelState, Consistent, IdleOK
<1>4. [k.block_list EXCEPT ![m] = <<>>] = k.block_list
  BY <1>1, <1>2, <1>3
<1> DEFINE K1 == [k EXCEPT !.mtxtsk[m] = NoTask, !.mtxnext[m] = NoObj, !.live = k.live \cup {m}]
<1>5. k' = K1
  <2>1. k' = [k EXCEPT !.block_list = [k.block_list EXCEPT ![m] = <<>>], !.mtxtsk[m] = NoTask,
                       !.mtxnext[m] = NoObj, !.live = k.live \cup {m}]
    BY <1>1
  <2>2. k' = [k EXCEPT !.block_list = k.block_list, !.mtxtsk[m] = NoTask,
                       !.mtxnext[m] = NoObj, !.live = k.live \cup {m}]
    BY <1>4, <2>1
  <2> QED
    BY <1>3, <2>2 DEF KernelState
<1>6. /\ K1 \in KernelState /\ SameQueue(k, K1)
      /\ K1.block_list = k.block_list /\ K1.tick_head = k.tick_head
      /\ K1.task_state = k.task_state /\ K1.priority = k.priority
      /\ K1.block_obj = k.block_obj /\ K1.block_status = k.block_status /\ K1.fault = k.fault
      /\ K1.raw_task_active = k.raw_task_active /\ K1.live = k.live \cup {m}
      /\ K1.mtxtsk = [k.mtxtsk EXCEPT ![m] = NoTask]
      /\ SameHeld([k EXCEPT !.mtxtsk[m] = NoTask, !.mtxnext[m] = NoObj], K1)
  BY <1>1, <1>3 DEF KernelState, SameQueue, SameHeld
<1> HIDE DEF K1
<1>7. Consistent(K1)
  <2>1. \A n \in Mutex : K1.mtxtsk[n] # Idle
    BY <1>3, <1>6, KernelAssumption
  <2> QED
    BY <1>1, <1>6, <2>1, InvFacts, OtherFields
<1>8. loop' \in Loop /\ LoopOK' /\ pc' \in [Task -> Place] /\ pc' = pc /\ call' = call /\ UNCHANGED sys
  BY <1>1, StepLoop, InvFacts
<1>9. TaskInv' /\ \A n \in Mutex : NobodyWaits(n) => NobodyWaits(n)'
  BY <1>1, <1>5, <1>6, <1>7, <1>8, StillStep, MutexIsObj
<1>10. DeletedIsEmpty' /\ WakeOK'
  BY <1>1, <1>5, <1>6, <1>9, NoLoopOK DEF MutexInv, DeletedIsEmpty, WakeOK
<1> QED
  BY <1>1, <1>5, <1>6, <1>9, <1>10 DEF MutexInv, AsTheyAre

LEMMA raw_mutex_deleteInv ==
  ASSUME MutexInv, NEW m \in Mutex, raw_mutex_delete(m)
  PROVE  /\ MutexInv' /\ AsTheyAre /\ k'.live = k.live \ {m}
         /\ loop = NoLoop /\ loop'.op = "wake"
         /\ SameHeld(IF k.mtxtsk[m] = NoTask THEN k ELSE unlink_mutex(k, k.mtxtsk[m], m), k')
<1> DEFINE owner == k.mtxtsk[m]
           L     == k.live \ {m}
           K1    == [k EXCEPT !.live = L]
           R     == release_mutex(K1, owner, m)
           U     == unlink_mutex(k, owner, m)
<1>1. /\ TaskInv /\ loop = NoLoop /\ Resched /\ UNCHANGED <<sys, call>>
      /\ k' = IF owner = NoTask THEN K1 ELSE R
      /\ loop' = [NoLoop EXCEPT !.op = "wake", !.obj = m, !.status = "DEL"]
  BY DEF MutexInv, raw_mutex_delete, Caller, TaskRuns, TaskAt, IsrRuns
<1>2. /\ loop' \in Loop /\ LoopOK' /\ loop'.op = "wake" /\ loop'.obj = m
      /\ pc' \in [Task -> Place] /\ Ahead
  BY <1>1, StartsWaking, MutexIsObj
<1>3. owner \in Task \cup {NoTask} /\ owner # Idle /\ L \in SUBSET Obj /\ k \in KernelState
  BY <1>1, InvFacts DEF KernelState, Consistent, IdleOK
<1>4. /\ Consistent(K1) /\ K1.live = L /\ SameHeld(k, K1)
      /\ K1.task_state = k.task_state /\ K1.block_obj = k.block_obj
      /\ K1.block_status = k.block_status /\ K1.raw_task_active = k.raw_task_active
  <2>1. Consistent(k)
    BY <1>1, InvFacts
  <2>2. L \in SUBSET Obj
    BY <1>3
  <2>3. K1 = [k EXCEPT !.live = L]
    OBVIOUS
  <2> HIDE DEF K1, L
  <2> QED
    BY <2>1, <2>2, <2>3, NewLive
<1> HIDE DEF owner, K1
<1>6. /\ Consistent(k') /\ k'.live = L /\ AsTheyAre /\ k'.raw_task_active = k.raw_task_active
      /\ SameHeld(IF owner = NoTask THEN k ELSE U, k')
  <2>1. CASE owner = NoTask
    BY <1>1, <1>4, <2>1 DEF AsTheyAre
  <2>2. CASE owner # NoTask
    <3>1. owner \in Task \ {Idle}
      BY <1>3, <2>2
    <3>2. StatesKept(K1, R) /\ SameHeld(unlink_mutex(K1, owner, m), R)
      BY <1>4, <3>1, release_mutexKeeps
    <3>3. SameChains(U, unlink_mutex(K1, owner, m))
      BY <1>3, <1>4, <3>1, HeldUnlink, HeldChains DEF Consistent
    <3>4. U.owner_nested = k.owner_nested /\ k.owner_nested = K1.owner_nested
          /\ unlink_mutex(K1, owner, m).owner_nested = K1.owner_nested
      BY <1>3, <1>4, <3>1, UnlinkNested DEF Consistent, SameHeld
    <3>5. SameHeld(U, R)
      BY <3>2, <3>3, <3>4, HeldChains
    <3> QED
      BY <1>1, <1>4, <2>2, <3>2, <3>5 DEF StatesKept, AsTheyAre
  <2> QED
    BY <2>1, <2>2
<1>7. UNCHANGED sys /\ call' = call
  BY <1>1
<1>8. TaskInv' /\ \A n \in Mutex : NobodyWaits(n) => NobodyWaits(n)'
  BY <1>1, <1>2, <1>6, <1>7, StillStep, MutexIsObj DEF AsTheyAre
<1>9. DeletedIsEmpty' /\ WakeOK'
  BY <1>1, <1>2, <1>6, <1>8, NoLoopOK DEF MutexInv, DeletedIsEmpty, WakeOK
<1> QED
  BY <1>1, <1>2, <1>6, <1>8, <1>9 DEF MutexInv, owner

\* One waiter of a deleted mutex after the other leaves its wait.
LEMMA WakeInv ==
  ASSUME MutexInv, WakeNext \/ WakeDone
  PROVE  /\ MutexInv' /\ Calm /\ StaysSuspended /\ SameHeld(k, k') /\ loop.op = "wake"
         /\ loop'.op \in {"wake", "none"}
         /\ \A t \in Task : k'.task_state[t] = "DELETED" => k.task_state[t] = "DELETED"
         /\ \A t \in Task : k'.task_state[t] \notin Pending \cup {"DELETED"} =>
              Forgets(k, k', t) /\ k.task_state[t] # "DELETED"
<1>1. TaskInv /\ loop.op = "wake" /\ loop.obj \in Mutex /\ loop \in Loop
  BY InvFacts DEF WakeNext, WakeDone, MutexInv, WakeOK
<1>2. CASE WakeNext
  <2>1. /\ Waiters(loop.obj) # <<>> /\ k' = wake_up(k, Head(Waiters(loop.obj)), loop.status)
        /\ UNCHANGED <<sys, pc, call, loop>>
    BY <1>2 DEF WakeNext, Waiters
  <2>2. loop.status \in BlockState /\ pc' \in [Task -> Place]
    BY <1>1, <2>1, InvFacts DEF Loop, BlockState
  <2>3. /\ TaskInv' /\ Calm /\ StaysSuspended
        /\ \E t \in Task : /\ Moves(k, k', t) /\ WaitsFor(t, loop.obj)
                          /\ k'.task_state[t] \in Awake /\ k'.block_obj[t] = NoObj
    BY <1>1, <2>1, <2>2, MutexIsObj, WakeHead
  <2>4. MutexInv'
    BY <1>1, <2>1, <2>3, CalmStep DEF MutexInv, WakeOK
  <2>5. \A t \in Task : Forgets(k, k', t) \/ k'.task_state[t] \in Pending
    BY <2>3 DEF Moves, OneMoves, Forgets
  <2> QED
    BY <1>1, <2>1, <2>3, <2>4, <2>5 DEF Moves, OneMoves, Awake, WaitsFor, Pending
<1>3. CASE WakeDone
  <2>1. /\ Waiters(loop.obj) = <<>> /\ loop' = NoLoop
        /\ UNCHANGED <<k, sys, pc, call>>
    BY <1>3 DEF WakeDone, Waiters
  <2>2. NobodyWaits(loop.obj)
    BY <1>1, <2>1, MutexIsObj, EmptyList
  <2>3. SameStates(k, k') /\ call' \in [Task -> Call] /\ pc' \in [Task -> Place]
    BY <1>1, <2>1, InvFacts, SameCompose
  <2>4. loop' \in Loop /\ loop'.op = "none" /\ LoopOK'
    BY <2>1, NoLoopOK DEF LoopOK
  <2>5. TaskInv' /\ Calm /\ StaysSuspended
    BY <1>1, <2>1, <2>3, <2>4, NoTaskMoves DEF Preserved
  <2>6. MutexInv'
    BY <2>1, <2>2, <2>4, <2>5, CalmStep DEF MutexInv, WakeOK
  <2> QED
    BY <1>1, <2>1, <2>3, <2>4, <2>5, <2>6 DEF SameStates, StatesKept, Forgets
<1> QED
  BY <1>2, <1>3

-----------------------------------------------------------------------------
(* The lists of waiters.                                                    *)

LEMMA MutexNextInv == MutexInv /\ [MutexNext]_taskVars => MutexInv'
<1>1. ASSUME MutexInv, UNCHANGED taskVars PROVE MutexInv'
  <2>1. TaskInv' /\ UNCHANGED <<k, loop>>
    BY <1>1, TaskNextInv DEF MutexInv, taskVars
  <2> QED
    BY <1>1, <2>1 DEF MutexInv, WakeOK, DeletedIsEmpty, NobodyWaits, WaitsFor
<1>2. ASSUME MutexInv, NEW m \in Mutex,
             \/ raw_mutex_create(m) \/ raw_mutex_get_nested(m) \/ raw_mutex_get_free(m)
             \/ raw_mutex_put_nested(m) \/ raw_mutex_put(m) \/ raw_mutex_delete(m)
             \/ \E timeout \in Timeouts : raw_mutex_get(m, timeout)
      PROVE  MutexInv'
  BY <1>2, raw_mutex_createInv, NestedInv, raw_mutex_get_freeInv, raw_mutex_putInv,
     raw_mutex_deleteInv, raw_mutex_getInv
<1> QED
  BY <1>1, <1>2, TaskNextMutex, WakeInv, MutexAssumption DEF MutexNext

LEMMA MutexInitInv == TaskInit => MutexInv
<1> SUFFICES ASSUME TaskInit PROVE MutexInv
  OBVIOUS
<1>1. TaskInv /\ loop = NoLoop /\ k.task_state = [t \in Task |-> IF t = Idle THEN "RDY" ELSE "DELETED"]
  BY TaskInitInv DEF TaskInit, InitKernel
<1> QED
  BY <1>1, NoLoopOK DEF MutexInv, WakeOK, DeletedIsEmpty, NobodyWaits, WaitsFor, Pending

LEMMA MutexInvariant == MutexSpec => []MutexInv
BY MutexInitInv, MutexNextInv, PTL DEF MutexSpec

\* raw_mutex_put gives a mutex to the most urgent of its waiters: their list stays
\* sorted when inheritance, along any chain of owners, changes the priority of a
\* task that waits.
THEOREM WaitersStaySorted == MutexSpec => []BlockListSorted
<1>1. MutexInv => BlockListSorted
  BY DEF MutexInv, TaskInv, Consistent, BlockListSorted
<1> QED
  BY <1>1, MutexInvariant, PTL

-----------------------------------------------------------------------------
(* A suspended waiter.                                                      *)

LEMMA MutexNextSuspension ==
  ASSUME MutexInv, MutexNext
  PROVE  OnlyResumed
<1>1. CASE TaskNext
  BY <1>1, TaskNextSuspension DEF MutexInv
<1>2. CASE WakeNext \/ WakeDone
  BY <1>2, WakeInv DEF StaysSuspended, OnlyResumed
<1>3. ASSUME NEW m \in Mutex, raw_mutex_create(m) \/ raw_mutex_delete(m)
      PROVE  OnlyResumed
  BY <1>3, raw_mutex_createInv, raw_mutex_deleteInv DEF AsTheyAre, OnlyResumed
<1>4. ASSUME NEW m \in Mutex,
             raw_mutex_get_nested(m) \/ raw_mutex_get_free(m) \/ raw_mutex_put_nested(m)
      PROVE  OnlyResumed
  BY <1>4, NestedInv, raw_mutex_get_freeInv DEF StatesKept, OnlyResumed
<1>5. ASSUME NEW m \in Mutex, raw_mutex_put(m)
      PROVE  OnlyResumed
  BY <1>5, raw_mutex_putInv DEF StaysSuspended, OnlyResumed
<1>6. ASSUME NEW m \in Mutex, NEW timeout \in Timeouts, raw_mutex_get(m, timeout)
      PROVE  OnlyResumed
  BY <1>6, raw_mutex_getInv DEF Moves, OneMoves, OnlyResumed, Suspended
<1> QED
  BY <1>1, <1>2, <1>3, <1>4, <1>5, <1>6, MutexAssumption DEF MutexNext

\* A mutex may be handed to a suspended task, by raw_mutex_put or when its owner is
\* deleted, and a suspended waiter may time out or see its mutex deleted: it has the
\* mutex, or the error, and stays suspended.
THEOREM SuspensionCorrect == MutexSpec => SuspensionHolds
<1>1. ASSUME MutexInv, [MutexNext]_taskVars PROVE [OnlyResumed]_taskVars
  BY <1>1, MutexNextSuspension
<1> QED
  BY <1>1, MutexInvariant, PTL DEF MutexSpec, SuspensionHolds, OnlyResumed

-----------------------------------------------------------------------------
(* Lists of mutexes: mtxlist and mtxnext.                                   *)

Closed(next, first, S) == ({first} \cup {next[n] : n \in S}) \ {NoObj} \subseteq S

\* The list that starts at first is made of the mutexes in O, each linked once:
\* the first has no predecessor, no two have the same successor, and all are reached.
HoldsList(next, first, O) ==
  /\ first \in O \cup {NoObj}
  /\ \A n \in O : next[n] \in O \cup {NoObj} /\ (next[n] = first => first = NoObj)
  /\ \A n1, n2 \in O : next[n1] = next[n2] /\ next[n1] # NoObj => n1 = n2
  /\ \A S \in SUBSET Mutex : Closed(next, first, S) => O \subseteq S

Links0 == [Mutex -> Mutex \cup {NoObj}]

LEMMA ChainIsList ==
  ASSUME NEW next \in Links0, NEW first, NEW O \in SUBSET Mutex, HoldsList(next, first, O)
  PROVE  chain_from(next, first) = O
<1>1. Closed(next, first, O)
  BY DEF HoldsList, Closed
<1> QED
  BY <1>1 DEF HoldsList, Closed, chain_from

LEMMA NoMutexes ==
  ASSUME NEW next \in Links0
  PROVE  /\ HoldsList(next, NoObj, {})
         /\ \A O \in SUBSET Mutex : HoldsList(next, NoObj, O) => O = {}
<1>1. Closed(next, NoObj, {})
  BY DEF Closed
<1>2. HoldsList(next, NoObj, {})
  BY DEF HoldsList
<1>3. ASSUME NEW O \in SUBSET Mutex, HoldsList(next, NoObj, O) PROVE O = {}
  BY <1>1, <1>3 DEF HoldsList
<1> QED
  BY <1>2, <1>3

\* The list of a task depends on the links of its own mutexes only.
LEMMA ListFrame ==
  ASSUME NEW next \in Links0, NEW next1 \in Links0, NEW first, NEW O \in SUBSET Mutex,
         HoldsList(next, first, O), \A n \in O : next1[n] = next[n]
  PROVE  HoldsList(next1, first, O)
<1>1. ASSUME NEW S \in SUBSET Mutex, Closed(next1, first, S)
      PROVE  O \subseteq S
  <2>1. Closed(next, first, S \cap O)
    BY <1>1 DEF HoldsList, Closed
  <2> QED
    BY <2>1 DEF HoldsList
<1> QED
  BY <1>1 DEF HoldsList

\* A mutex is put before the others.
LEMMA ListPush ==
  ASSUME NEW next \in Links0, NEW next1 \in Links0, NEW first, NEW O \in SUBSET Mutex,
         HoldsList(next, first, O), NEW m \in Mutex \ O,
         \A n \in O : next1[n] = next[n], next1[m] = first
  PROVE  HoldsList(next1, m, O \cup {m})
<1>1. ASSUME NEW S \in SUBSET Mutex, Closed(next1, m, S)
      PROVE  O \cup {m} \subseteq S
  <2>1. m \in S
    BY <1>1, MutexIsObj DEF Closed
  <2>2. Closed(next, first, S \cap O)
    BY <1>1, <2>1 DEF HoldsList, Closed
  <2> QED
    BY <2>1, <2>2 DEF HoldsList
<1>2. \A n \in O \cup {m} : next1[n] \in O \cup {m, NoObj} /\ next1[n] # m
  BY MutexIsObj DEF HoldsList
<1>3. \A n1, n2 \in O \cup {m} : next1[n1] = next1[n2] /\ next1[n1] # NoObj => n1 = n2
  BY DEF HoldsList
<1> QED
  BY <1>1, <1>2, <1>3 DEF HoldsList

\* A mutex is taken out, wherever it stands.
LEMMA ListUnlink ==
  ASSUME NEW next \in Links0, NEW next1 \in Links0, NEW first, NEW O \in SUBSET Mutex,
         HoldsList(next, first, O), NEW m \in O,
         \A n \in O \ {m} : next1[n] = IF next[n] = m THEN next[m] ELSE next[n]
  PROVE  HoldsList(next1, IF first = m THEN next[m] ELSE first, O \ {m})
<1> DEFINE P  == O \ {m}
           f1 == IF first = m THEN next[m] ELSE first
<1>1. m # NoObj /\ first \in O \cup {NoObj} /\ next[m] # m /\ next[m] \in O \cup {NoObj}
  <2>1. m # NoObj /\ first \in O \cup {NoObj} /\ next[m] \in O \cup {NoObj}
    BY MutexIsObj DEF HoldsList
  <2>2. next[m] # m
    <3>1. SUFFICES ASSUME next[m] = m PROVE FALSE
      OBVIOUS
    <3>2. Closed(next, first, P)
      BY <2>1, <3>1 DEF HoldsList, Closed
    <3> QED
      BY <3>2 DEF HoldsList
  <2> QED
    BY <2>1, <2>2
<1>2. f1 \in P \cup {NoObj}
  BY <1>1
<1>3. ASSUME NEW n \in P
      PROVE  next1[n] \in P \cup {NoObj} /\ (next1[n] = f1 => f1 = NoObj)
  <2>1. next[n] \in O \cup {NoObj} /\ (next[n] = first => first = NoObj)
    BY <1>3 DEF HoldsList
  <2>2. next[m] = first => first = NoObj
    BY DEF HoldsList
  <2>3. next[n] = next[m] => next[n] = NoObj
    BY <1>3 DEF HoldsList
  <2>4. CASE next[n] = m
    BY <1>1, <1>3, <2>1, <2>2, <2>4
  <2>5. CASE next[n] # m
    BY <1>1, <1>3, <2>1, <2>3, <2>5
  <2> QED
    BY <2>4, <2>5
<1>4. ASSUME NEW n1 \in P, NEW n2 \in P, next1[n1] = next1[n2], next1[n1] # NoObj
      PROVE  n1 = n2
  <2>1. \A a, b \in O : next[a] = next[b] /\ next[a] # NoObj => a = b
    BY DEF HoldsList
  <2>2. (next[n1] # next[m] /\ next[n2] # next[m]) \/ next[m] = NoObj
    BY <1>4, <2>1
  <2> QED
    BY <1>1, <1>4, <2>1, <2>2
<1>5. ASSUME NEW S \in SUBSET Mutex, Closed(next1, f1, S)
      PROVE  P \subseteq S
  <2> DEFINE T == (S \cap P) \cup {m}
  <2>1. CASE first = m
    <3>1. \A n \in P : next[n] # m
      BY <1>1, <2>1 DEF HoldsList
    <3>2. Closed(next, first, T)
      BY <1>1, <1>5, <2>1, <3>1 DEF HoldsList, Closed
    <3> QED
      BY <3>2 DEF HoldsList
  <2>2. ASSUME first # m, NEW p \in S \cap P, next[p] = m
        PROVE  P \subseteq S
    <3>1. next[m] \in S \cup {NoObj}
      BY <1>5, <2>2 DEF Closed
    <3>2. \A n \in S \cap P : next[n] \in S \cup {m, NoObj}
      BY <1>5 DEF Closed
    <3>3. first \in S \cup {NoObj}
      BY <1>5, <2>2 DEF Closed
    <3>4. Closed(next, first, T)
      BY <1>1, <2>2, <3>1, <3>2, <3>3 DEF HoldsList, Closed
    <3> QED
      BY <3>4 DEF HoldsList
  <2>3. CASE first # m /\ \A p \in S \cap P : next[p] # m
    <3>1. Closed(next, first, S \cap P)
      BY <1>1, <1>5, <2>3 DEF HoldsList, Closed
    <3> QED
      BY <3>1 DEF HoldsList
  <2> QED
    BY <2>1, <2>2, <2>3
<1> QED
  BY <1>2, <1>3, <1>4, <1>5 DEF HoldsList

-----------------------------------------------------------------------------
(* Who holds what.                                                          *)

\* While the mutexes of a task are freed, loop.obj is where its list starts.
list_head(t) == IF loop.op = "free" /\ t = loop.task THEN loop.obj ELSE k.mtxlist[t]
owned(t) == {m \in k.live \cap Mutex : k.mtxtsk[m] = t}

OwnLists ==
  \A t \in Task : k.task_state[t] # "DELETED" => HoldsList(k.mtxnext, list_head(t), owned(t))

\* An owner is there, and it does not wait for what it owns.
OwnersLive ==
  \A m \in k.live \cap Mutex :
    /\ k.mtxtsk[m] # NoTask => k.task_state[k.mtxtsk[m]] # "DELETED"
    /\ \A u \in Task : WaitsFor(u, m) => k.mtxtsk[m] \notin {u, NoTask}

DyingLives == loop.op = "free" => k.task_state[loop.task] # "DELETED"

OwnInv == OwnLists /\ OwnersLive /\ DyingLives

LEMMA HeldTypes ==
  ASSUME NEW K, Consistent(K)
  PROVE  /\ K.mtxnext \in Links0 /\ K.mtxtsk \in [Mutex -> Task \cup {NoTask}]
         /\ K.mtxlist \in [Task -> Mutex \cup {NoObj}] /\ K \in KernelState
         /\ \A m \in Mutex : K.mtxtsk[m] # Idle
BY DEF Consistent, KernelState, IdleOK, Links0

\* A step that leaves the lists of mutexes alone.
LEMMA QuietOwn ==
  ASSUME OwnInv, UNCHANGED <<k.mtxtsk, k.mtxnext, k.mtxlist>>,
         k'.live \cap Mutex = k.live \cap Mutex, DyingLives',
         \A t \in Task : k'.task_state[t] # "DELETED" =>
           k.task_state[t] # "DELETED" /\ list_head(t)' = list_head(t),
         \A t \in Task : k'.task_state[t] = "DELETED" =>
           k.task_state[t] = "DELETED" \/ owned(t) = {},
         \A t \in Task, m \in k.live \cap Mutex : WaitsFor(t, m)' =>
           WaitsFor(t, m) \/ k.mtxtsk[m] \notin {t, NoTask},
         \A m \in Mutex : k.mtxtsk[m] \in Task \cup {NoTask}
  PROVE  OwnInv'
<1>1. \A t \in Task : owned(t)' = owned(t)
  BY DEF owned
<1>2. OwnLists'
  BY <1>1 DEF OwnInv, OwnLists
<1>3. OwnersLive'
  <2>1. ASSUME NEW m \in k.live \cap Mutex, k.mtxtsk[m] # NoTask
        PROVE  k'.task_state[k.mtxtsk[m]] # "DELETED"
    BY <2>1 DEF OwnInv, OwnersLive, owned
  <2>2. ASSUME NEW m \in k.live \cap Mutex, NEW u \in Task, WaitsFor(u, m)'
        PROVE  k.mtxtsk[m] \notin {u, NoTask}
    BY <2>2 DEF OwnInv, OwnersLive
  <2> QED
    BY <2>1, <2>2 DEF OwnersLive
<1> QED
  BY <1>2, <1>3 DEF OwnInv

\* The waiters of a mutex that has no owner.
LEMMA FreeHasNoWaiters ==
  ASSUME OwnInv, NEW m \in k.live \cap Mutex, k.mtxtsk[m] = NoTask
  PROVE  NobodyWaits(m)
BY DEF OwnInv, OwnersLive, NobodyWaits

\* The lists of several tasks, which share no mutex.
Lists(next, head, own, T) ==
  /\ \A t \in T : HoldsList(next, head[t], own[t])
  /\ \A t, u \in T : t # u => own[t] \cap own[u] = {}

Elsewhere(head, head1, own, own1, T, d) ==
  \A t \in T \ {d} : head1[t] = head[t] /\ own1[t] = own[t]

LEMMA DropFrom ==
  ASSUME NEW next \in Links0, NEW next1 \in Links0, NEW T, NEW head, NEW own,
         NEW head1, NEW own1, NEW d \in T, NEW m \in own[d],
         \A t \in T : own[t] \in SUBSET Mutex,
         Lists(next, head, own, T), Elsewhere(head, head1, own, own1, T, d),
         head1[d] = IF head[d] = m THEN next[m] ELSE head[d], own1[d] = own[d] \ {m},
         \A n \in own[d] \ {m} : next1[n] = IF next[n] = m THEN next[m] ELSE next[n],
         \A n \in Mutex \ own[d] : next1[n] = next[n]
  PROVE  Lists(next1, head1, own1, T)
<1>1. HoldsList(next1, head1[d], own1[d])
  <2>1. HoldsList(next, head[d], own[d]) /\ own[d] \in SUBSET Mutex
    BY DEF Lists
  <2>2. HoldsList(next1, IF head[d] = m THEN next[m] ELSE head[d], own[d] \ {m})
    BY <2>1, ListUnlink
  <2> QED
    BY <2>2
<1>2. ASSUME NEW t \in T \ {d}
      PROVE  HoldsList(next1, head1[t], own1[t])
  <2>1. HoldsList(next, head[t], own[t]) /\ own[t] \in SUBSET Mutex
    BY DEF Lists
  <2>2. \A n \in own[t] : next1[n] = next[n]
    BY <2>1 DEF Lists
  <2>3. HoldsList(next1, head[t], own[t])
    BY <2>1, <2>2, ListFrame
  <2> QED
    BY <2>3 DEF Elsewhere
<1>3. \A t, u \in T : t # u => own1[t] \cap own1[u] = {}
  BY DEF Lists, Elsewhere
<1> QED
  BY <1>1, <1>2, <1>3 DEF Lists

LEMMA GiveTo ==
  ASSUME NEW next \in Links0, NEW next1 \in Links0, NEW T, NEW head, NEW own,
         NEW head1, NEW own1, NEW t \in T, NEW m \in Mutex,
         \A u \in T : own[u] \in SUBSET (Mutex \ {m}),
         Lists(next, head, own, T), Elsewhere(head, head1, own, own1, T, t),
         head1[t] = m, own1[t] = own[t] \cup {m},
         next1[m] = head[t], \A n \in Mutex \ {m} : next1[n] = next[n]
  PROVE  Lists(next1, head1, own1, T)
<1>1. HoldsList(next1, head1[t], own1[t])
  <2>1. HoldsList(next, head[t], own[t]) /\ own[t] \in SUBSET Mutex /\ m \in Mutex \ own[t]
    BY DEF Lists
  <2>2. \A n \in own[t] : next1[n] = next[n]
    BY <2>1
  <2>3. HoldsList(next1, m, own[t] \cup {m})
    BY <2>1, <2>2, ListPush
  <2> QED
    BY <2>3
<1>2. ASSUME NEW u \in T \ {t}
      PROVE  HoldsList(next1, head1[u], own1[u])
  <2>1. HoldsList(next, head[u], own[u]) /\ own[u] \in SUBSET Mutex /\ m \notin own[u]
    BY DEF Lists
  <2>2. \A n \in own[u] : next1[n] = next[n]
    BY <2>1
  <2>3. HoldsList(next1, head[u], own[u])
    BY <2>1, <2>2, ListFrame
  <2> QED
    BY <2>3 DEF Elsewhere
<1>3. \A u, v \in T : u # v => own1[u] \cap own1[v] = {}
  BY DEF Lists, Elsewhere
<1> QED
  BY <1>1, <1>2, <1>3 DEF Lists

heads == [t \in Task |-> list_head(t)]
owns == [t \in Task |-> owned(t)]
alive == {t \in Task : k.task_state[t] # "DELETED"}

LEMMA OwnListsAsLists == OwnLists <=> Lists(k.mtxnext, heads, owns, alive)
<1>1. \A t, u \in Task : t # u => owned(t) \cap owned(u) = {}
  BY DEF owned
<1> QED
  BY <1>1 DEF OwnLists, Lists, heads, owns, alive

LEMMA OwnTypes ==
  ASSUME TaskInv, loop \in Loop
  PROVE  /\ heads \in [Task -> Mutex \cup {NoObj}] /\ owns \in [Task -> SUBSET Mutex]
         /\ alive \in SUBSET Task
<1>1. \A t \in Task : list_head(t) \in Mutex \cup {NoObj}
  BY InvFacts, HeldTypes DEF list_head, TaskInv, LoopOK
<1> QED
  BY <1>1 DEF heads, owns, alive, owned

\* A mutex changes hands: its new owner is there and does not wait for it.
LEMMA OwnersStep ==
  ASSUME TaskInv, OwnersLive, Calm, NEW m \in Mutex, NEW o \in Task \cup {NoTask},
         \A t \in Task : k'.task_state[t] = "DELETED" => k.task_state[t] = "DELETED",
         k'.mtxtsk = [k.mtxtsk EXCEPT ![m] = o],
         o # NoTask => k'.task_state[o] # "DELETED",
         \A u \in Task : k'.task_state[u] \in Pending /\ k'.block_obj[u] = m
                            => o \notin {u, NoTask}
  PROVE  OwnersLive'
<1>1. k.mtxtsk \in [Mutex -> Task \cup {NoTask}] /\ k'.live = k.live
  BY InvFacts, HeldTypes DEF Calm
<1>2. \A u \in Task, n \in Mutex : WaitsFor(u, n)' => WaitsFor(u, n)
  BY DEF Calm, StartsNoWait, WaitsFor
<1>3. ASSUME NEW n \in k.live \cap Mutex, NEW u \in Task
      PROVE  /\ k'.mtxtsk[n] # NoTask => k'.task_state[k'.mtxtsk[n]] # "DELETED"
             /\ WaitsFor(u, n)' => k'.mtxtsk[n] \notin {u, NoTask}
  <2>1. CASE n = m
    BY <1>1, <2>1 DEF WaitsFor
  <2>2. CASE n # m
    BY <1>1, <1>2, <1>3, <2>2 DEF OwnersLive
  <2> QED
    BY <2>1, <2>2
<1> QED
  BY <1>1, <1>3 DEF OwnersLive

\* Who starts and who ends the release of a task's mutexes.
LEMMA FreeLoop ==
  ASSUME TaskInv, TaskNext
  PROVE  \/ loop' = loop
         \/ loop.op # "free" /\ loop'.op # "free"
         \/ FreeMutex \/ FinishDelete
         \/ \E t \in Deletable : raw_task_delete(t)
<1>1. loop \in Loop
  BY InvFacts
<1>2. CASE loop = NoLoop /\ loop' = NoLoop
  BY <1>2
<1>3. CASE raw_os_start \/ tick_list_update
  BY <1>3 DEF raw_os_start, tick_list_update
<1>4. CASE raw_time_tick \/ tick_list_done
  BY <1>1, <1>4 DEF raw_time_tick, tick_list_done, Loop, NoLoop, IsrRuns
<1> QED
  BY <1>2, <1>3, <1>4, LoopSteps

LEMMA OwnedStep ==
  ASSUME TaskInv, k'.live = k.live, NEW m \in k.live \cap Mutex, NEW o \in Task \cup {NoTask},
         k'.mtxtsk = [k.mtxtsk EXCEPT ![m] = o]
  PROVE  \A t \in Task : owned(t)' = IF t = o THEN owned(t) \cup {m} ELSE owned(t) \ {m}
<1>1. k.mtxtsk \in [Mutex -> Task \cup {NoTask}]
  BY InvFacts, HeldTypes
<1> QED
  BY <1>1 DEF owned

LEMMA NewOwnLists ==
  ASSUME NEW head, NEW own, NEW T, Lists(k'.mtxnext, head, own, T),
         \A t \in Task : k'.task_state[t] # "DELETED" =>
           t \in T /\ list_head(t)' = head[t] /\ owned(t)' = own[t]
  PROVE  OwnLists'
BY DEF OwnLists, Lists

\* One mutex of a task that is being deleted becomes free or is handed on.
LEMMA FreeMutexOwn ==
  ASSUME MutexInv, OwnInv, FreeMutex
  PROVE  OwnInv'
<1> DEFINE m == loop.obj
           d == loop.task
           next == k.mtxnext
           h1 == [heads EXCEPT ![d] = IF heads[d] = m THEN next[m] ELSE heads[d]]
           o1 == [owns EXCEPT ![d] = owns[d] \ {m}]
           t == Head(k.block_list[m])
<1>1. /\ TaskInv /\ loop.op = "free" /\ m \in Mutex /\ m # NoObj /\ m \in Obj /\ d \in Task
      /\ loop \in Loop /\ loop' = [loop EXCEPT !.obj = next[m]]
  BY InvFacts, MutexIsObj DEF FreeMutex, MutexInv, TaskInv, LoopOK
<1>2. loop'.op = "free" /\ loop'.task = d /\ loop'.obj = next[m] /\ loop # NoLoop
  BY <1>1, NoLoopOK DEF Loop
<1>3. Calm /\ FreeOne
  BY <1>1, FreeMutexInv
<1>4. \A u \in Task : k'.task_state[u] = "DELETED" <=> k.task_state[u] = "DELETED"
  <2>1. TaskNext /\ ~ FinishDelete
    BY <1>1 DEF TaskNext, KernelNext, FinishDelete
  <2>2. \A u \in Task : ~ raw_task_create(u)
    BY <1>2 DEF raw_task_create, Boot, TaskRuns, TaskAt
  <2> QED
    BY <1>1, <2>1, <2>2, TaskNextDeletes, TaskNextCreates
<1>5. /\ next \in Links0 /\ heads \in [Task -> Mutex \cup {NoObj}]
      /\ owns \in [Task -> SUBSET Mutex] /\ alive \in SUBSET Task
      /\ k.mtxtsk \in [Mutex -> Task \cup {NoTask}] /\ k.mtxlist \in [Task -> Mutex \cup {NoObj}]
  BY <1>1, InvFacts, HeldTypes, OwnTypes
<1>6. /\ d \in alive /\ heads[d] = m /\ m \in owned(d) /\ owns[d] = owned(d)
      /\ \A n \in owned(d) : next[n] # m
  <2>1. d \in alive /\ heads[d] = m /\ owns[d] = owned(d)
    BY <1>1 DEF OwnInv, DyingLives, alive, heads, owns, list_head
  <2>2. HoldsList(next, m, owned(d))
    BY <1>1, <2>1 DEF OwnInv, OwnLists, alive, list_head
  <2> QED
    BY <1>1, <2>1, <2>2 DEF HoldsList
<1>7. m \in k.live \cap Mutex /\ k.mtxtsk[m] = d
  BY <1>6 DEF owned
<1> HIDE DEF m, d, next, t
<1>8. Lists(next, h1, o1, alive)
  <2>1. Lists(next, heads, owns, alive)
    BY OwnListsAsLists DEF OwnInv, next
  <2>2. m \in owns[d] /\ \A n \in owns[d] \ {m} : next[n] = IF next[n] = m THEN next[m] ELSE next[n]
    BY <1>6
  <2>3. /\ Elsewhere(heads, h1, owns, o1, alive, d) /\ o1[d] = owns[d] \ {m}
        /\ h1[d] = IF heads[d] = m THEN next[m] ELSE heads[d]
        /\ \A u \in alive : owns[u] \in SUBSET Mutex
    BY <1>1, <1>5 DEF Elsewhere
  <2> HIDE DEF h1, o1
  <2> QED
    BY <1>5, <1>6, <2>1, <2>2, <2>3, DropFrom
<1>9. h1 \in [Task -> Mutex \cup {NoObj}] /\ o1 \in [Task -> SUBSET Mutex]
  BY <1>1, <1>5 DEF Links0
<1> HIDE DEF h1, o1
<1>10. DyingLives' /\ \A u \in Task : k'.task_state[u] # "DELETED" => u \in alive
  BY <1>1, <1>2, <1>4, <1>6 DEF DyingLives, alive, d
<1>11. CASE k.block_list[m] = <<>>
  <2>1. /\ k'.mtxtsk = [k.mtxtsk EXCEPT ![m] = NoTask] /\ k'.mtxnext = next
        /\ k'.mtxlist = k.mtxlist
    BY <1>1, <1>3, <1>11, InvFacts DEF FreeOne, SameHeld, KernelState, m, next
  <2>2. \A u \in Task : ~ (k'.task_state[u] \in Pending /\ k'.block_obj[u] = m)
    <3>1. NobodyWaits(m)
      BY <1>1, <1>11, EmptyList DEF Waiters
    <3> QED
      BY <1>3, <3>1 DEF Calm, StartsNoWait, NobodyWaits, WaitsFor
  <2>3. OwnersLive'
    BY <1>1, <1>3, <1>4, <2>1, <2>2, OwnersStep DEF OwnInv
  <2>4. \A u \in Task : owned(u)' = owned(u) \ {m}
    BY <1>1, <1>3, <1>7, <2>1, OwnedStep, MutexIsObj DEF Calm
  <2>5. \A u \in Task : owned(u)' = o1[u]
    BY <1>1, <1>5, <1>6, <1>7, <2>4 DEF owns, owned, o1
  <2>6. \A u \in Task : list_head(u)' = h1[u]
    BY <1>1, <1>2, <1>5, <1>6, <2>1 DEF list_head, heads, h1, m, d
  <2>7. OwnLists'
    BY <1>8, <1>10, <2>1, <2>5, <2>6, NewOwnLists
  <2> QED
    BY <1>10, <2>3, <2>7 DEF OwnInv
<1>12. CASE k.block_list[m] # <<>>
  <2>1. /\ t \in Task /\ WaitsFor(t, m) /\ k'.task_state[t] \in Awake
        /\ SameHeld(push_mutex(k, t, m), k')
    BY <1>3, <1>12 DEF FreeOne, WaitsFor, t, m
  <2>2. t # d /\ t \in alive /\ t # NoTask
    <3>1. k.mtxtsk[m] # t
      BY <1>7, <2>1 DEF OwnInv, OwnersLive
    <3> QED
      BY <1>7, <2>1, <3>1, MutexIsObj DEF alive, WaitsFor, Pending
  <2>3. /\ k'.mtxtsk = [k.mtxtsk EXCEPT ![m] = t]
        /\ k'.mtxnext = [next EXCEPT ![m] = k.mtxlist[t]]
        /\ k'.mtxlist = [k.mtxlist EXCEPT ![t] = m]
    <3>1. k \in KernelState /\ t \in Task /\ m \in Mutex
      BY <1>1, <2>1, InvFacts
    <3> QED
      BY <2>1, <3>1, PushFields DEF SameHeld, next
  <2>4. h1[t] = k.mtxlist[t] /\ o1[t] = owned(t)
    BY <1>5, <2>1, <2>2 DEF heads, owns, list_head, h1, o1, d
  <2> DEFINE h2 == [h1 EXCEPT ![t] = m]
             o2 == [o1 EXCEPT ![t] = o1[t] \cup {m}]
  <2>5. \A u \in alive : o1[u] \in SUBSET (Mutex \ {m})
    BY <1>5, <1>7 DEF owns, owned, alive, o1
  <2>6. k'.mtxnext \in Links0
    BY <1>1, <1>5, <2>1, <2>3 DEF Links0
  <2>7. Lists(k'.mtxnext, h2, o2, alive)
    <3>1. Elsewhere(h1, h2, o1, o2, alive, t) /\ h2[t] = m /\ o2[t] = o1[t] \cup {m}
      BY <1>5, <1>9, <2>1 DEF Elsewhere
    <3>2. k'.mtxnext[m] = h1[t] /\ \A n \in Mutex \ {m} : k'.mtxnext[n] = next[n]
      BY <1>1, <1>5, <2>3, <2>4 DEF Links0
    <3> HIDE DEF h2, o2
    <3> QED
      BY <1>1, <1>5, <1>8, <2>2, <2>5, <2>6, <3>1, <3>2, GiveTo
  <2>8. \A u \in Task : owned(u)' = IF u = t THEN owned(u) \cup {m} ELSE owned(u) \ {m}
    BY <1>1, <1>3, <1>7, <2>1, <2>3, OwnedStep DEF Calm
  <2>9. \A u \in Task : owned(u)' = o2[u]
    BY <1>5, <1>6, <1>7, <1>9, <2>1, <2>2, <2>4, <2>8 DEF owns, owned, o1
  <2>10. \A u \in Task : list_head(u)' = h2[u]
    BY <1>1, <1>2, <1>5, <1>6, <1>9, <2>1, <2>2, <2>3 DEF list_head, heads, h1, m, d
  <2> HIDE DEF h2, o2
  <2>11. OwnLists'
    BY <1>10, <2>7, <2>9, <2>10, NewOwnLists
  <2>12. OwnersLive'
    <3>1. \A u \in Task : k'.task_state[u] \in Pending => t \notin {u, NoTask}
      BY <2>1, <2>2 DEF Awake, Pending
    <3>2. k'.task_state[t] # "DELETED"
      BY <2>1 DEF Awake
    <3>3. OwnersLive /\ t \in Task \cup {NoTask} /\ (t # NoTask => k'.task_state[t] # "DELETED")
          /\ \A u \in Task : k'.task_state[u] = "DELETED" => k.task_state[u] = "DELETED"
      BY <1>4, <2>1, <3>2 DEF OwnInv
    <3> QED
      BY <1>1, <1>3, <2>3, <3>1, <3>3, OwnersStep
  <2> QED
    BY <1>10, <2>11, <2>12 DEF OwnInv
<1> QED
  BY <1>11, <1>12

\* The block of a task is used again: the new task holds nothing.
LEMMA CreateOwn ==
  ASSUME MutexInv, OwnInv, NEW t \in Task, raw_task_create(t)
  PROVE  OwnInv'
<1>1. /\ TaskInv /\ loop = NoLoop /\ loop' = loop /\ Calm /\ Told
      /\ SameHeld([k EXCEPT !.bpriority[t] = InitPrio[t], !.mtxlist[t] = NoObj], k')
      /\ k.task_state[t] = "DELETED" /\ k'.task_state[t] \in Awake
  BY raw_task_createInv DEF MutexInv, raw_task_create, Boot, TaskRuns, TaskAt
<1>2. \A u \in Task \ {t} : k'.task_state[u] = k.task_state[u]
  BY <1>1 DEF Told, OneTask, Awake
<1>3. /\ k.mtxnext \in Links0 /\ k.mtxtsk \in [Mutex -> Task \cup {NoTask}]
      /\ k.mtxlist \in [Task -> Mutex \cup {NoObj}] /\ k \in KernelState
  BY <1>1, InvFacts, HeldTypes
<1>4. /\ k'.mtxtsk = k.mtxtsk /\ k'.mtxnext = k.mtxnext
      /\ k'.mtxlist = [k.mtxlist EXCEPT ![t] = NoObj] /\ k'.live = k.live
  BY <1>1, <1>3 DEF SameHeld, KernelState, Calm
<1>5. \A u \in Task : owned(u)' = owned(u)
  BY <1>4 DEF owned
<1>6. owned(t) = {}
  BY <1>1, MutexIsObj DEF OwnInv, OwnersLive, owned
<1>7. loop.op # "free" /\ loop'.op # "free"
  BY <1>1, NoLoopOK
<1>8. OwnLists'
  <2>1. HoldsList(k'.mtxnext, list_head(t)', owned(t)')
    BY <1>3, <1>4, <1>5, <1>6, <1>7, NoMutexes DEF list_head
  <2>2. ASSUME NEW u \in Task \ {t}, k'.task_state[u] # "DELETED"
        PROVE  HoldsList(k'.mtxnext, list_head(u)', owned(u)')
    BY <1>2, <1>3, <1>4, <1>5, <1>7, <2>2 DEF OwnInv, OwnLists, list_head
  <2> QED
    BY <2>1, <2>2 DEF OwnLists
<1>9. OwnersLive'
  <2>1. \A u \in Task, m \in Mutex : WaitsFor(u, m)' => WaitsFor(u, m)
    BY <1>1 DEF Calm, StartsNoWait, WaitsFor
  <2> QED
    BY <1>1, <1>2, <1>3, <1>4, <2>1 DEF OwnInv, OwnersLive
<1> QED
  BY <1>7, <1>8, <1>9 DEF OwnInv, DyingLives

\* The other steps of the tasks.  FinishDelete comes when nothing is left to free.
LEMMA TaskNextOwn ==
  ASSUME Redelete = FALSE, MutexInv, OwnInv, TaskNext
  PROVE  OwnInv'
<1>1. TaskInv /\ Calm /\ HeldStep /\ k'.live = k.live
  BY TaskNextCalm, TaskNextHeld DEF MutexInv, Calm
<1>2. CASE FreeMutex
  BY <1>2, FreeMutexOwn
<1>3. CASE \E t \in Task : raw_task_create(t)
  BY <1>3, CreateOwn
<1>4. CASE ~ FreeMutex /\ \A t \in Task : ~ raw_task_create(t)
  <2>1. UNCHANGED <<k.mtxtsk, k.mtxnext, k.mtxlist>>
    <3>1. ASSUME NEW t \in Task, NEW p, SameHeld([k EXCEPT !.bpriority[t] = p], k')
          PROVE  UNCHANGED <<k.mtxtsk, k.mtxnext, k.mtxlist>>
      BY <1>1, <3>1, InvFacts DEF SameHeld, KernelState
    <3> QED
      BY <1>1, <1>4, <3>1 DEF HeldStep, SameHeld
  <2>2. \A t \in Task : k'.task_state[t] # "DELETED" => k.task_state[t] # "DELETED"
    BY <1>1, <1>4, TaskNextCreates
  <2>3. \A t \in Task : k'.task_state[t] = "DELETED" =>
          k.task_state[t] = "DELETED" \/ (FinishDelete /\ loop.task = t)
    BY <1>1, TaskNextDeletes
  <2>4. /\ \A t \in Task, m \in k.live \cap Mutex : WaitsFor(t, m)' => WaitsFor(t, m)
        /\ \A m \in Mutex : k.mtxtsk[m] \in Task \cup {NoTask}
    BY <1>1, InvFacts, HeldTypes DEF Calm, StartsNoWait, WaitsFor
  <2>5. CASE FinishDelete
    <3>1. loop.op = "free" /\ loop.obj = NoObj /\ loop' = NoLoop /\ loop.task \in Task
      BY <1>1, <2>5 DEF FinishDelete, TaskInv, LoopOK
    <3>2. k'.task_state[loop.task] = "DELETED"
      BY <1>1, <2>5, FinishDeleteInv
    <3>3. owned(loop.task) = {}
      <4>1. HoldsList(k.mtxnext, NoObj, owned(loop.task))
        BY <3>1 DEF OwnInv, OwnLists, DyingLives, list_head
      <4>2. owned(loop.task) \in SUBSET Mutex /\ k.mtxnext \in Links0
        BY <1>1, InvFacts, HeldTypes DEF owned
      <4> QED
        BY <4>1, <4>2, NoMutexes
    <3>4. \A t \in Task : k'.task_state[t] # "DELETED" => list_head(t)' = list_head(t)
      BY <2>1, <3>1, <3>2, NoLoopOK DEF list_head
    <3>5. DyingLives'
      BY <3>1, NoLoopOK DEF DyingLives
    <3> QED
      BY <1>1, <2>1, <2>2, <2>3, <2>4, <3>3, <3>4, <3>5, QuietOwn
  <2>6. ASSUME NEW d \in Deletable, raw_task_delete(d), ~ FinishDelete
        PROVE  OwnInv'
    <3>1. /\ loop = NoLoop /\ k' = k /\ k.task_state[d] # "DELETED" /\ d \in Task
          /\ loop' = [NoLoop EXCEPT !.op = "free", !.task = d, !.obj = k.mtxlist[d]]
      BY <2>6, TaskAssumption DEF raw_task_delete, TaskRuns, TaskAt
    <3>2. loop'.op = "free" /\ loop'.task = d /\ loop'.obj = k.mtxlist[d]
      BY <3>1 DEF NoLoop
    <3>3. DyingLives' /\ \A t \in Task : list_head(t)' = list_head(t)
      BY <3>1, <3>2, NoLoopOK DEF DyingLives, list_head
    <3> QED
      BY <1>1, <2>1, <2>2, <2>3, <2>4, <2>6, <3>3, QuietOwn
  <2>7. CASE /\ ~ FinishDelete
             /\ loop' = loop \/ (loop.op # "free" /\ loop'.op # "free")
    <3>1. DyingLives' /\ \A t \in Task : list_head(t)' = list_head(t)
      <4>1. loop.op = "free" => loop.task \in Task
        BY <1>1 DEF TaskInv, LoopOK
      <4> QED
        BY <2>1, <2>3, <2>7, <4>1 DEF OwnInv, DyingLives, list_head
    <3> QED
      BY <1>1, <2>1, <2>2, <2>3, <2>4, <2>7, <3>1, QuietOwn
  <2> QED
    BY <1>1, <1>4, <2>5, <2>6, <2>7, FreeLoop
<1> QED
  BY <1>2, <1>3, <1>4

\* What every task that is there holds, but for one mutex.
without(m) == [u \in Task |-> owned(u) \ {m}]

LEMMA CalmLists ==
  ASSUME TaskInv, OwnInv, loop.op # "free"
  PROVE  Lists(k.mtxnext, k.mtxlist, owns, alive)
<1>1. \A t \in Task : heads[t] = k.mtxlist[t]
  BY DEF heads, list_head
<1> QED
  BY <1>1, OwnListsAsLists DEF OwnInv, Lists, alive

\* The owner of a mutex takes it off its list.
LEMMA UnlinkedLists ==
  ASSUME TaskInv, OwnInv, loop.op # "free", NEW m \in k.live \cap Mutex, k.mtxtsk[m] \in Task
  PROVE  LET U == unlink_mutex(k, k.mtxtsk[m], m)
         IN  Lists(U.mtxnext, U.mtxlist, without(m), alive)
<1> DEFINE U == unlink_mutex(k, k.mtxtsk[m], m)
<1>1. PICK d \in Task : d = k.mtxtsk[m]
  OBVIOUS
<1>2. k \in KernelState /\ k.mtxnext \in Links0 /\ k.mtxlist \in [Task -> Mutex \cup {NoObj}]
  BY InvFacts, HeldTypes
<1>3. d \in alive /\ m \in owned(d) /\ \A u \in Task : owned(u) \in SUBSET Mutex
  BY <1>1, MutexIsObj DEF OwnInv, OwnersLive, alive, owned
<1>4. Lists(k.mtxnext, k.mtxlist, owns, alive)
  BY CalmLists
<1>5. chain_from(k.mtxnext, k.mtxlist[d]) = owned(d)
  <2>1. HoldsList(k.mtxnext, k.mtxlist[d], owned(d))
    BY <1>3, <1>4 DEF Lists, owns
  <2> QED
    BY <1>2, <1>3, <2>1, ChainIsList
<1>6. /\ U.mtxlist = [k.mtxlist EXCEPT ![d] = IF @ = m THEN k.mtxnext[m] ELSE @]
      /\ U.mtxnext = [n \in Mutex |-> IF n \in owned(d) /\ k.mtxnext[n] = m
                                      THEN k.mtxnext[m] ELSE k.mtxnext[n]]
  BY <1>1, <1>2, <1>5, UnlinkFields
<1>7. /\ U.mtxnext \in Links0
      /\ \A n \in owned(d) \ {m} :
           U.mtxnext[n] = IF k.mtxnext[n] = m THEN k.mtxnext[m] ELSE k.mtxnext[n]
      /\ \A n \in Mutex \ owned(d) : U.mtxnext[n] = k.mtxnext[n]
  BY <1>2, <1>3, <1>6 DEF Links0
<1>8. /\ U.mtxlist[d] = IF k.mtxlist[d] = m THEN k.mtxnext[m] ELSE k.mtxlist[d]
      /\ without(m)[d] = owned(d) \ {m}
      /\ Elsewhere(k.mtxlist, U.mtxlist, owns, without(m), alive, d)
  <2>1. \A u \in alive \ {d} : m \notin owned(u)
    BY <1>1 DEF owned, alive
  <2> QED
    BY <1>2, <1>6, <2>1 DEF Elsewhere, without, owns, alive
<1>9. owns[d] = owned(d) /\ \A u \in alive : owns[u] \in SUBSET Mutex
  BY <1>3 DEF owns, alive
<1> HIDE DEF U
<1> QED
  BY <1>2, <1>3, <1>4, <1>7, <1>8, <1>9, DropFrom DEF U

\* A mutex that is on no list any more, or was on none, gets a new owner.
LEMMA TakenOwn ==
  ASSUME TaskInv, OwnInv, Calm, loop.op # "free", loop' = loop,
         \A u \in Task : k'.task_state[u] = "DELETED" <=> k.task_state[u] = "DELETED",
         NEW m \in k.live \cap Mutex, NEW t \in alive, NEW K \in KernelState,
         K.mtxtsk = k.mtxtsk, Lists(K.mtxnext, K.mtxlist, without(m), alive),
         SameChains(push_mutex(K, t, m), k'),
         ~ (k'.task_state[t] \in Pending /\ k'.block_obj[t] = m)
  PROVE  OwnInv'
<1>1. /\ k'.mtxtsk = [k.mtxtsk EXCEPT ![m] = t]
      /\ k'.mtxnext = [K.mtxnext EXCEPT ![m] = K.mtxlist[t]]
      /\ k'.mtxlist = [K.mtxlist EXCEPT ![t] = m]
  BY PushFields DEF SameChains, alive
<1>2. /\ K.mtxnext \in Links0 /\ K.mtxlist \in [Task -> Mutex \cup {NoObj}]
      /\ t \in Task /\ t # NoTask
  BY MutexIsObj DEF KernelState, Links0, alive
<1> DEFINE o2 == [without(m) EXCEPT ![t] = without(m)[t] \cup {m}]
<1>3. Lists(k'.mtxnext, k'.mtxlist, o2, alive)
  <2>1. k'.mtxnext \in Links0 /\ k'.mtxnext[m] = K.mtxlist[t]
        /\ \A n \in Mutex \ {m} : k'.mtxnext[n] = K.mtxnext[n]
    BY <1>1, <1>2 DEF Links0
  <2>2. /\ Elsewhere(K.mtxlist, k'.mtxlist, without(m), o2, alive, t)
        /\ k'.mtxlist[t] = m /\ o2[t] = without(m)[t] \cup {m}
    BY <1>1, <1>2 DEF Elsewhere, without, alive
  <2>3. \A u \in alive : without(m)[u] \in SUBSET (Mutex \ {m})
    BY DEF without, owned, alive
  <2> HIDE DEF o2
  <2> QED
    BY <1>2, <2>1, <2>2, <2>3, GiveTo
<1>4. \A u \in Task : owned(u)' = o2[u]
  <2>1. \A u \in Task : owned(u)' = IF u = t THEN owned(u) \cup {m} ELSE owned(u) \ {m}
    BY <1>1, <1>2, OwnedStep DEF Calm
  <2>2. \A u \in Task : without(m)[u] = owned(u) \ {m}
    BY DEF without
  <2>3. \A u \in Task : o2[u] = IF u = t THEN (owned(u) \ {m}) \cup {m} ELSE owned(u) \ {m}
    BY <1>2, <2>2 DEF without
  <2> HIDE DEF o2
  <2> QED
    BY <2>1, <2>3
<1> HIDE DEF o2
<1>5. OwnLists'
  <2>1. \A u \in Task : list_head(u)' = k'.mtxlist[u]
    BY DEF list_head
  <2> QED
    BY <1>3, <1>4, <2>1 DEF OwnLists, Lists, alive
<1>6. OwnersLive'
  <2>1. k'.task_state[t] # "DELETED" /\ OwnersLive
    BY <1>2 DEF OwnInv, alive
  <2> QED
    BY <1>1, <1>2, <2>1, OwnersStep
<1> QED
  BY <1>5, <1>6 DEF OwnInv, DyingLives

LEMMA raw_mutex_get_freeOwn ==
  ASSUME MutexInv, OwnInv, NEW m \in Mutex, raw_mutex_get_free(m)
  PROVE  OwnInv'
<1>1. /\ TaskInv /\ Calm /\ StatesKept(k, k') /\ loop' = loop
      /\ SameChains(push_mutex(k, active, m), k')
      /\ m \in k.live \cap Mutex /\ k.mtxtsk[m] = NoTask /\ TaskRuns
  BY raw_mutex_get_freeInv DEF MutexInv, raw_mutex_get_free, MayLock
<1>2. /\ loop.op # "free" /\ active \in alive /\ k.task_state[active] = "RDY"
      /\ k'.task_state = k.task_state
  BY <1>1, CallerFacts DEF alive, StatesKept
<1>3. Lists(k.mtxnext, k.mtxlist, without(m), alive)
  <2>1. \A u \in alive : without(m)[u] = owns[u]
    BY <1>1, MutexIsObj DEF without, owns, owned, alive
  <2> QED
    BY <1>1, <1>2, <2>1, CalmLists DEF Lists
<1>4. k \in KernelState /\ k'.task_state[active] \notin Pending
  BY <1>1, <1>2, InvFacts DEF Pending
<1> QED
  BY <1>1, <1>2, <1>3, <1>4, TakenOwn

LEMMA raw_mutex_putOwn ==
  ASSUME MutexInv, OwnInv, NEW m \in Mutex, raw_mutex_put(m)
  PROVE  OwnInv'
<1> DEFINE U == unlink_mutex(k, active, m)
<1>1. /\ TaskInv /\ Calm /\ loop' = loop /\ TaskRuns
      /\ m \in k.live \cap Mutex /\ k.mtxtsk[m] = active
      /\ Released(m) \/ \E t \in Task \ {Idle} : HandedOver(m, t)
  BY raw_mutex_putInv DEF MutexInv, raw_mutex_put
<1>2. loop.op # "free" /\ active \in Task /\ active # NoTask
  BY <1>1, CallerFacts, MutexIsObj
<1>3. Lists(U.mtxnext, U.mtxlist, without(m), alive)
  BY <1>1, <1>2, UnlinkedLists
<1>4. U \in KernelState /\ U.mtxtsk = k.mtxtsk
  BY <1>1, <1>2, InvFacts, unlink_mutexKeeps, UnlinkFields DEF StatesKept, Consistent
<1> HIDE DEF U
<1>5. CASE Released(m)
  <2>1. /\ k'.mtxtsk = [k.mtxtsk EXCEPT ![m] = NoTask]
        /\ k'.mtxnext = U.mtxnext /\ k'.mtxlist = U.mtxlist
    BY <1>4, <1>5 DEF Released, SameChains, KernelState, U
  <2>2. k'.task_state = k.task_state /\ k'.block_obj = k.block_obj
        /\ \A u \in Task : ~ (k.task_state[u] \in Pending /\ k.block_obj[u] = m)
    BY <1>5 DEF Released, StatesKept, NobodyWaits, WaitsFor
  <2>3. \A u \in Task : owned(u)' = without(m)[u]
    BY <1>1, <2>1, OwnedStep, MutexIsObj DEF Calm, without
  <2>4. \A u \in Task : list_head(u)' = k'.mtxlist[u]
    BY <1>1, <1>2 DEF list_head
  <2>5. OwnLists'
    BY <1>3, <2>1, <2>2, <2>3, <2>4 DEF OwnLists, Lists, alive
  <2>6. OwnersLive'
    BY <1>1, <2>1, <2>2, OwnersStep DEF OwnInv
  <2> QED
    BY <1>1, <1>2, <2>5, <2>6 DEF OwnInv, DyingLives
<1>6. ASSUME NEW t \in Task \ {Idle}, HandedOver(m, t)
      PROVE  OwnInv'
  <2>1. /\ t \in alive /\ k'.task_state[t] \in Awake /\ SameChains(push_mutex(U, t, m), k')
    BY <1>6 DEF HandedOver, WaitsFor, Pending, alive, U
  <2>2. \A u \in Task : k'.task_state[u] = "DELETED" <=> k.task_state[u] = "DELETED"
    BY <1>6, <2>1 DEF HandedOver, OneMoves, Awake, alive
  <2>3. k'.task_state[t] \notin Pending
    BY <2>1 DEF Awake, Pending
  <2> QED
    BY <1>1, <1>2, <1>3, <1>4, <2>1, <2>2, <2>3, TakenOwn
<1> QED
  BY <1>1, <1>5, <1>6

LEMMA raw_mutex_deleteOwn ==
  ASSUME MutexInv, OwnInv, NEW m \in Mutex, raw_mutex_delete(m)
  PROVE  OwnInv'
<1> DEFINE owner == k.mtxtsk[m]
           U     == IF owner = NoTask THEN k ELSE unlink_mutex(k, owner, m)
<1>1. /\ TaskInv /\ AsTheyAre /\ k'.live = k.live \ {m} /\ m \in k.live \cap Mutex
      /\ loop = NoLoop /\ loop'.op = "wake" /\ SameHeld(U, k')
  BY raw_mutex_deleteInv DEF MutexInv, raw_mutex_delete
<1>2. loop.op # "free" /\ k \in KernelState /\ owner \in Task \cup {NoTask}
  BY <1>1, NoLoopOK, InvFacts, HeldTypes
<1>3. Lists(U.mtxnext, U.mtxlist, without(m), alive) /\ U.mtxtsk = k.mtxtsk
  <2>1. CASE owner = NoTask
    <3>1. \A u \in alive : without(m)[u] = owns[u]
      BY <1>1, <2>1, MutexIsObj DEF without, owns, owned, alive
    <3> QED
      BY <1>1, <1>2, <2>1, <3>1, CalmLists DEF Lists
  <2>2. CASE owner # NoTask
    <3>1. U = unlink_mutex(k, k.mtxtsk[m], m) /\ k.mtxtsk[m] \in Task
      BY <1>2, <2>2
    <3> HIDE DEF U, owner
    <3>2. Lists(U.mtxnext, U.mtxlist, without(m), alive)
      BY <1>1, <1>2, <3>1, UnlinkedLists
    <3>3. PICK d \in Task : d = k.mtxtsk[m]
      BY <3>1
    <3>4. unlink_mutex(k, d, m).mtxtsk = k.mtxtsk
      BY <1>2, MutexIsObj DEF unlink_mutex, KernelState
    <3> QED
      BY <3>1, <3>2, <3>3, <3>4
  <2> QED
    BY <2>1, <2>2
<1> HIDE DEF U, owner
<1>4. k'.mtxtsk = k.mtxtsk /\ k'.mtxnext = U.mtxnext /\ k'.mtxlist = U.mtxlist
  BY <1>1, <1>3 DEF SameHeld
<1>5. \A u \in Task : /\ owned(u)' = without(m)[u] /\ list_head(u)' = k'.mtxlist[u]
                      /\ k'.task_state[u] = k.task_state[u]
  BY <1>1, <1>4 DEF owned, without, list_head, AsTheyAre
<1>6. OwnLists'
  BY <1>3, <1>4, <1>5 DEF OwnLists, Lists, alive
<1>7. OwnersLive'
  BY <1>1, <1>4 DEF OwnInv, OwnersLive, AsTheyAre, WaitsFor
<1> QED
  BY <1>1, <1>6, <1>7 DEF OwnInv, DyingLives

LEMMA raw_mutex_createOwn ==
  ASSUME MutexInv, OwnInv, NEW m \in Mutex, raw_mutex_create(m)
  PROVE  OwnInv'
<1>1. /\ TaskInv /\ AsTheyAre /\ m \notin k.live /\ k'.live = k.live \cup {m}
      /\ loop' = loop /\ SameHeld([k EXCEPT !.mtxtsk[m] = NoTask, !.mtxnext[m] = NoObj], k')
  BY raw_mutex_createInv DEF MutexInv
<1>2. loop = NoLoop /\ loop.op = "none"
  BY NoLoopOK DEF raw_mutex_create, Boot, Caller, TaskRuns, TaskAt, IsrRuns
<1>3. /\ k \in KernelState /\ k.mtxnext \in Links0
      /\ k.mtxtsk \in [Mutex -> Task \cup {NoTask}]
  BY <1>1, InvFacts, HeldTypes
<1>4. /\ k'.mtxtsk = [k.mtxtsk EXCEPT ![m] = NoTask]
      /\ k'.mtxnext = [k.mtxnext EXCEPT ![m] = NoObj] /\ k'.mtxlist = k.mtxlist
  BY <1>1, <1>3 DEF SameHeld, KernelState
<1>5. k'.mtxnext \in Links0
  BY <1>3, <1>4 DEF Links0
<1>6. \A u \in Task : /\ owned(u)' = owned(u) /\ list_head(u)' = list_head(u)
                      /\ owned(u) \in SUBSET Mutex /\ m \notin owned(u)
                      /\ k'.task_state[u] = k.task_state[u]
  BY <1>1, <1>3, <1>4, MutexIsObj DEF owned, list_head, AsTheyAre
<1>7. OwnLists'
  <2>1. ASSUME NEW u \in Task, k'.task_state[u] # "DELETED"
        PROVE  HoldsList(k'.mtxnext, list_head(u)', owned(u)')
    <3>1. HoldsList(k.mtxnext, list_head(u), owned(u))
      BY <1>6, <2>1 DEF OwnInv, OwnLists
    <3>2. \A n \in owned(u) : k'.mtxnext[n] = k.mtxnext[n]
      BY <1>3, <1>4, <1>6 DEF Links0
    <3>3. HoldsList(k'.mtxnext, list_head(u), owned(u))
      BY <1>3, <1>5, <1>6, <3>1, <3>2, ListFrame
    <3> QED
      BY <1>6, <3>3
  <2> QED
    BY <2>1 DEF OwnLists
<1>8. OwnersLive'
  <2>1. NobodyWaits(m)
    BY <1>1, <1>2 DEF MutexInv, DeletedIsEmpty
  <2>2. ASSUME NEW n \in k'.live \cap Mutex, NEW u \in Task
        PROVE  /\ k'.mtxtsk[n] # NoTask => k'.task_state[k'.mtxtsk[n]] # "DELETED"
               /\ WaitsFor(u, n)' => k'.mtxtsk[n] \notin {u, NoTask}
    <3>1. CASE n = m
      BY <1>1, <1>3, <1>4, <2>1, <3>1 DEF AsTheyAre, NobodyWaits, WaitsFor
    <3>2. CASE n # m
      BY <1>1, <1>3, <1>4, <2>2, <3>2 DEF AsTheyAre, WaitsFor, OwnInv, OwnersLive
    <3> QED
      BY <3>1, <3>2
  <2> QED
    BY <2>2, KernelAssumption DEF OwnersLive
<1> QED
  BY <1>1, <1>2, <1>7, <1>8 DEF OwnInv, DyingLives

\* The calls that hand no mutex over.
LEMMA QuietCalls ==
  ASSUME MutexInv, OwnInv, NEW m \in Mutex,
         \/ raw_mutex_get_nested(m) \/ raw_mutex_put_nested(m)
         \/ \E timeout \in Timeouts : raw_mutex_get(m, timeout)
  PROVE  OwnInv'
<1> DEFINE Quiet ==
      /\ TaskInv /\ TaskRuns /\ loop' = loop /\ SameChains(k, k') /\ k'.live = k.live
      /\ \A t \in Task : k'.task_state[t] = "DELETED" <=> k.task_state[t] = "DELETED"
      /\ \A t \in Task, n \in Mutex :
           WaitsFor(t, n)' => WaitsFor(t, n) \/ (t = active /\ n = m /\ k.mtxtsk[m] \notin {t, NoTask})
<1>1. Quiet
  <2>1. ASSUME NEW timeout \in Timeouts, raw_mutex_get(m, timeout)
        PROVE  Quiet
    <3>1. /\ Moves(k, k', active) /\ loop' = loop /\ k.task_state[active] = "RDY"
          /\ k'.task_state[active] \in Pending /\ k'.block_obj[active] = m
          /\ TaskRuns /\ k.mtxtsk[m] \notin {active, NoTask} /\ TaskInv
      BY <2>1, raw_mutex_getInv DEF MutexInv, raw_mutex_get
    <3> QED
      BY <3>1, HeldChains DEF Moves, OneMoves, WaitsFor, Pending
  <2>2. CASE raw_mutex_get_nested(m) \/ raw_mutex_put_nested(m)
    <3>1. TaskRuns /\ TaskInv /\ StatesKept(k, k') /\ SameChains(k, k') /\ loop' = loop
      BY <2>2, NestedInv DEF MutexInv, raw_mutex_get_nested, raw_mutex_put_nested
    <3> QED
      BY <3>1 DEF StatesKept, WaitsFor
  <2> QED
    BY <2>1, <2>2
<1>2. loop.op = "none" /\ \A n \in Mutex : k.mtxtsk[n] \in Task \cup {NoTask}
  BY <1>1, CallerFacts, InvFacts, HeldTypes
<1>3. /\ UNCHANGED <<k.mtxtsk, k.mtxnext, k.mtxlist>> /\ DyingLives'
      /\ \A t \in Task : list_head(t)' = list_head(t)
  BY <1>1, <1>2 DEF SameChains, DyingLives, list_head
<1> QED
  BY <1>1, <1>2, <1>3, QuietOwn

LEMMA WakeOwn ==
  ASSUME MutexInv, OwnInv, WakeNext \/ WakeDone
  PROVE  OwnInv'
<1>1. /\ TaskInv /\ Calm /\ SameHeld(k, k') /\ loop.op = "wake" /\ loop'.op \in {"wake", "none"}
      /\ \A t \in Task : k'.task_state[t] = "DELETED" => k.task_state[t] = "DELETED"
  BY WakeInv DEF MutexInv
<1>2. \A t \in Task : k'.task_state[t] # "DELETED" => k.task_state[t] # "DELETED"
  <2>1. CASE WakeDone
    BY <2>1 DEF WakeDone
  <2>2. CASE WakeNext
    <3>1. /\ loop.obj \in Mutex /\ Waiters(loop.obj) # <<>> /\ loop.status \in BlockState
          /\ k' = wake_up(k, Head(Waiters(loop.obj)), loop.status)
          /\ UNCHANGED <<sys, pc, call, loop>> /\ pc' \in [Task -> Place]
      BY <1>1, <2>2, InvFacts DEF WakeNext, Waiters, MutexInv, WakeOK, Loop, BlockState
    <3>2. \E t \in Task : Moves(k, k', t) /\ WaitsFor(t, loop.obj) /\ k'.task_state[t] \in Awake
      BY <1>1, <3>1, MutexIsObj, WakeHead
    <3> QED
      BY <3>2 DEF Moves, OneMoves, WaitsFor, Pending
  <2> QED
    BY <2>1, <2>2
<1>3. \A n \in Mutex : k.mtxtsk[n] \in Task \cup {NoTask}
  BY <1>1, InvFacts, HeldTypes
<1>4. /\ UNCHANGED <<k.mtxtsk, k.mtxnext, k.mtxlist>> /\ DyingLives'
      /\ \A t \in Task : list_head(t)' = list_head(t)
  BY <1>1 DEF SameHeld, DyingLives, list_head
<1>5. k'.live = k.live /\ \A t \in Task, n \in Mutex : WaitsFor(t, n)' => WaitsFor(t, n)
  BY <1>1 DEF Calm, StartsNoWait, WaitsFor
<1> QED
  BY <1>1, <1>2, <1>3, <1>4, <1>5, QuietOwn

LEMMA MutexNextOwn ==
  ASSUME Redelete = FALSE
  PROVE  MutexInv /\ OwnInv /\ [MutexNext]_taskVars => OwnInv'
<1>1. ASSUME MutexInv, OwnInv, UNCHANGED taskVars PROVE OwnInv'
  <2>1. UNCHANGED <<k, loop>>
    BY <1>1 DEF taskVars
  <2> QED
    BY <1>1, <2>1 DEF OwnInv, OwnLists, OwnersLive, DyingLives, list_head, owned, WaitsFor
<1>2. ASSUME MutexInv, OwnInv, NEW m \in Mutex,
             \/ raw_mutex_create(m) \/ raw_mutex_get_nested(m) \/ raw_mutex_get_free(m)
             \/ raw_mutex_put_nested(m) \/ raw_mutex_put(m) \/ raw_mutex_delete(m)
             \/ \E timeout \in Timeouts : raw_mutex_get(m, timeout)
      PROVE  OwnInv'
  BY <1>2, raw_mutex_createOwn, raw_mutex_get_freeOwn, raw_mutex_putOwn, raw_mutex_deleteOwn,
     QuietCalls
<1> QED
  BY <1>1, <1>2, TaskNextOwn, WakeOwn, MutexAssumption DEF MutexNext

LEMMA OwnInit == TaskInit => OwnInv
<1> SUFFICES ASSUME TaskInit PROVE OwnInv
  OBVIOUS
<1>1. /\ k.live = {} /\ k.mtxlist = [t \in Task |-> NoObj]
      /\ k.mtxnext = [m \in Mutex |-> NoObj] /\ loop.op = "none"
  BY NoLoopOK DEF TaskInit, InitKernel
<1>2. \A t \in Task : owned(t) = {} /\ list_head(t) = NoObj
  BY <1>1 DEF owned, list_head
<1>3. k.mtxnext \in Links0
  BY <1>1 DEF Links0
<1> QED
  BY <1>1, <1>2, <1>3, NoMutexes DEF OwnInv, OwnLists, OwnersLive, DyingLives

LEMMA ChainIsOwned ==
  ASSUME TaskInv, OwnInv, NEW t \in Task, Settled(t)
  PROVE  mutex_chain(k, t) = owned(t)
<1>1. list_head(t) = k.mtxlist[t] /\ k.task_state[t] # "DELETED"
  BY DEF Settled, dying, list_head
<1>2. HoldsList(k.mtxnext, k.mtxlist[t], owned(t))
  BY <1>1 DEF OwnInv, OwnLists
<1>3. owned(t) \in SUBSET Mutex /\ k.mtxnext \in Links0
  BY InvFacts, HeldTypes DEF owned
<1> QED
  BY <1>2, <1>3, ChainIsList DEF mutex_chain

\* mtxtsk and the linked lists agree: whoever takes, releases, hands over, deletes or
\* dies, the list of a task is exactly the mutexes it owns, each linked once, and a
\* mutex with waiters has an owner.
THEOREM OwnershipCorrect ==
  ASSUME Redelete = FALSE
  PROVE  MutexSpec => []OwnershipOK
<1>1. TaskInv /\ OwnInv => OwnershipOK
  <2> SUFFICES ASSUME TaskInv, OwnInv PROVE OwnershipOK
    OBVIOUS
  <2>1. \A t \in Task : Settled(t) => mutex_chain(k, t) = owned(t)
    BY ChainIsOwned
  <2>2. ASSUME NEW m \in k.live \cap Mutex, k.mtxtsk[m] = NoTask
        PROVE  k.block_list[m] = <<>>
    BY <2>2, FreeHasNoWaiters, EmptyList, MutexIsObj DEF Waiters
  <2> QED
    BY <2>1, <2>2 DEF OwnershipOK, owned
<1>2. MutexInv => TaskInv
  BY DEF MutexInv
<1> QED
  BY <1>1, <1>2, OwnInit, MutexNextOwn, MutexInvariant, PTL DEF MutexSpec

-----------------------------------------------------------------------------
(* Ceilings: what a task holds or waits for bounds its base priority.       *)

Concerned(t, m) == m \in k.live /\ Policy[m] = "ceiling" /\ (k.mtxtsk[m] = t \/ WaitsFor(t, m))
Bounded == \A t \in Task, m \in Mutex : Concerned(t, m) => Ceiling[m] <= k.bpriority[t]

\* raw_task_priority_change looks at block_obj to see what a task waits for: a task
\* that is there and does not wait has none.
NoStray ==
  \A t \in Task : k.task_state[t] \notin Pending \cup {"DELETED"} => k.block_obj[t] = NoObj

CeilingInv == Bounded /\ NoStray

\* Where a task forgets what it waited for.
LEMMA StrayStep ==
  ASSUME NoStray,
         \A t \in Task : k'.task_state[t] \notin Pending \cup {"DELETED"} =>
           \/ k'.block_obj[t] = NoObj
           \/ k.task_state[t] # "DELETED" /\ Forgets(k, k', t)
  PROVE  NoStray'
BY DEF NoStray, Forgets

\* A step after which a task is concerned with what it was concerned with before.
LEMMA BoundedStep ==
  ASSUME Bounded,
         \A t \in Task, m \in Mutex : Concerned(t, m)' =>
           \/ Concerned(t, m) /\ k'.bpriority[t] = k.bpriority[t]
           \/ Ceiling[m] <= k'.bpriority[t]
  PROVE  Bounded'
BY DEF Bounded

LEMMA TaskNextStray ==
  ASSUME TaskInv, NoStray, TaskNext
  PROVE  NoStray'
<1>1. CASE Told
  BY <1>1, StrayStep DEF Told, Informed
<1>2. CASE block_state_post_process
  BY <1>2, PostProcess DEF NoStray
<1> QED
  BY <1>1, <1>2, TaskNextTold

LEMMA PriorityChangeBounded ==
  ASSUME TaskInv, OwnInv, Bounded, NEW t \in Task, NEW p \in 0 .. PrioMax - 2,
         raw_task_priority_change(t, p), SameHeld([k EXCEPT !.bpriority[t] = p], k'),
         \A u \in Task, m \in Mutex : Concerned(u, m)' => Concerned(u, m)
  PROVE  Bounded'
<1>1. /\ loop.op # "free" /\ ~ exceeds_ceiling(k, t, p)
      /\ k.mtxtsk \in [Mutex -> Task \cup {NoTask}] /\ k.mtxnext \in Links0
  BY NoLoopOK, InvFacts, HeldTypes DEF raw_task_priority_change, TaskRuns, TaskAt
<1>2. k'.bpriority = [k.bpriority EXCEPT ![t] = p] /\ k.bpriority \in [Task -> Prio]
  BY InvFacts DEF SameHeld, KernelState
<1>3. ASSUME NEW m \in Mutex, Concerned(t, m)
      PROVE  Ceiling[m] <= p
  <2>1. m \in mutex_chain(k, t) \/ (k.block_obj[t] = m /\ m \in k.live)
    <3>1. CASE WaitsFor(t, m)
      BY <1>3, <3>1 DEF Concerned, WaitsFor
    <3>2. CASE k.mtxtsk[m] = t
      <4>1. m \in owned(t) /\ t \in alive /\ owned(t) \in SUBSET Mutex
        BY <1>3, <3>2, MutexIsObj DEF Concerned, owned, alive, OwnInv, OwnersLive
      <4>2. HoldsList(k.mtxnext, k.mtxlist[t], owned(t))
        BY <1>1, <4>1 DEF OwnInv, OwnLists, list_head, alive
      <4> QED
        BY <1>1, <4>1, <4>2, ChainIsList DEF mutex_chain
    <3> QED
      BY <1>3, <3>1, <3>2 DEF Concerned
  <2>2. ~ (p < Ceiling[m])
    BY <1>1, <1>3, <2>1 DEF exceeds_ceiling, Concerned
  <2>3. Ceiling[m] \in Int /\ p \in Int
    BY KernelAssumption
  <2> QED
    BY <2>2, <2>3
<1> QED
  BY <1>2, <1>3, BoundedStep

LEMMA TaskNextBounded ==
  ASSUME TaskInv, OwnInv, Bounded, TaskNext
  PROVE  Bounded'
<1>1. Calm /\ HeldStep /\ k \in KernelState
  BY TaskNextCalm, TaskNextHeld, InvFacts
<1>2. k'.live = k.live /\ \A u \in Task, m \in Mutex : WaitsFor(u, m)' => WaitsFor(u, m)
  BY <1>1 DEF Calm, StartsNoWait, WaitsFor
<1>3. CASE SameHeld(k, k')
  BY <1>2, <1>3, BoundedStep DEF SameHeld, Concerned
<1>4. CASE FreeMutex
  <2>1. FreeOne /\ loop.obj \in Mutex
    BY <1>4, FreeMutexInv DEF FreeMutex, TaskInv, LoopOK
  <2>2. CASE SameHeld([k EXCEPT !.mtxtsk[loop.obj] = NoTask], k')
    <3>1. k'.bpriority = k.bpriority /\ k'.mtxtsk = [k.mtxtsk EXCEPT ![loop.obj] = NoTask]
          /\ k.mtxtsk \in [Mutex -> Task \cup {NoTask}]
      BY <1>1, <2>2 DEF SameHeld, KernelState
    <3> QED
      BY <1>2, <2>1, <3>1, BoundedStep, MutexIsObj DEF Concerned
  <2>3. ASSUME NEW t \in Task, WaitsFor(t, loop.obj), SameHeld(push_mutex(k, t, loop.obj), k')
        PROVE  Bounded'
    <3>1. k'.bpriority = k.bpriority /\ k'.mtxtsk = [k.mtxtsk EXCEPT ![loop.obj] = t]
          /\ k.mtxtsk \in [Mutex -> Task \cup {NoTask}]
      BY <1>1, <2>1, <2>3, PushHeld, HeldChains
    <3> QED
      BY <1>2, <2>1, <2>3, <3>1, BoundedStep DEF Concerned
  <2> QED
    BY <2>1, <2>2, <2>3 DEF FreeOne, WaitsFor
<1>5. ASSUME NEW t \in Task, raw_task_create(t)
      PROVE  Bounded'
  <2>1. /\ SameHeld([k EXCEPT !.bpriority[t] = InitPrio[t], !.mtxlist[t] = NoObj], k')
        /\ k.task_state[t] = "DELETED"
    BY <1>5, raw_task_createInv
  <2>2. /\ k'.bpriority = [k.bpriority EXCEPT ![t] = InitPrio[t]] /\ k'.mtxtsk = k.mtxtsk
        /\ k.bpriority \in [Task -> Prio]
    BY <1>1, <2>1 DEF SameHeld, KernelState
  <2>3. \A m \in Mutex : ~ Concerned(t, m)
    BY <2>1, MutexIsObj DEF OwnInv, OwnersLive, Concerned, WaitsFor, Pending
  <2> QED
    BY <1>2, <2>2, <2>3, BoundedStep DEF Concerned
<1>6. ASSUME NEW t \in Task, NEW p \in 0 .. PrioMax - 2,
             raw_task_priority_change(t, p), SameHeld([k EXCEPT !.bpriority[t] = p], k')
      PROVE  Bounded'
  <2>1. k'.mtxtsk = k.mtxtsk
    BY <1>1, <1>6 DEF SameHeld, KernelState
  <2> QED
    BY <1>2, <1>6, <2>1, PriorityChangeBounded DEF Concerned
<1> QED
  BY <1>1, <1>3, <1>4, <1>5, <1>6 DEF HeldStep

LEMMA CallsKeepCeiling ==
  ASSUME MutexInv, OwnInv, CeilingInv, NEW m \in Mutex,
         \/ raw_mutex_create(m) \/ raw_mutex_get_nested(m) \/ raw_mutex_put_nested(m)
         \/ raw_mutex_delete(m) \/ WakeNext \/ WakeDone
  PROVE  CeilingInv'
<1>1. TaskInv /\ k \in KernelState /\ k.mtxtsk \in [Mutex -> Task \cup {NoTask}]
  BY InvFacts, HeldTypes DEF MutexInv
<1>2. CASE raw_mutex_get_nested(m) \/ raw_mutex_put_nested(m)
  <2>1. StatesKept(k, k') /\ SameChains(k, k')
    BY <1>2, NestedInv
  <2> QED
    BY <2>1, BoundedStep DEF StatesKept, SameChains, CeilingInv, NoStray, Concerned, WaitsFor
<1>3. CASE WakeNext \/ WakeDone
  <2>1. /\ Calm /\ SameHeld(k, k')
        /\ \A t \in Task : k'.task_state[t] \notin Pending \cup {"DELETED"} =>
             Forgets(k, k', t) /\ k.task_state[t] # "DELETED"
    BY <1>3, WakeInv
  <2>2. k'.live = k.live /\ \A u \in Task, n \in Mutex : WaitsFor(u, n)' => WaitsFor(u, n)
    BY <2>1 DEF Calm, StartsNoWait, WaitsFor
  <2> QED
    BY <2>1, <2>2, BoundedStep, StrayStep DEF CeilingInv, SameHeld, Concerned
<1>4. CASE raw_mutex_create(m)
  <2>1. /\ AsTheyAre /\ m \notin k.live /\ k'.live = k.live \cup {m}
        /\ SameHeld([k EXCEPT !.mtxtsk[m] = NoTask, !.mtxnext[m] = NoObj], k')
        /\ loop = NoLoop
    BY <1>4, raw_mutex_createInv DEF raw_mutex_create, Boot, Caller, TaskRuns, TaskAt, IsrRuns
  <2>2. k'.mtxtsk = [k.mtxtsk EXCEPT ![m] = NoTask] /\ k'.bpriority = k.bpriority
    BY <1>1, <2>1 DEF SameHeld, KernelState
  <2>3. NobodyWaits(m)
    BY <2>1, NoLoopOK DEF MutexInv, DeletedIsEmpty
  <2>4. \A u \in Task, n \in Mutex : Concerned(u, n)' => Concerned(u, n)
    BY <1>1, <2>1, <2>2, <2>3, MutexIsObj DEF AsTheyAre, Concerned, NobodyWaits, WaitsFor
  <2> QED
    BY <2>1, <2>2, <2>4, BoundedStep DEF CeilingInv, NoStray, AsTheyAre
<1>5. CASE raw_mutex_delete(m)
  <2> DEFINE owner == k.mtxtsk[m]
             U     == IF owner = NoTask THEN k ELSE unlink_mutex(k, owner, m)
  <2>1. AsTheyAre /\ k'.live = k.live \ {m} /\ SameHeld(U, k')
    BY <1>5, raw_mutex_deleteInv
  <2>2. owner \in Task \cup {NoTask}
    BY <1>1
  <2> HIDE DEF owner
  <2>3. U.mtxtsk = k.mtxtsk /\ U.bpriority = k.bpriority
    <3>1. CASE owner \in Task
      <4>1. PICK d \in Task : d = owner
        BY <3>1
      <4>2. /\ unlink_mutex(k, d, m).mtxtsk = k.mtxtsk
            /\ unlink_mutex(k, d, m).bpriority = k.bpriority
        BY <1>1, MutexIsObj DEF unlink_mutex, KernelState
      <4>3. U = unlink_mutex(k, d, m)
        BY <4>1, MutexIsObj
      <4> HIDE DEF U
      <4> QED
        BY <4>2, <4>3
    <3>2. CASE owner = NoTask
      BY <3>2
    <3> QED
      BY <2>2, <3>1, <3>2
  <2> QED
    BY <2>1, <2>3, BoundedStep DEF AsTheyAre, SameHeld, CeilingInv, NoStray, Concerned, WaitsFor
<1> QED
  BY <1>2, <1>3, <1>4, <1>5

\* A task that gets a mutex, or waits for it, may lock it; a waiter that gets it already
\* was concerned with it.
LEMMA HandingKeepsCeiling ==
  ASSUME MutexInv, OwnInv, CeilingInv, NEW m \in Mutex,
         \/ raw_mutex_get_free(m) \/ raw_mutex_put(m)
         \/ \E timeout \in Timeouts : raw_mutex_get(m, timeout)
  PROVE  CeilingInv'
<1>1. /\ TaskInv /\ k \in KernelState /\ k.mtxtsk \in [Mutex -> Task \cup {NoTask}]
      /\ active \in Task /\ m \in k.live /\ k.bpriority \in [Task -> Prio]
  BY InvFacts, HeldTypes
  DEF MutexInv, raw_mutex_get_free, raw_mutex_get, raw_mutex_put, MayLock, KernelState
<1>2. Ceiling[m] \in Int /\ k.bpriority[active] \in Int
  BY <1>1, KernelAssumption DEF Prio
<1>3. CASE raw_mutex_get_free(m)
  <2>1. Calm /\ StatesKept(k, k') /\ SameChains(push_mutex(k, active, m), k')
    BY <1>3, raw_mutex_get_freeInv
  <2>2. k'.mtxtsk = [k.mtxtsk EXCEPT ![m] = active] /\ k'.bpriority = k.bpriority
    BY <1>1, <2>1, PushHeld
  <2>3. Policy[m] = "ceiling" => Ceiling[m] <= k.bpriority[active]
    BY <1>2, <1>3 DEF raw_mutex_get_free, MayLock
  <2>4. \A u \in Task, n \in Mutex :
          Concerned(u, n)' => Concerned(u, n) \/ Ceiling[n] <= k'.bpriority[u]
    BY <1>1, <2>1, <2>2, <2>3 DEF StatesKept, Concerned, WaitsFor
  <2> QED
    BY <2>1, <2>2, <2>4, BoundedStep DEF StatesKept, CeilingInv, NoStray
<1>4. ASSUME NEW timeout \in Timeouts, raw_mutex_get(m, timeout)
      PROVE  CeilingInv'
  <2>1. /\ Moves(k, k', active) /\ k'.task_state[active] \in Pending
        /\ k'.block_obj[active] = m /\ k.task_state[active] = "RDY"
    BY <1>4, raw_mutex_getInv
  <2>2. Policy[m] = "ceiling" => Ceiling[m] <= k.bpriority[active]
    BY <1>2, <1>4 DEF raw_mutex_get, MayLock
  <2>3. k'.live = k.live /\ k'.mtxtsk = k.mtxtsk /\ k'.bpriority = k.bpriority
    BY <2>1 DEF Moves, OneMoves, SameHeld
  <2>4. \A u \in Task \ {active} : k'.task_state[u] = k.task_state[u] /\ k'.block_obj[u] = k.block_obj[u]
    BY <2>1 DEF Moves, OneMoves
  <2>5. \A u \in Task, n \in Mutex :
          Concerned(u, n)' => Concerned(u, n) \/ Ceiling[n] <= k'.bpriority[u]
    BY <2>1, <2>2, <2>3, <2>4 DEF Concerned, WaitsFor
  <2> QED
    BY <2>1, <2>3, <2>4, <2>5, BoundedStep DEF CeilingInv, NoStray
<1>5. CASE raw_mutex_put(m)
  <2>1. Calm /\ (Released(m) \/ \E t \in Task \ {Idle} : HandedOver(m, t))
    BY <1>5, raw_mutex_putInv
  <2>2. k'.live = k.live /\ \A u \in Task, n \in Mutex : WaitsFor(u, n)' => WaitsFor(u, n)
    BY <2>1 DEF Calm, StartsNoWait, WaitsFor
  <2> DEFINE U == unlink_mutex(k, active, m)
  <2>3. U.mtxtsk = k.mtxtsk /\ U.bpriority = k.bpriority /\ U \in KernelState
    BY <1>1, InvFacts, UnlinkFields, unlink_mutexKeeps DEF StatesKept, Consistent
  <2> HIDE DEF U
  <2>4. CASE Released(m)
    <3>1. StatesKept(k, k') /\ SameChains([U EXCEPT !.mtxtsk[m] = NoTask], k')
      BY <2>4 DEF Released, U
    <3>2. k'.mtxtsk = [k.mtxtsk EXCEPT ![m] = NoTask] /\ k'.bpriority = k.bpriority
      BY <2>3, <3>1 DEF SameChains, KernelState
    <3> QED
      BY <1>1, <2>2, <3>1, <3>2, BoundedStep, MutexIsObj
      DEF StatesKept, CeilingInv, NoStray, Concerned
  <2>5. ASSUME NEW t \in Task, HandedOver(m, t)
        PROVE  CeilingInv'
    <3>1. /\ WaitsFor(t, m) /\ OneMoves(k, k', t) /\ k'.block_obj[t] = NoObj
          /\ SameChains(push_mutex(U, t, m), k')
      BY <2>5 DEF HandedOver, U
    <3>2. k'.mtxtsk = [k.mtxtsk EXCEPT ![m] = t] /\ k'.bpriority = k.bpriority
      BY <2>3, <3>1, PushHeld
    <3>3. Bounded'
      BY <1>1, <2>2, <3>1, <3>2, BoundedStep DEF CeilingInv, Concerned
    <3>4. NoStray'
      BY <3>1 DEF OneMoves, CeilingInv, NoStray
    <3> QED
      BY <3>3, <3>4 DEF CeilingInv
  <2> QED
    BY <2>1, <2>4, <2>5
<1> QED
  BY <1>3, <1>4, <1>5

\* A task never has a base priority more urgent than the ceiling of a mutex it holds or
\* waits for: not when raw_task_priority_change, the hand-over of a mutex, a deletion or
\* the reuse of a task block come between its call and the end of its wait.
THEOREM CeilingCorrect ==
  ASSUME Redelete = FALSE
  PROVE  MutexSpec => []CeilingRespected
<1>1. TaskInit => CeilingInv
  <2> SUFFICES ASSUME TaskInit PROVE CeilingInv
    OBVIOUS
  <2>1. k.live = {} /\ \A t \in Task : k.block_obj[t] = NoObj
    BY DEF TaskInit, InitKernel
  <2> QED
    BY <2>1 DEF CeilingInv, Bounded, Concerned, NoStray
<1>2. MutexInv /\ OwnInv /\ CeilingInv /\ [MutexNext]_taskVars => CeilingInv'
  <2>1. ASSUME CeilingInv, UNCHANGED taskVars PROVE CeilingInv'
    BY <2>1 DEF taskVars, CeilingInv, Bounded, Concerned, NoStray, WaitsFor
  <2>2. ASSUME MutexInv, OwnInv, CeilingInv, TaskNext PROVE CeilingInv'
    BY <2>2, TaskNextBounded, TaskNextStray DEF CeilingInv, MutexInv
  <2>3. ASSUME MutexInv, OwnInv, CeilingInv, WakeNext \/ WakeDone PROVE CeilingInv'
    <3>1. loop.obj \in Mutex
      BY <2>3 DEF MutexInv, WakeOK, WakeNext, WakeDone
    <3> QED
      BY <2>3, <3>1, CallsKeepCeiling
  <2>4. ASSUME MutexInv, OwnInv, CeilingInv, NEW m \in Mutex,
               \/ raw_mutex_create(m) \/ raw_mutex_get_nested(m) \/ raw_mutex_get_free(m)
               \/ raw_mutex_put_nested(m) \/ raw_mutex_put(m) \/ raw_mutex_delete(m)
               \/ \E timeout \in Timeouts : raw_mutex_get(m, timeout)
        PROVE  CeilingInv'
    BY <2>4, CallsKeepCeiling, HandingKeepsCeiling
  <2> QED
    BY <2>1, <2>2, <2>3, <2>4, MutexAssumption DEF MutexNext
<1>3. TaskInv /\ OwnInv /\ CeilingInv => CeilingRespected
  <2> SUFFICES ASSUME TaskInv, OwnInv, CeilingInv,
                      NEW t \in Task, Settled(t), exceeds_ceiling(k, t, k.bpriority[t])
               PROVE  FALSE
    BY DEF CeilingRespected
  <2>1. PICK m \in Mutex : /\ Policy[m] = "ceiling" /\ k.bpriority[t] < Ceiling[m]
                           /\ m \in mutex_chain(k, t) \/ (k.block_obj[t] = m /\ m \in k.live)
    BY DEF exceeds_ceiling
  <2>2. k.bpriority[t] \in Int /\ Ceiling[m] \in Int
    BY InvFacts, KernelAssumption DEF KernelState, Prio
  <2>3. Concerned(t, m)
    <3>1. CASE m \in mutex_chain(k, t)
      BY <2>1, <3>1, ChainIsOwned DEF owned, Concerned
    <3>2. CASE k.block_obj[t] = m /\ m \in k.live
      <4>1. k.task_state[t] \in Pending
        BY <3>2, MutexIsObj DEF CeilingInv, NoStray, Settled
      <4> QED
        BY <2>1, <3>2, <4>1 DEF Concerned, WaitsFor
    <3> QED
      BY <2>1, <3>1, <3>2
  <2> QED
    BY <2>1, <2>2, <2>3 DEF CeilingInv, Bounded
<1>4. MutexInv => TaskInv
  BY DEF MutexInv
<1> QED
  BY <1>1, <1>2, <1>3, <1>4, OwnInit, MutexNextOwn, MutexInvariant, PTL DEF MutexSpec

-----------------------------------------------------------------------------
(* RawMutex implements AbsMutex: every step of the kernel is a step of the  *)
(* abstract mutexes or leaves them alone.                                   *)

Outside == [on |-> "none", outcome |-> "none"]
WaitOn(m, outcome) == [on |-> m, outcome |-> outcome]

\* What the abstract mutexes see of the kernel.
holders == [m \in Mutex |-> IF held(m) THEN k.mtxtsk[m] ELSE NoTask]
depths == [m \in Mutex |-> IF held(m) THEN k.owner_nested[m] ELSE 0]
waits == [t \in Task |-> waitOf(t)]

\* A mutex that is held is counted, and not above the limit.
NestOK ==
  \A m \in k.live \cap Mutex :
    k.mtxtsk[m] # NoTask => k.owner_nested[m] \in 1 .. MaxNested

\* The waiters of a deleted mutex are told so.
WakeDel == loop.op = "wake" => loop.status = "DEL"

NoDeletion == Deletable = {} => loop.op # "free"

AbsInv == CallInv /\ NestOK /\ WakeDel /\ NoDeletion

LEMMA MutexNames == "none" \notin Mutex /\ "sleep" \notin Mutex
BY TaskAssumption, MutexIsObj

LEMMA WaitsOf ==
  ASSUME CallInv, NEW t \in Task, NEW m \in Mutex
  PROVE  /\ waitOf(t) = WaitOn(m, "waiting") <=> WaitsFor(t, m)
         /\ Abs!Waits(t, m) <=> WaitsFor(t, m)
<1>1. k.task_state[t] \in Pending => call[t] = k.block_obj[t] /\ k.task_state[t] # "DELETED"
  BY DEF CallInv, CallOK, Pending
<1>2. waitOf(t) = WaitOn(m, "waiting") <=> WaitsFor(t, m)
  BY <1>1, MutexNames DEF waitOf, WaitOn, WaitsFor
<1>3. [u \in Task |-> waitOf(u)][t] = waitOf(t)
  OBVIOUS
<1> QED
  BY <1>2, <1>3 DEF Abs!Waits, WaitOn

\* A task in its own code waits for nothing.
LEMMA CallerOutside ==
  ASSUME TaskInv, CallInv, TaskRuns
  PROVE  waits[active] = Outside /\ waitOf(active) = Outside
<1>1. call[active] = "none" /\ active \in Task
  BY RunningIsReady DEF CallInv, CallOK, TaskRuns, TaskAt
<1> QED
  BY <1>1, MutexNames DEF waitOf, Outside, waits

\* Mutex m has holder o, who took it n times; all else about mutexes stays.
Holds(m, o, n) ==
  /\ k'.live = k.live /\ dying' = dying
  /\ k'.mtxtsk = [k.mtxtsk EXCEPT ![m] = o]
  /\ k'.owner_nested = [k.owner_nested EXCEPT ![m] = n]

LEMMA HoldStep ==
  ASSUME TaskInv, NEW m \in k.live \cap Mutex, NEW o \in Task \cup {NoTask}, NEW n \in Nat,
         Holds(m, o, n)
  PROVE  /\ (k.live \cap Mutex)' = k.live \cap Mutex
         /\ Abs!Hold(m, o, IF o = NoTask THEN 0 ELSE n)
         /\ NestOK /\ (o # NoTask => n \in 1 .. MaxNested) => NestOK'
<1>1. /\ k.mtxtsk \in [Mutex -> Task \cup {NoTask}] /\ k.owner_nested \in [Mutex -> Nat]
      /\ m \in k.live /\ m \in Mutex
  BY InvFacts DEF KernelState
<1>2. \A i \in Mutex : /\ k'.mtxtsk[i] = IF i = m THEN o ELSE k.mtxtsk[i]
                       /\ k'.owner_nested[i] = IF i = m THEN n ELSE k.owner_nested[i]
  <2>1. k'.mtxtsk = [k.mtxtsk EXCEPT ![m] = o]
    BY DEF Holds
  <2>2. \A i \in Mutex : k'.mtxtsk[i] = IF i = m THEN o ELSE k.mtxtsk[i]
    BY <1>1, <2>1
  <2>3. k'.owner_nested = [k.owner_nested EXCEPT ![m] = n]
    BY DEF Holds
  <2>4. \A i \in Mutex : k'.owner_nested[i] = IF i = m THEN n ELSE k.owner_nested[i]
    BY <1>1, <2>3
  <2> QED
    BY <2>2, <2>4
<1>3. \A i \in Mutex : i \in k'.live <=> i \in k.live
  BY DEF Holds
<1>4. holders' = [holders EXCEPT ![m] = o]
  <2>1. \A i \in Mutex : holders'[i] = IF i = m THEN o ELSE holders[i]
    BY <1>1, <1>2, <1>3 DEF holders, held
  <2> QED
    BY <2>1 DEF holders
<1>5. depths' = [depths EXCEPT ![m] = IF o = NoTask THEN 0 ELSE n]
  <2>1. \A i \in Mutex : depths'[i] = IF i = m THEN (IF o = NoTask THEN 0 ELSE n) ELSE depths[i]
    BY <1>1, <1>2, <1>3 DEF depths, held
  <2> QED
    BY <2>1 DEF depths
<1>6. Abs!Hold(m, o, IF o = NoTask THEN 0 ELSE n)
  BY <1>4, <1>5 DEF Abs!Hold, holders, depths
<1>7. NestOK /\ (o # NoTask => n \in 1 .. MaxNested) => NestOK'
  BY <1>1, <1>2 DEF NestOK, Holds
<1> QED
  BY <1>6, <1>7 DEF Holds

\* The mutexes and what is known of their holders stay.
SameMutexes ==
  /\ k'.live = k.live /\ dying' = dying
  /\ k'.mtxtsk = k.mtxtsk /\ k'.owner_nested = k.owner_nested

LEMMA SameMutexesStep ==
  ASSUME SameMutexes
  PROVE  /\ (k.live \cap Mutex)' = k.live \cap Mutex
         /\ holders' = holders /\ depths' = depths /\ (NestOK => NestOK')
BY DEF SameMutexes, holders, depths, held, NestOK

\* How the wait of one task may change in a step that leaves the mutexes alone.
OneWait(t) ==
  \/ waitOf(t)' = waitOf(t)
  \/ waitOf(t).outcome \in {"granted", "refused"} /\ waitOf(t)' = Outside
  \/ \E m \in Mutex : waitOf(t) = WaitOn(m, "waiting") /\ waitOf(t)' = WaitOn(m, "refused")

LEMMA WaitStep ==
  ASSUME SameMutexes, NEW t \in Task, OneWait(t),
         \A u \in Task \ {t} : waitOf(u)' = waitOf(u)
  PROVE  [Abs!Next]_Abs!vars
<1>1. /\ (k.live \cap Mutex)' = k.live \cap Mutex /\ dying' = dying
      /\ holders' = holders /\ depths' = depths
  BY SameMutexesStep DEF SameMutexes
<1>2. waits' = [waits EXCEPT ![t] = waitOf(t)'] /\ waits[t] = waitOf(t)
  BY DEF waits
<1>3. CASE waitOf(t)' = waitOf(t)
  <2>1. waits' = waits
    BY <1>3 DEF waits
  <2> QED
    BY <1>1, <2>1 DEF Abs!vars, waits, holders, depths
<1>4. CASE waitOf(t).outcome \in {"granted", "refused"} /\ waitOf(t)' = Outside
  <2>1. Abs!Leave(t)
    BY <1>1, <1>2, <1>4 DEF Abs!Leave, Abs!Outside, Outside, waits, holders, depths
  <2> QED
    BY <2>1 DEF Abs!Next
<1>5. ASSUME NEW m \in Mutex, waitOf(t) = WaitOn(m, "waiting"), waitOf(t)' = WaitOn(m, "refused")
      PROVE  Abs!Next
  <2>1. [waits EXCEPT ![t].outcome = "refused"] = [waits EXCEPT ![t] = WaitOn(m, "refused")]
    <3>1. [waits[t] EXCEPT !.outcome = "refused"] = WaitOn(m, "refused")
      BY <1>2, <1>5 DEF WaitOn
    <3> QED
      BY <3>1
  <2>2. waits[t].outcome = "waiting"
    BY <1>2, <1>5 DEF WaitOn
  <2>3. Abs!Refuse(t)
    BY <1>1, <1>2, <1>5, <2>1, <2>2 DEF Abs!Refuse, waits, holders, depths
  <2> QED
    BY <2>3 DEF Abs!Next
<1> QED
  BY <1>3, <1>4, <1>5 DEF OneWait

\* A task whose state and reason stay keeps its abstract wait.
LEMMA SameWait ==
  ASSUME TaskInv, CallInv, TaskNext, ~ block_state_post_process, NEW u \in Task,
         k'.task_state[u] = k.task_state[u], k'.block_status[u] = k.block_status[u]
  PROVE  waitOf(u)' = waitOf(u)
<1>1. CASE call'[u] = call[u] \/ k.task_state[u] = "DELETED"
  BY <1>1 DEF waitOf
<1>2. CASE pc[u] = "run" /\ k.task_state[u] # "DELETED" /\ call'[u] = "sleep"
  <2>1. call[u] = "none"
    BY <1>2 DEF CallInv, CallOK
  <2> QED
    BY <1>2, <2>1, MutexNames DEF waitOf
<1> QED
  BY <1>1, <1>2, CallStep

\* The task that a step moves leaves its wait refused or not at all, but for the
\* steps of a deletion.
LEMMA MovedWait ==
  ASSUME TaskInv, CallInv, TaskNext, ~ block_state_post_process, loop.op # "free",
         NEW u \in Task
  PROVE  OneWait(u)
<1>1. StartsNoWait(u) /\ Informed(u)
  BY TaskNextCalm, TaskNextTold DEF Calm, Told
<1>2. CASE k'.task_state[u] = "DELETED"
  <2>1. k.task_state[u] = "DELETED"
    BY <1>1, <1>2 DEF Informed
  <2> QED
    BY <1>2, <2>1 DEF OneWait, waitOf
<1>3. CASE k.task_state[u] = "DELETED" /\ k'.task_state[u] # "DELETED"
  BY <1>1, <1>3, MutexNames DEF Informed, OneWait, waitOf
<1>4. CASE /\ k.task_state[u] # "DELETED" /\ k'.task_state[u] # "DELETED"
           /\ call'[u] = call[u] /\ call[u] \in Mutex
  <2>1. CallOK(u)
    BY <1>4 DEF CallInv
  <2>2. CASE k.task_state[u] \in Pending /\ k'.task_state[u] \in Pending
    BY <1>4, <2>2 DEF OneWait, waitOf
  <2>3. CASE k.task_state[u] \in Pending /\ k'.task_state[u] \notin Pending
    <3>1. k'.block_status[u] \in {"ABORT", "TIMEOUT"}
      BY <1>1, <1>4, <2>1, <2>3 DEF Informed, Outcome, CallOK
    <3>2. waitOf(u) = WaitOn(call[u], "waiting") /\ waitOf(u)' = WaitOn(call[u], "refused")
      BY <1>4, <2>3, <3>1 DEF waitOf, WaitOn
    <3> QED
      BY <1>4, <3>2 DEF OneWait
  <2>4. CASE k.task_state[u] \notin Pending
    <3>1. k.task_state[u] \notin Away
      BY <1>4, <2>1, <2>4, MutexNames DEF CallOK, Away
    <3>2. k'.task_state[u] \notin Pending /\ k'.block_status[u] = k.block_status[u]
      BY <1>1, <1>4, <2>4, <3>1 DEF Informed, StartsNoWait
    <3> QED
      BY <1>4, <2>4, <3>2 DEF OneWait, waitOf
  <2> QED
    BY <2>2, <2>3, <2>4
<1>5. CASE k.task_state[u] # "DELETED" /\ call'[u] = call[u] /\ call[u] \notin Mutex
  BY <1>5 DEF OneWait, waitOf
<1>6. CASE pc[u] = "run" /\ k.task_state[u] # "DELETED" /\ call'[u] = "sleep"
  <2>1. call[u] = "none"
    BY <1>6 DEF CallInv, CallOK
  <2> QED
    BY <1>6, <2>1, MutexNames DEF OneWait, waitOf
<1> QED
  BY <1>2, <1>3, <1>4, <1>5, <1>6, CallStep

-----------------------------------------------------------------------------
(* The steps of the tasks.                                                  *)

LEMMA QuietHeld ==
  ASSUME TaskInv, TaskNext, ~ FreeMutex
  PROVE  k'.live = k.live /\ k'.mtxtsk = k.mtxtsk /\ k'.owner_nested = k.owner_nested
<1>1. k \in KernelState /\ HeldStep /\ k'.live = k.live
  BY InvFacts, TaskNextHeld, TaskNextCalm DEF Calm
<1>2. CASE SameHeld(k, k')
  BY <1>1, <1>2 DEF SameHeld
<1>3. ASSUME NEW t \in Task, raw_task_create(t)
      PROVE  k'.mtxtsk = k.mtxtsk /\ k'.owner_nested = k.owner_nested
  <2>1. SameHeld([k EXCEPT !.bpriority[t] = InitPrio[t], !.mtxlist[t] = NoObj], k')
    BY <1>3, raw_task_createInv
  <2> QED
    BY <1>1, <2>1 DEF SameHeld, KernelState
<1>4. ASSUME NEW t \in Task, NEW p, SameHeld([k EXCEPT !.bpriority[t] = p], k')
      PROVE  k'.mtxtsk = k.mtxtsk /\ k'.owner_nested = k.owner_nested
  BY <1>1, <1>4 DEF SameHeld, KernelState
<1> QED
  BY <1>1, <1>2, <1>3, <1>4 DEF HeldStep

\* While mutexes are freed nothing else happens.
LEMMA FreeingSteps ==
  ASSUME TaskInv, FreeAt, TaskNext, loop.op = "free"
  PROVE  FreeMutex \/ FinishDelete
<1>1. loop # NoLoop /\ raw_os_active
  BY NoLoopOK DEF FreeAt
<1> QED
  BY <1>1, LoopSteps DEF raw_os_start, tick_list_update, raw_time_tick, IsrRuns, tick_list_done,
     raw_task_delete, TaskRuns, TaskAt

LEMMA QuietTaskStep ==
  ASSUME TaskInv, CallInv, TaskNext, loop' = loop \/ (loop.op # "free" /\ loop'.op # "free"),
         ~ FreeMutex, ~ FinishDelete
  PROVE  [Abs!Next]_Abs!vars
<1>1. SameMutexes /\ loop.op # "free"
  <2>1. dying' = dying
    BY DEF dying
  <2> QED
    BY <2>1, QuietHeld, FreeingSteps DEF SameMutexes, CallInv
<1>2. CASE block_state_post_process
  <2>1. active \in Task /\ k.task_state[active] = "RDY"
    BY <1>2, InvFacts, PostProcess
  <2>2. OneWait(active)
    BY <1>2, <2>1, PostProcess, MutexNames DEF OneWait, waitOf, Outside, Pending
  <2>3. \A u \in Task \ {active} : waitOf(u)' = waitOf(u)
    BY <1>2, PostProcess DEF waitOf
  <2> QED
    BY <1>1, <2>1, <2>2, <2>3, WaitStep
<1>3. CASE ~ block_state_post_process
  <2>1. PICK t \in Task : \A u \in Task \ {t} : /\ k'.task_state[u] = k.task_state[u]
                                                /\ k'.block_status[u] = k.block_status[u]
    BY <1>3, TaskNextTold DEF Told, OneTask
  <2>2. \A u \in Task \ {t} : waitOf(u)' = waitOf(u)
    BY <1>3, <2>1, SameWait
  <2>3. OneWait(t)
    BY <1>1, <1>3, MovedWait
  <2> QED
    BY <1>1, <2>2, <2>3, WaitStep
<1> QED
  BY <1>2, <1>3

\* raw_task_delete begins to free the mutexes of its task.
LEMMA raw_task_deleteAbs ==
  ASSUME TaskInv, NEW t \in Deletable, raw_task_delete(t)
  PROVE  Abs!Next
<1>1. /\ t \in Task /\ loop = NoLoop /\ k' = k /\ call' = call
      /\ loop' = [NoLoop EXCEPT !.op = "free", !.task = t, !.obj = k.mtxlist[t]]
  BY TaskAssumption DEF raw_task_delete, TaskRuns, TaskAt
<1>2. dying = NoTask /\ dying' = t
  BY <1>1 DEF dying, NoLoop
<1>3. holders' = holders /\ depths' = depths /\ waits' = waits
  BY <1>1 DEF holders, depths, waits, held, waitOf
<1>4. Abs!BeginDying(t)
  BY <1>1, <1>2, <1>3 DEF Abs!BeginDying, holders, depths, waits
<1> QED
  BY <1>1, <1>4 DEF Abs!Next

\* FinishDelete: the task that is gone holds nothing and waits for nothing.
LEMMA FinishDeleteAbs ==
  ASSUME MutexInv, OwnInv, CallInv, FinishDelete
  PROVE  Abs!Next
<1>1. /\ TaskInv /\ TaskNext /\ ~ block_state_post_process /\ ~ FreeMutex
      /\ loop.op = "free" /\ loop.obj = NoObj /\ loop' = NoLoop /\ loop.task \in Task
  BY NoLoopOK DEF MutexInv, TaskNext, KernelNext, FinishDelete, TaskInv, LoopOK,
     block_state_post_process, TaskAt, FreeMutex
<1>2. PICK d \in Task : d = loop.task
  BY <1>1
<1>3. dying = d /\ dying' = NoTask /\ d # NoTask
  BY <1>1, <1>2, NoLoopOK, MutexIsObj DEF dying
<1>4. owned(d) = {}
  <2>1. HoldsList(k.mtxnext, NoObj, owned(d))
    BY <1>1, <1>2 DEF OwnInv, OwnLists, DyingLives, list_head
  <2>2. owned(d) \in SUBSET Mutex /\ k.mtxnext \in Links0
    BY <1>1, InvFacts, HeldTypes DEF owned
  <2> QED
    BY <2>1, <2>2, NoMutexes
<1>5. \A m \in Mutex : holders[m] # d
  BY <1>3, <1>4 DEF holders, held, owned
<1>6. (k.live \cap Mutex)' = k.live \cap Mutex /\ holders' = holders /\ depths' = depths
  <2>1. k'.live = k.live /\ k'.mtxtsk = k.mtxtsk /\ k'.owner_nested = k.owner_nested
    BY <1>1, QuietHeld
  <2> QED
    BY <2>1 DEF holders, depths, held
<1>7. k'.task_state[d] = "DELETED" /\ k.task_state[d] # "DELETED"
  BY <1>1, <1>2, FinishDeleteInv DEF OwnInv, DyingLives
<1>8. \A u \in Task \ {d} : waitOf(u)' = waitOf(u)
  <2>1. PICK t \in Task : \A u \in Task \ {t} : /\ k'.task_state[u] = k.task_state[u]
                                                /\ k'.block_status[u] = k.block_status[u]
    BY <1>1, FinishDeleteInv DEF Told, OneTask
  <2>2. t = d
    BY <1>7, <2>1
  <2> QED
    BY <1>1, <2>1, <2>2, SameWait
<1>9. waits' = [waits EXCEPT ![d] = Outside]
  <2>1. waitOf(d)' = Outside
    BY <1>7 DEF waitOf, Outside
  <2> QED
    BY <1>8, <2>1 DEF waits
<1>10. Abs!Die
  BY <1>3, <1>5, <1>6, <1>9 DEF Abs!Die, Abs!Outside, Outside, holders, depths, waits
<1> QED
  BY <1>10 DEF Abs!Next

\* A waiter that is given the mutex it waits for.
LEMMA GrantStep ==
  ASSUME CallInv, NEW t \in Task, NEW m \in Mutex, WaitsFor(t, m), OneMoves(k, k', t),
         k'.task_state[t] \in Awake, k'.block_status[t] = "OK", call' = call
  PROVE  Abs!Waits(t, m) /\ waits' = [waits EXCEPT ![t].outcome = "granted"]
<1>1. call[t] = m /\ waits[t] = WaitOn(m, "waiting")
  BY WaitsOf DEF WaitsFor, CallInv, CallOK, Pending, waits
<1>2. waitOf(t)' = WaitOn(m, "granted")
  BY <1>1 DEF waitOf, WaitOn, Awake, Pending
<1>3. \A u \in Task \ {t} : waitOf(u)' = waitOf(u)
  BY DEF OneMoves, waitOf
<1>4. waits' = [waits EXCEPT ![t] = WaitOn(m, "granted")]
  BY <1>2, <1>3 DEF waits
<1>5. [waits[t] EXCEPT !.outcome = "granted"] = WaitOn(m, "granted")
  BY <1>1 DEF WaitOn
<1> QED
  BY <1>4, <1>5, WaitsOf

\* The mutex that raw_task_free_mutex has come to belongs to its task.
LEMMA FreeingOwn ==
  ASSUME TaskInv, OwnInv, FreeMutex
  PROVE  /\ loop.op = "free" /\ loop.task \in Task /\ loop.obj \in k.live \cap Mutex
         /\ k.mtxtsk[loop.obj] = loop.task
<1>1. loop.op = "free" /\ loop.obj \in Mutex /\ loop.task \in Task
  BY DEF FreeMutex, TaskInv, LoopOK
<1>2. HoldsList(k.mtxnext, loop.obj, owned(loop.task))
  BY <1>1 DEF OwnInv, OwnLists, DyingLives, list_head
<1>3. loop.obj \in owned(loop.task)
  BY <1>1, <1>2, MutexIsObj DEF HoldsList
<1> QED
  BY <1>1, <1>3 DEF owned

\* A deleted task gives a mutex up: to nobody, or to the first waiter.
LEMMA FreeMutexAbs ==
  ASSUME MutexInv, OwnInv, AbsInv, FreeMutex, MaxNested = 1 \/ Deletable = {}
  PROVE  Abs!Next /\ NestOK'
<1>1. /\ TaskInv /\ CallInv /\ NestOK /\ TaskNext /\ ~ block_state_post_process
      /\ call' = call /\ loop' = [loop EXCEPT !.obj = k.mtxnext[loop.obj]]
  BY NoLoopOK DEF MutexInv, AbsInv, TaskNext, KernelNext, FreeMutex, block_state_post_process, TaskAt
<1>2. PICK m \in k.live \cap Mutex : m = loop.obj /\ k.mtxtsk[m] = loop.task
  BY <1>1, FreeingOwn
<1>3. PICK d \in Task : d = loop.task
  BY <1>1, FreeingOwn
<1>4. /\ loop.op = "free" /\ loop \in Loop /\ loop'.op = "free" /\ loop'.task = loop.task
      /\ m # NoObj /\ d # NoTask
  BY <1>1, <1>2, FreeingOwn, InvFacts, MutexIsObj DEF Loop
<1>5. dying = d /\ dying' = dying /\ k.mtxtsk[m] = d
  BY <1>2, <1>3, <1>4 DEF dying
<1>6. k.owner_nested[m] = 1 /\ MaxNested = 1
  <2>1. MaxNested = 1
    BY <1>4 DEF AbsInv, NoDeletion
  <2> QED
    BY <1>1, <1>2, <1>4, <1>5, <2>1 DEF NestOK
<1>7. FreeOne /\ k'.live = k.live
  BY <1>1, FreeMutexInv DEF Calm
<1>8. k \in KernelState /\ [k.owner_nested EXCEPT ![m] = 1] = k.owner_nested
  <2>1. k.owner_nested \in [Mutex -> Nat] /\ k \in KernelState
    BY <1>1, InvFacts DEF KernelState
  <2> QED
    BY <1>6, <2>1
<1>9. holders[m] = d
  BY <1>4, <1>5 DEF holders, held
<1>10. CASE k.block_list[m] = <<>>
  <2>1. /\ StatesKept(k, k') /\ k'.mtxtsk = [k.mtxtsk EXCEPT ![m] = NoTask]
        /\ k'.owner_nested = k.owner_nested
    BY <1>2, <1>7, <1>8, <1>10 DEF FreeOne, SameHeld, KernelState
  <2>2. Holds(m, NoTask, 1)
    BY <1>5, <1>7, <1>8, <2>1 DEF Holds
  <2>3. waits' = waits
    BY <1>1, <2>1 DEF StatesKept, waits, waitOf
  <2>4. \A u \in Task : ~ Abs!Waits(u, m)
    <3>1. NobodyWaits(m)
      BY <1>1, <1>10, EmptyList, MutexIsObj DEF Waiters
    <3> QED
      BY <1>1, <3>1, WaitsOf DEF NobodyWaits
  <2>5. (k.live \cap Mutex)' = k.live \cap Mutex /\ Abs!Hold(m, NoTask, 0) /\ NestOK'
    BY <1>1, <2>2, HoldStep
  <2>6. Abs!GivenUp(m)
    BY <1>4, <1>5, <1>9 DEF Abs!GivenUp, holders
  <2>7. Abs!Release(m)
    BY <1>5, <2>3, <2>4, <2>5, <2>6 DEF Abs!Release, waits
  <2> QED
    BY <2>5, <2>7 DEF Abs!Next
<1>11. CASE k.block_list[m] # <<>>
  <2>1. PICK t \in Task : /\ WaitsFor(t, m) /\ OneMoves(k, k', t)
                          /\ k'.task_state[t] \in Awake /\ k'.block_status[t] = "OK"
                          /\ SameHeld(push_mutex(k, t, m), k')
    BY <1>2, <1>7, <1>11 DEF FreeOne, WaitsFor
  <2>2. k'.mtxtsk = [k.mtxtsk EXCEPT ![m] = t] /\ k'.owner_nested = k.owner_nested
    <3>1. k \in KernelState /\ t \in Task /\ m \in Mutex
      BY <1>8
    <3>2. /\ push_mutex(k, t, m).mtxtsk = [k.mtxtsk EXCEPT ![m] = t]
          /\ push_mutex(k, t, m).owner_nested = k.owner_nested
      BY <3>1 DEF push_mutex, KernelState
    <3> QED
      BY <2>1, <3>2 DEF SameHeld
  <2>3. Holds(m, t, 1)
    BY <1>5, <1>7, <1>8, <2>2 DEF Holds
  <2>4. (k.live \cap Mutex)' = k.live \cap Mutex /\ Abs!Hold(m, t, 1) /\ NestOK'
    BY <1>1, <1>6, <2>3, HoldStep, MutexIsObj
  <2>5. Abs!Waits(t, m) /\ waits' = [waits EXCEPT ![t].outcome = "granted"]
    BY <1>1, <2>1, GrantStep
  <2>6. Abs!GivenUp(m)
    BY <1>4, <1>5, <1>9 DEF Abs!GivenUp, holders
  <2>7. Abs!HandOver(m, t)
    BY <1>5, <2>4, <2>5, <2>6 DEF Abs!HandOver, waits
  <2> QED
    BY <2>4, <2>7 DEF Abs!Next
<1> QED
  BY <1>10, <1>11

-----------------------------------------------------------------------------
(* The operations of the mutexes.                                           *)

\* A step that leaves the tasks where they are.
LEMMA StillCall ==
  ASSUME TaskInv, CallInv, UNCHANGED call, AsTheyAre, pc' = pc \/ (Caller /\ Resched)
  PROVE  /\ waits' = waits
         /\ loop'.op = "none" \/ (loop'.op = "wake" /\ loop'.status = "DEL") => CallInv'
<1>1. \A t \in Task : k'.task_state[t] # "DELETED" => CallOK(t)'
  BY CallStays DEF AsTheyAre
<1>2. waits' = waits
  BY DEF waits, waitOf, AsTheyAre
<1>3. loop'.op = "none" \/ (loop'.op = "wake" /\ loop'.status = "DEL") => CallInv'
  BY <1>1 DEF CallInv, FreeAt, WakeLive
<1> QED
  BY <1>2, <1>3

\* The same mutex once more, or once less, for its owner.
LEMMA NestedAbs ==
  ASSUME MutexInv, AbsInv, NEW m \in Mutex, raw_mutex_get_nested(m) \/ raw_mutex_put_nested(m)
  PROVE  CallInv' /\ NestOK' /\ Abs!Next
<1>1. /\ TaskInv /\ CallInv /\ NestOK /\ TaskRuns /\ UNCHANGED <<sys, pc, call, loop>>
      /\ m \in k.live \cap Mutex /\ k.mtxtsk[m] = active
  BY DEF MutexInv, AbsInv, raw_mutex_get_nested, raw_mutex_put_nested
<1>2. loop.op = "none" /\ active \in Task /\ active # NoTask
  BY <1>1, CallerFacts, MutexIsObj
<1>3. StatesKept(k, k') /\ SameChains(k, k') /\ k \in KernelState
  BY <1>1, NestedInv, InvFacts
<1>4. AsTheyAre /\ pc' = pc /\ call' = call
  BY <1>1, <1>3 DEF StatesKept, AsTheyAre
<1>5. waits' = waits /\ CallInv'
  BY <1>1, <1>2, <1>4, StillCall
<1>6. k.owner_nested[m] \in 1 .. MaxNested /\ MaxNested \in Nat /\ 1 <= MaxNested
  BY <1>1, <1>2, MutexAssumption DEF NestOK
<1>7. ASSUME NEW n \in 1 .. MaxNested, k'.owner_nested = [k.owner_nested EXCEPT ![m] = n]
      PROVE  (k.live \cap Mutex)' = k.live \cap Mutex /\ Abs!Hold(m, active, n) /\ NestOK'
  <2>1. k'.mtxtsk = [k.mtxtsk EXCEPT ![m] = active]
    BY <1>1, <1>3 DEF SameChains, KernelState
  <2>2. Holds(m, active, n) /\ n \in Nat
    BY <1>1, <1>3, <1>7, <2>1 DEF Holds, StatesKept, dying
  <2> QED
    BY <1>1, <1>2, <1>7, <2>2, HoldStep
<1>8. holders[m] = active /\ depths[m] = k.owner_nested[m] /\ Abs!Busy(active, m)
  <2>1. holders[m] = active /\ depths[m] = k.owner_nested[m] /\ waits[active] = Outside
    BY <1>1, <1>2, CallerOutside DEF holders, depths, held
  <2> QED
    BY <2>1 DEF Abs!Busy, Abs!Outside, Outside, holders, waits
<1>9. dying' = dying
  BY <1>1 DEF dying
<1>10. CASE raw_mutex_get_nested(m)
  <2>1. PICK n \in 1 .. MaxNested : n = k.owner_nested[m] + 1 /\ k.owner_nested[m] < MaxNested
    BY <1>6, <1>10 DEF raw_mutex_get_nested
  <2>2. k'.owner_nested = [k.owner_nested EXCEPT ![m] = n]
    BY <1>3, <1>10, <2>1 DEF raw_mutex_get_nested, KernelState
  <2>3. (k.live \cap Mutex)' = k.live \cap Mutex /\ Abs!Hold(m, active, n) /\ n = depths[m] + 1
    BY <1>7, <1>8, <2>1, <2>2
  <2>4. Abs!Nest(active, m)
    BY <1>5, <1>8, <1>9, <2>1, <2>3 DEF Abs!Nest, Abs!Hold, depths, waits
  <2> QED
    BY <1>2, <1>5, <1>7, <2>2, <2>4 DEF Abs!Next
<1>11. CASE raw_mutex_put_nested(m)
  <2>1. k.owner_nested[m] # 1
    BY <1>11 DEF raw_mutex_put_nested
  <2>2. PICK n \in 1 .. MaxNested : n = k.owner_nested[m] - 1
    BY <1>6, <2>1
  <2>3. (k.owner_nested[m] + MaxNested) % (MaxNested + 1) = n
    BY <1>6, <2>2
  <2>4. k'.owner_nested = [k.owner_nested EXCEPT ![m] = n]
    BY <1>3, <1>11, <2>3 DEF raw_mutex_put_nested, KernelState
  <2>5. /\ (k.live \cap Mutex)' = k.live \cap Mutex /\ Abs!Hold(m, active, n)
        /\ n = depths[m] - 1 /\ depths[m] > 1
    BY <1>6, <1>7, <1>8, <2>1, <2>2, <2>4
  <2>6. Abs!Unnest(active, m)
    BY <1>5, <1>8, <1>9, <2>5 DEF Abs!Unnest, Abs!Hold, depths, waits
  <2> QED
    BY <1>2, <1>5, <1>7, <2>4, <2>6 DEF Abs!Next
<1> QED
  BY <1>10, <1>11

LEMMA raw_mutex_get_freeAbs ==
  ASSUME MutexInv, AbsInv, NEW m \in Mutex, raw_mutex_get_free(m)
  PROVE  CallInv' /\ NestOK' /\ Abs!Next
<1>1. /\ TaskInv /\ CallInv /\ NestOK /\ TaskRuns /\ UNCHANGED <<sys, pc, call, loop>>
      /\ m \in k.live \cap Mutex /\ k.mtxtsk[m] = NoTask
  BY DEF MutexInv, AbsInv, raw_mutex_get_free, MayLock
<1>2. loop.op = "none" /\ active \in Task /\ active # NoTask /\ k \in KernelState
  BY <1>1, CallerFacts, MutexIsObj, InvFacts
<1>3. /\ StatesKept(k, k') /\ SameChains(push_mutex(k, active, m), k')
      /\ k'.owner_nested = [k.owner_nested EXCEPT ![m] = 1]
  BY <1>1, raw_mutex_get_freeInv
<1>4. AsTheyAre /\ pc' = pc /\ call' = call
  BY <1>1, <1>3 DEF StatesKept, AsTheyAre
<1>5. waits' = waits /\ CallInv'
  BY <1>1, <1>2, <1>4, StillCall
<1>6. k'.mtxtsk = [k.mtxtsk EXCEPT ![m] = active]
  BY <1>1, <1>2, <1>3, PushHeld
<1>7. Holds(m, active, 1) /\ 1 \in 1 .. MaxNested
  BY <1>1, <1>3, <1>6, MutexAssumption DEF Holds, StatesKept, dying
<1>8. (k.live \cap Mutex)' = k.live \cap Mutex /\ Abs!Hold(m, active, 1) /\ NestOK'
  BY <1>1, <1>2, <1>7, HoldStep
<1>9. holders[m] = NoTask /\ waits[active] = Outside
  BY <1>1, CallerOutside DEF holders, held
<1>10. Abs!Acquire(active, m)
  BY <1>1, <1>5, <1>7, <1>8, <1>9 DEF Abs!Acquire, Abs!Outside, Outside, holders, waits, Holds
<1> QED
  BY <1>2, <1>5, <1>8, <1>10 DEF Abs!Next

LEMMA raw_mutex_getAbs ==
  ASSUME MutexInv, AbsInv, NEW m \in Mutex, NEW timeout \in Timeouts, raw_mutex_get(m, timeout)
  PROVE  CallInv' /\ NestOK' /\ Abs!Next
<1>1. /\ TaskInv /\ CallInv /\ NestOK /\ TaskRuns /\ loop = NoLoop /\ loop' = loop /\ Block(m)
      /\ m \in k.live \cap Mutex /\ k.mtxtsk[m] \notin {active, NoTask}
      /\ active \in Task
  BY CallerFacts, InvFacts DEF MutexInv, AbsInv, raw_mutex_get, MayLock, TaskRuns, TaskAt
<1>2. Moves(k, k', active) /\ k'.task_state[active] \in Pending /\ k'.block_obj[active] = m
  BY raw_mutex_getInv
<1>3. /\ pc' = [pc EXCEPT ![active] = "blocking"] /\ call' = [call EXCEPT ![active] = m]
      /\ pc'[active] = "blocking" /\ call'[active] = m
  BY <1>1, InvFacts DEF Block
<1>4. CallInv'
  <2>1. ASSUME NEW u \in Task, k'.task_state[u] # "DELETED"
        PROVE  CallOK(u)'
    <3>1. CASE u = active
      BY <1>2, <1>3, <3>1 DEF CallOK
    <3>2. CASE u # active
      BY <1>1, <1>2, <1>3, <2>1, <3>2, InvFacts DEF CallInv, CallOK, Moves, OneMoves
    <3> QED
      BY <3>1, <3>2
  <2> QED
    BY <1>1, <2>1, NoLoopOK DEF CallInv, FreeAt, WakeLive
<1>5. SameMutexes
  BY <1>1, <1>2 DEF SameMutexes, dying, Moves, OneMoves, SameHeld
<1>6. /\ (k.live \cap Mutex)' = k.live \cap Mutex /\ dying' = dying
      /\ holders' = holders /\ depths' = depths /\ NestOK'
  BY <1>1, <1>5, SameMutexesStep DEF SameMutexes
<1>7. waits' = [waits EXCEPT ![active] = WaitOn(m, "waiting")]
  <2>1. waitOf(active)' = WaitOn(m, "waiting")
    <3>1. k'.raw_task_active = k.raw_task_active
      BY <1>2 DEF Moves, OneMoves
    <3>2. active' = active
      BY <3>1 DEF active
    <3> QED
      BY <1>2, <1>3, <3>2 DEF waitOf, WaitOn, Pending
  <2>2. \A u \in Task \ {active} : waitOf(u)' = waitOf(u)
    BY <1>2, <1>3, InvFacts, <1>1 DEF Moves, OneMoves, waitOf
  <2>3. active' = active
    BY <1>2 DEF Moves, OneMoves, active
  <2> QED
    BY <1>1, <2>1, <2>2, <2>3 DEF waits
<1>8. holders[m] \notin {active, NoTask} /\ waits[active] = Outside
  BY <1>1, CallerOutside DEF holders, held
<1>9. Abs!Begin(active, m)
  BY <1>1, <1>6, <1>7, <1>8 DEF Abs!Begin, Abs!Outside, Outside, WaitOn, holders, depths, waits
<1> QED
  BY <1>1, <1>4, <1>6, <1>9 DEF Abs!Next

\* The last raw_mutex_put frees the mutex or hands it to the first waiter.
LEMMA raw_mutex_putAbs ==
  ASSUME MutexInv, OwnInv, AbsInv, NEW m \in Mutex, raw_mutex_put(m)
  PROVE  CallInv' /\ NestOK' /\ Abs!Next
<1>1. /\ TaskInv /\ CallInv /\ NestOK /\ TaskRuns /\ UNCHANGED <<sys, call, loop>>
      /\ m \in k.live \cap Mutex /\ k.mtxtsk[m] = active /\ k.owner_nested[m] = 1
      /\ loop.op = "none" /\ active \in Task /\ active # NoTask
  BY CallerFacts, MutexIsObj DEF MutexInv, AbsInv, raw_mutex_put
<1>2. Released(m) \/ \E t \in Task \ {Idle} : HandedOver(m, t)
  BY raw_mutex_putInv
<1>3. pc' = pc \/ (Caller /\ Resched)
  BY <1>1 DEF raw_mutex_put, Caller
<1>4. k \in KernelState /\ unlink_mutex(k, active, m) \in KernelState
      /\ unlink_mutex(k, active, m).mtxtsk = k.mtxtsk
  BY <1>1, InvFacts, unlink_mutexKeeps, UnlinkFields DEF StatesKept, Consistent
<1>5. holders[m] = active /\ depths[m] = 1 /\ waits[active] = Outside /\ dying' = dying
  BY <1>1, CallerOutside DEF holders, depths, held, dying
<1>6. Abs!GivenUp(m)
  BY <1>1, <1>5 DEF Abs!GivenUp, Abs!Outside, Outside, holders, depths, waits
<1>7. CASE Released(m)
  <2>1. StatesKept(k, k') /\ NobodyWaits(m)
    BY <1>7 DEF Released
  <2>2. AsTheyAre /\ call' = call
    BY <1>1, <2>1 DEF StatesKept, AsTheyAre
  <2>3. waits' = waits /\ CallInv'
    BY <1>1, <1>3, <2>2, StillCall
  <2>4. k'.mtxtsk = [k.mtxtsk EXCEPT ![m] = NoTask]
    BY <1>4, <1>7 DEF Released, SameChains, KernelState
  <2>5. Holds(m, NoTask, 0)
    BY <1>5, <1>7, <2>1, <2>4 DEF Holds, Released, StatesKept
  <2>6. (k.live \cap Mutex)' = k.live \cap Mutex /\ Abs!Hold(m, NoTask, 0) /\ NestOK'
    BY <1>1, <2>5, HoldStep
  <2>7. \A u \in Task : ~ Abs!Waits(u, m)
    BY <1>1, <2>1, WaitsOf DEF NobodyWaits
  <2>8. Abs!Release(m)
    BY <1>5, <1>6, <2>3, <2>6, <2>7 DEF Abs!Release, waits
  <2> QED
    BY <2>3, <2>6, <2>8 DEF Abs!Next
<1>8. ASSUME NEW t \in Task \ {Idle}, HandedOver(m, t)
      PROVE  CallInv' /\ NestOK' /\ Abs!Next
  <2>1. /\ WaitsFor(t, m) /\ OneMoves(k, k', t)
        /\ k'.task_state[t] \in Awake /\ k'.block_status[t] = "OK"
        /\ SameChains(push_mutex(unlink_mutex(k, active, m), t, m), k')
        /\ k'.owner_nested = [k.owner_nested EXCEPT ![m] = 1]
    BY <1>8 DEF HandedOver
  <2>2. CallInv'
    <3>1. k.task_state[t] \in Pending /\ UNCHANGED <<call, loop, sys>>
      BY <1>1, <2>1 DEF WaitsFor
    <3> QED
      BY <1>1, <1>3, <2>1, <3>1, WokenCall
  <2>3. k'.mtxtsk = [k.mtxtsk EXCEPT ![m] = t]
    <3>1. PICK U \in KernelState : U = unlink_mutex(k, active, m)
      BY <1>4
    <3>2. U \in KernelState /\ t \in Task /\ m \in Mutex
      BY <3>1
    <3>3. SameChains(push_mutex(U, t, m), k') /\ U.mtxtsk = k.mtxtsk
      BY <1>4, <2>1, <3>1
    <3>4. push_mutex(U, t, m).mtxtsk = [U.mtxtsk EXCEPT ![m] = t]
      BY <3>2 DEF push_mutex, KernelState
    <3> QED
      BY <3>3, <3>4 DEF SameChains
  <2>4. Holds(m, t, 1) /\ 1 \in 1 .. MaxNested /\ t # NoTask
    BY <1>5, <2>1, <2>3, MutexAssumption, MutexIsObj DEF Holds, OneMoves
  <2>5. (k.live \cap Mutex)' = k.live \cap Mutex /\ Abs!Hold(m, t, 1) /\ NestOK'
    BY <1>1, <2>4, HoldStep
  <2>6. Abs!Waits(t, m) /\ waits' = [waits EXCEPT ![t].outcome = "granted"]
    BY <1>1, <2>1, GrantStep
  <2>7. Abs!HandOver(m, t)
    BY <1>5, <1>6, <2>5, <2>6 DEF Abs!HandOver, waits
  <2> QED
    BY <2>2, <2>5, <2>7 DEF Abs!Next
<1> QED
  BY <1>2, <1>7, <1>8

LEMMA raw_mutex_createAbs ==
  ASSUME MutexInv, AbsInv, NEW m \in Mutex, raw_mutex_create(m)
  PROVE  CallInv' /\ NestOK' /\ Abs!Next
<1>1. /\ TaskInv /\ CallInv /\ NestOK /\ UNCHANGED <<sys, pc, call, loop>> /\ loop = NoLoop
  BY DEF MutexInv, AbsInv, raw_mutex_create, Boot, Caller, TaskRuns, TaskAt, IsrRuns
<1>2. /\ AsTheyAre /\ m \notin k.live /\ k'.live = k.live \cup {m}
      /\ SameHeld([k EXCEPT !.mtxtsk[m] = NoTask, !.mtxnext[m] = NoObj], k')
  BY raw_mutex_createInv
<1>3. /\ k'.mtxtsk = [k.mtxtsk EXCEPT ![m] = NoTask] /\ k'.owner_nested = k.owner_nested
      /\ k.mtxtsk \in [Mutex -> Task \cup {NoTask}]
  BY <1>1, <1>2, InvFacts DEF SameHeld, KernelState
<1>4. k'.mtxtsk[m] = NoTask /\ \A n \in Mutex \ {m} : k'.mtxtsk[n] = k.mtxtsk[n]
  BY <1>3
<1>5. waits' = waits /\ CallInv' /\ dying' = dying
  BY <1>1, <1>2, NoLoopOK, StillCall DEF dying
<1>6. holders' = holders /\ depths' = depths
  BY <1>2, <1>3, <1>4 DEF holders, depths, held
<1>7. (k.live \cap Mutex)' = (k.live \cap Mutex) \cup {m}
  BY <1>2
<1>8. NestOK'
  BY <1>1, <1>2, <1>3, <1>4 DEF NestOK
<1>9. Abs!Create(m)
  BY <1>2, <1>5, <1>6, <1>7 DEF Abs!Create, holders, depths, waits
<1> QED
  BY <1>5, <1>8, <1>9 DEF Abs!Next

\* A deleted mutex has no holder, whatever its mtxtsk still says.
LEMMA raw_mutex_deleteAbs ==
  ASSUME MutexInv, AbsInv, NEW m \in Mutex, raw_mutex_delete(m)
  PROVE  CallInv' /\ NestOK' /\ Abs!Next
<1>1. /\ TaskInv /\ CallInv /\ NestOK /\ call' = call /\ Caller /\ Resched /\ m \in k.live
      /\ loop = NoLoop /\ loop'.op = "wake" /\ loop'.status = "DEL"
  BY raw_mutex_deleteInv DEF MutexInv, AbsInv, raw_mutex_delete, NoLoop
<1>2. /\ AsTheyAre /\ k'.live = k.live \ {m}
      /\ SameHeld(IF k.mtxtsk[m] = NoTask THEN k ELSE unlink_mutex(k, k.mtxtsk[m], m), k')
  BY raw_mutex_deleteInv
<1>3. k'.mtxtsk = k.mtxtsk /\ k'.owner_nested = k.owner_nested
  <2>1. k \in KernelState /\ k.mtxtsk[m] \in Task \cup {NoTask}
    BY <1>1, InvFacts DEF KernelState
  <2>2. CASE k.mtxtsk[m] = NoTask
    BY <1>2, <2>2 DEF SameHeld
  <2>3. CASE k.mtxtsk[m] # NoTask
    <3>1. PICK d \in Task : d = k.mtxtsk[m]
      BY <2>1, <2>3
    <3>2. /\ unlink_mutex(k, d, m).mtxtsk = k.mtxtsk
          /\ unlink_mutex(k, d, m).owner_nested = k.owner_nested
      BY <2>1 DEF unlink_mutex, KernelState
    <3>3. SameHeld(unlink_mutex(k, d, m), k')
      BY <1>2, <2>3, <3>1
    <3> QED
      BY <3>2, <3>3 DEF SameHeld
  <2> QED
    BY <2>2, <2>3
<1>4. waits' = waits /\ CallInv' /\ dying' = dying
  BY <1>1, <1>2, NoLoopOK, StillCall DEF dying
<1>5. holders' = [holders EXCEPT ![m] = NoTask] /\ depths' = [depths EXCEPT ![m] = 0]
  <2>1. \A n \in Mutex : /\ holders'[n] = IF n = m THEN NoTask ELSE holders[n]
                         /\ depths'[n] = IF n = m THEN 0 ELSE depths[n]
    BY <1>2, <1>3 DEF holders, depths, held
  <2> QED
    BY <2>1 DEF holders, depths
<1>6. (k.live \cap Mutex)' = (k.live \cap Mutex) \ {m} /\ m \in k.live \cap Mutex
  BY <1>1, <1>2
<1>7. NestOK'
  BY <1>1, <1>2, <1>3 DEF NestOK
<1>8. Abs!Delete(m)
  BY <1>4, <1>5, <1>6 DEF Abs!Delete, Abs!Hold, holders, depths, waits
<1> QED
  BY <1>4, <1>7, <1>8 DEF Abs!Next

\* The waiters of a deleted mutex are refused, one after the other.
LEMMA WakeAbs ==
  ASSUME MutexInv, AbsInv, WakeNext \/ WakeDone
  PROVE  CallInv' /\ NestOK' /\ [Abs!Next]_Abs!vars
<1>1. /\ TaskInv /\ CallInv /\ NestOK /\ loop.op = "wake" /\ loop.status = "DEL" /\ loop.obj \in Mutex
      /\ UNCHANGED <<sys, pc, call>>
  BY DEF MutexInv, AbsInv, WakeDel, WakeOK, WakeNext, WakeDone
<1>2. Calm /\ SameHeld(k, k') /\ loop'.op \in {"wake", "none"}
  BY WakeInv
<1>3. SameMutexes
  BY <1>1, <1>2 DEF SameMutexes, Calm, SameHeld, dying
<1>4. CASE WakeDone
  <2>1. UNCHANGED <<k, sys, pc, call>> /\ loop' = NoLoop
    BY <1>4 DEF WakeDone
  <2>2. CallInv'
    BY <1>1, <2>1 DEF CallInv, CallOK, FreeAt, WakeLive, NoLoop
  <2>3. \A u \in Task : waitOf(u)' = waitOf(u)
    BY <2>1 DEF waitOf
  <2>4. waits' = waits
    BY <2>3 DEF waits
  <2>5. UNCHANGED Abs!vars
    BY <1>3, <2>1, <2>4, SameMutexesStep DEF Abs!vars, SameMutexes, holders, depths, waits
  <2> QED
    BY <1>1, <1>3, <2>2, <2>5, SameMutexesStep
<1>5. CASE WakeNext
  <2>1. PICK m \in Mutex : m = loop.obj
    BY <1>1
  <2>2. Waiters(m) # <<>> /\ k' = wake_up(k, Head(Waiters(m)), "DEL") /\ loop' = loop
    BY <1>1, <1>5, <2>1 DEF WakeNext, Waiters
  <2>3. PICK t \in Task : t = Head(Waiters(m)) /\ WaitsFor(t, m)
    BY <1>1, <2>2, FirstWaiter, MutexIsObj
  <2>4. k' = wake_up(k, t, "DEL") /\ k.task_state[t] \in Pending
    BY <2>2, <2>3 DEF WaitsFor
  <2>5. Moves(k, k', t) /\ k'.task_state[t] \in Awake /\ k'.block_status[t] = "DEL"
    BY <1>1, <2>4, InvFacts, wake_upMoves DEF BlockState
  <2>6. OneMoves(k, k', t)
    BY <2>5 DEF Moves
  <2>7. CallInv'
    BY <1>1, <2>2, <2>4, <2>5, <2>6, WokenCall
  <2>8. call[t] = m
    BY <1>1, <2>3 DEF CallInv, CallOK, Pending, WaitsFor
  <2>9. waitOf(t) = WaitOn(m, "waiting") /\ waitOf(t)' = WaitOn(m, "refused")
    <3>1. call'[t] = m /\ k.task_state[t] # "DELETED" /\ k'.task_state[t] \notin Pending \cup {"DELETED"}
      BY <1>1, <2>4, <2>5, <2>8 DEF Awake, Pending
    <3>2. waitOf(t) = WaitOn(m, "waiting")
      BY <2>4, <2>8, <3>1 DEF waitOf, WaitOn
    <3>3. waitOf(t)' = WaitOn(m, "refused")
      BY <2>5, <3>1 DEF waitOf, WaitOn
    <3> QED
      BY <3>2, <3>3
  <2>10. OneWait(t)
    BY <2>9 DEF OneWait
  <2>11. \A u \in Task \ {t} : waitOf(u)' = waitOf(u)
    BY <1>1, <2>6 DEF OneMoves, waitOf
  <2>12. [Abs!Next]_Abs!vars
    BY <1>3, <2>10, <2>11, WaitStep
  <2> QED
    BY <1>1, <1>3, <2>7, <2>12, SameMutexesStep
<1> QED
  BY <1>4, <1>5

\* A step of the tasks.
LEMMA TaskStepAbs ==
  ASSUME MutexInv, OwnInv, AbsInv, TaskNext, MaxNested = 1 \/ Deletable = {}
  PROVE  AbsInv' /\ [Abs!Next]_Abs!vars
<1>1. TaskInv /\ CallInv /\ NestOK /\ WakeDel /\ NoDeletion
  BY DEF MutexInv, AbsInv
<1>2. CallInv' /\ WakeDel'
  BY <1>1, TaskStepCall, TaskNextLoop DEF WakeDel
<1>3. CASE FreeMutex
  <2>1. NoDeletion'
    BY <1>1, <1>3, FreeingOwn DEF NoDeletion
  <2> QED
    BY <1>2, <1>3, <2>1, FreeMutexAbs DEF AbsInv
<1>4. CASE ~ FreeMutex
  <2>1. NestOK'
    <3>1. UNCHANGED <<k.live, k.mtxtsk, k.owner_nested>>
      BY <1>1, <1>4, QuietHeld
    <3> QED
      BY <1>1, <3>1 DEF NestOK
  <2>2. ASSUME NEW t \in Deletable, raw_task_delete(t)
        PROVE  NoDeletion' /\ Abs!Next
    BY <1>1, <2>2, raw_task_deleteAbs DEF NoDeletion
  <2>3. CASE FinishDelete
    <3>1. NoDeletion'
      BY <2>3, NoLoopOK DEF FinishDelete, NoDeletion
    <3> QED
      BY <1>1, <2>1, <1>2, <2>3, <3>1, FinishDeleteAbs DEF AbsInv
  <2>4. CASE ~ FinishDelete /\ (loop' = loop \/ (loop.op # "free" /\ loop'.op # "free"))
    <3>1. NoDeletion'
      BY <1>1, <2>4 DEF NoDeletion
    <3> QED
      BY <1>1, <1>2, <1>4, <2>1, <2>4, <3>1, QuietTaskStep DEF AbsInv
  <2> QED
    BY <1>1, <1>2, <1>4, <2>1, <2>2, <2>3, <2>4, FreeLoop DEF AbsInv
<1> QED
  BY <1>3, <1>4

\* A step of the mutexes.
LEMMA MutexStepAbs ==
  ASSUME MutexInv, OwnInv, AbsInv, NEW m \in Mutex,
         \/ raw_mutex_create(m) \/ raw_mutex_get_nested(m) \/ raw_mutex_get_free(m)
         \/ raw_mutex_put_nested(m) \/ raw_mutex_put(m) \/ raw_mutex_delete(m)
         \/ \E timeout \in Timeouts : raw_mutex_get(m, timeout)
  PROVE  AbsInv' /\ Abs!Next
<1>1. CallInv' /\ NestOK' /\ Abs!Next
  BY raw_mutex_createAbs, NestedAbs, raw_mutex_get_freeAbs, raw_mutex_putAbs,
     raw_mutex_deleteAbs, raw_mutex_getAbs
<1>2. loop' = loop \/ (loop'.op = "wake" /\ loop'.status = "DEL")
  BY DEF raw_mutex_create, raw_mutex_get_nested, raw_mutex_get_free, raw_mutex_put_nested,
     raw_mutex_put, raw_mutex_delete, raw_mutex_get, NoLoop
<1>3. WakeDel' /\ NoDeletion'
  BY <1>2 DEF AbsInv, WakeDel, NoDeletion
<1> QED
  BY <1>1, <1>3 DEF AbsInv

LEMMA MutexNextAbs ==
  ASSUME MaxNested = 1 \/ Deletable = {}
  PROVE  MutexInv /\ OwnInv /\ AbsInv /\ [MutexNext]_taskVars => AbsInv' /\ [Abs!Next]_Abs!vars
<1> SUFFICES ASSUME MutexInv, OwnInv, AbsInv, [MutexNext]_taskVars
             PROVE  AbsInv' /\ [Abs!Next]_Abs!vars
  OBVIOUS
<1>1. CASE UNCHANGED taskVars
  <2>1. UNCHANGED <<k, sys, pc, call, loop>>
    BY <1>1 DEF taskVars, sys
  <2>2. AbsInv'
    BY <2>1 DEF AbsInv, CallInv, CallOK, FreeAt, WakeLive, NestOK, WakeDel, NoDeletion, sys, active
  <2> QED
    BY <2>1, <2>2 DEF Abs!vars, held, waitOf, dying
<1>2. CASE WakeNext \/ WakeDone
  <2>1. loop' = loop \/ loop'.op = "none"
    BY <1>2, NoLoopOK DEF WakeNext, WakeDone
  <2>2. WakeDel' /\ NoDeletion'
    BY <2>1 DEF AbsInv, WakeDel, NoDeletion
  <2> QED
    BY <1>2, <2>2, WakeAbs DEF AbsInv
<1>3. CASE TaskNext
  BY <1>3, TaskStepAbs
<1>4. ASSUME NEW m \in Mutex,
             \/ raw_mutex_create(m) \/ raw_mutex_get_nested(m) \/ raw_mutex_get_free(m)
             \/ raw_mutex_put_nested(m) \/ raw_mutex_put(m) \/ raw_mutex_delete(m)
             \/ \E timeout \in Timeouts : raw_mutex_get(m, timeout)
      PROVE  AbsInv' /\ [Abs!Next]_Abs!vars
  BY <1>4, MutexStepAbs
<1> QED
  BY <1>1, <1>2, <1>3, <1>4, MutexAssumption DEF MutexNext

LEMMA MutexInitAbs == TaskInit => AbsInv /\ Abs!Init
<1> SUFFICES ASSUME TaskInit PROVE AbsInv /\ Abs!Init
  OBVIOUS
<1>1. /\ pc = [t \in Task |-> "run"] /\ call = [t \in Task |-> "none"] /\ loop = NoLoop
      /\ k.live = {} /\ k.task_state = [t \in Task |-> IF t = Idle THEN "RDY" ELSE "DELETED"]
  BY DEF TaskInit, InitKernel
<1>2. AbsInv
  BY <1>1 DEF AbsInv, CallInv, CallOK, FreeAt, WakeLive, NestOK, WakeDel, NoDeletion, NoLoop,
     Pending, Timed
<1>3. \A m \in Mutex : ~ held(m)
  BY <1>1 DEF held
<1>4. \A t \in Task : waitOf(t) = Outside
  BY <1>1, MutexNames DEF waitOf, Outside
<1>5. Abs!Init
  BY <1>1, <1>3, <1>4 DEF Abs!Init, Abs!Outside, Outside, dying, NoLoop
<1> QED
  BY <1>2, <1>5

\* raw_mutex.c keeps what it promises, whatever tasks do to priorities, waits and
\* each other: a mutex has one holder, who alone gives it up or dies with it, and
\* with tasks waiting it goes at once to one of them, held once.  When a task is
\* deleted a mutex goes over with the count it had, hence the condition: no mutex
\* is taken twice, or no task is deleted (see NestedBySameTask).
THEOREM MutexRefinesAbs ==
  ASSUME Redelete = FALSE, MaxNested = 1 \/ Deletable = {}
  PROVE  MutexSpec => ImplementsAbsMutex
<1>1. MutexInv /\ OwnInv /\ AbsInv /\ [MutexNext]_taskVars => AbsInv' /\ [Abs!Next]_Abs!vars
  BY MutexNextAbs
<1>2. MutexInv /\ OwnInv /\ [MutexNext]_taskVars => OwnInv'
  BY MutexNextOwn
<1> QED
  BY <1>1, <1>2, OwnInit, MutexInitAbs, MutexInvariant, PTL DEF MutexSpec, ImplementsAbsMutex, Abs!Spec
=============================================================================
